---------------------------- MODULE NetworkProofs ----------------------------
(***************************************************************************)
(* Theorems about parts of the network node and its client, for any sets   *)
(* of calls, sessions and messages: the RPC communicator implements the    *)
(* calls its users rely on, a peer that delivers passes its inspection,    *)
(* a destroyed client leaves no node behind, a started node announces the  *)
(* server socket it serves, a stream part becomes what the last call asked *)
(* for, WebRTC peers take each other's offers and send every message once, *)
(* a client reads its own writes of the registries, a proxy client and its *)
(* proxies agree on the connections between them, a node passes every      *)
(* message on, once, and a node with a certificate stays reachable.        *)
(***************************************************************************)
EXTENDS Rpc, Delivery, NodeFacade, Connectivity, StreamParts, Webrtc, Registries, ProxyClient, AutoCertifier,
        FiniteSetTheorems, SequenceTheorems, NaturalsInduction, WellFoundedInduction, TLAPS

-----------------------------------------------------------------------------
(* Rpc: what the caller waits for, and what is on its way.                 *)


\* What is in flight or was started left the caller before, once.
CallsAreSent ==
    /\ \A c \in sending \cup sent : outcome[c] # "none"
    /\ executed \subseteq sent
    /\ \A c \in Call : Outgoing(c) \in wire => c \in sent \ executed
    /\ serving \subseteq executed
    /\ \A c \in Call : Response(c, "result") \in wire => c \in executed

\* The requests that wait for a response are exactly those whose promises are pending, except for
\* requests made after stop().
OngoingArePending ==
    /\ \A c \in ongoingRequests : outcome[c] = "pending"
    /\ \A c \in sending \cap Request : outcome[c] = "pending" => c \in ongoingRequests

\* The inductive invariant.
RpcInv == RpcTypeOK /\ CallsAreSent /\ OngoingArePending

-----------------------------------------------------------------------------
\* Messages are told apart by their call and their kind.
LEMMA MessagesDiffer ==
    /\ \A c, d : Outgoing(c) = Outgoing(d) => c = d
    /\ \A c, d, k : k # "call" => Outgoing(c) # Response(d, k)
    /\ \A c, d, j, k : Response(c, j) = Response(d, k) => c = d /\ j = k
<1>1. \A c, d : Outgoing(c) = Outgoing(d) => c = d
    <2> SUFFICES ASSUME NEW c, NEW d, Outgoing(c) = Outgoing(d) PROVE c = d
        OBVIOUS
    <2>1. Outgoing(c).call = c /\ Outgoing(d).call = d
        BY DEF Outgoing
    <2>2. QED
        BY <2>1
<1>2. \A c, d, k : k # "call" => Outgoing(c) # Response(d, k)
    <2> SUFFICES ASSUME NEW c, NEW d, NEW k, k # "call" PROVE Outgoing(c) # Response(d, k)
        OBVIOUS
    <2>1. Outgoing(c).kind = "call" /\ Response(d, k).kind = k
        BY DEF Outgoing, Response
    <2>2. QED
        BY <2>1
<1>3. \A c, d, j, k : Response(c, j) = Response(d, k) => c = d /\ j = k
    <2> SUFFICES ASSUME NEW c, NEW d, NEW j, NEW k, Response(c, j) = Response(d, k)
                 PROVE  c = d /\ j = k
        OBVIOUS
    <2>1. Response(c, j).call = c /\ Response(c, j).kind = j /\ Response(d, k).call = d /\ Response(d, k).kind = k
        BY DEF Response
    <2>2. QED
        BY <2>1
<1>4. QED
    BY <1>1, <1>2, <1>3

\* The messages of the two sides have the type of the wire.
LEMMA MessageTypes ==
    ASSUME NEW c \in Call, NEW k \in {"result", "error", "unreadable"}
    PROVE  /\ Outgoing(c) \in [call : Call, kind : {"call", "result", "error", "unreadable"}]
           /\ Response(c, k) \in [call : Call, kind : {"call", "result", "error", "unreadable"}]
BY DEF Outgoing, Response

\* Settled() only changes promises that are pending.
LEMMA SettledOnlyPending ==
    ASSUME RpcTypeOK, NEW C \in SUBSET Call, NEW o \in {"ok", "failed"}
    PROVE  /\ Settled(C, o) \in [Call -> {"none", "pending", "ok", "failed"}]
           /\ \A c \in Call : Settled(C, o)[c] = IF c \in C /\ outcome[c] = "pending" THEN o ELSE outcome[c]
BY DEF Settled, RpcTypeOK

-----------------------------------------------------------------------------
\* Every step of the two sides keeps the types.
LEMMA RpcTypes == RpcTypeOK /\ [RpcNext]_rpcVars => RpcTypeOK'
<1> SUFFICES ASSUME RpcTypeOK, [RpcNext]_rpcVars
             PROVE  RpcTypeOK'
    OBVIOUS
<1> USE RpcAssumption DEF Request
<1>1. ASSUME NEW c \in Call, Unary(c) PROVE RpcTypeOK'
    BY <1>1 DEF Unary, OnOutgoingMessage, RegisterRequest, RpcTypeOK
<1>2. ASSUME NEW c \in Call, SendMessage(c) PROVE RpcTypeOK'
    BY <1>2, MessageTypes DEF SendMessage, RpcTypeOK
<1>3. ASSUME NEW c \in Call, SendResolves(c) PROVE RpcTypeOK'
    BY <1>3, SettledOnlyPending DEF SendResolves, ResolveNotification, RpcTypeOK
<1>4. ASSUME NEW c \in Call, SendRejects(c) PROVE RpcTypeOK'
    BY <1>4, SettledOnlyPending DEF SendRejects, RpcFault, RpcTypeOK
<1>5. ASSUME NEW c \in Call, ReceiveCall(c) PROVE RpcTypeOK'
    BY <1>5 DEF ReceiveCall, Receive, RpcTypeOK
<1>6. ASSUME NEW c \in Call, UnknownMethod(c) PROVE RpcTypeOK'
    BY <1>6, MessageTypes DEF UnknownMethod, RpcFault, RpcTypeOK
<1>7. ASSUME NEW c \in Call, HandleRequest(c) PROVE RpcTypeOK'
    BY <1>7, MessageTypes DEF HandleRequest, Responds, RpcTypeOK
<1>8. ASSUME NEW c \in Call, HandleRequestFails(c) PROVE RpcTypeOK'
    BY <1>8, MessageTypes DEF HandleRequestFails, Responds, RpcFault, RpcTypeOK
<1>9. ASSUME NEW c \in Call, ResponseArrives(c) PROVE RpcTypeOK'
    BY <1>9, SettledOnlyPending DEF ResponseArrives, HandleResponse, RpcTypeOK
<1>10. ASSUME NEW c \in Call, RequestTimesOut(c) PROVE RpcTypeOK'
    BY <1>10, SettledOnlyPending DEF RequestTimesOut, RpcTypeOK
<1>11. CASE PeerDisconnects
    BY <1>11, SettledOnlyPending DEF PeerDisconnects, RpcFault, RpcTypeOK
<1>12. CASE StopCaller
    BY <1>12, SettledOnlyPending DEF StopCaller, RpcTypeOK
<1>13. CASE StopPeer
    BY <1>13 DEF StopPeer, RpcTypeOK
<1>14. CASE MessageLost
    BY <1>14 DEF MessageLost, RpcFault, RpcTypeOK
<1>15. CASE UNCHANGED rpcVars
    BY <1>15 DEF rpcVars, RpcTypeOK
<1>16. QED
    BY <1>1, <1>2, <1>3, <1>4, <1>5, <1>6, <1>7, <1>8, <1>9, <1>10, <1>11, <1>12, <1>13, <1>14, <1>15 DEF RpcNext

\* No step puts a call or a result on the wire that its side did not have.
LEMMA CallsStaySent == RpcInv /\ [RpcNext]_rpcVars => CallsAreSent'
<1> SUFFICES ASSUME RpcInv, [RpcNext]_rpcVars
             PROVE  CallsAreSent'
    OBVIOUS
<1> USE RpcAssumption DEF Request, RpcInv, RpcTypeOK, CallsAreSent
<1>1. ASSUME NEW c \in Call, Unary(c) PROVE CallsAreSent'
    BY <1>1 DEF Unary, OnOutgoingMessage, RegisterRequest
<1>2. ASSUME NEW c \in Call, SendMessage(c) PROVE CallsAreSent'
    BY <1>2, MessagesDiffer DEF SendMessage
<1>3. ASSUME NEW c \in Call, SendResolves(c) PROVE CallsAreSent'
    BY <1>3, SettledOnlyPending DEF SendResolves, ResolveNotification
<1>4. ASSUME NEW c \in Call, SendRejects(c) PROVE CallsAreSent'
    BY <1>4, SettledOnlyPending DEF SendRejects
<1>5. ASSUME NEW c \in Call, ReceiveCall(c) PROVE CallsAreSent'
    BY <1>5, MessagesDiffer DEF ReceiveCall, Receive
<1>6. ASSUME NEW c \in Call, UnknownMethod(c) PROVE CallsAreSent'
    BY <1>6, MessagesDiffer DEF UnknownMethod
<1>7. ASSUME NEW c \in Call, HandleRequest(c) PROVE CallsAreSent'
    BY <1>7, MessagesDiffer DEF HandleRequest, Responds
<1>8. ASSUME NEW c \in Call, HandleRequestFails(c) PROVE CallsAreSent'
    BY <1>8, MessagesDiffer DEF HandleRequestFails, Responds
<1>9. ASSUME NEW c \in Call, ResponseArrives(c) PROVE CallsAreSent'
    BY <1>9, SettledOnlyPending, MessagesDiffer DEF ResponseArrives, HandleResponse
<1>10. ASSUME NEW c \in Call, RequestTimesOut(c) PROVE CallsAreSent'
    BY <1>10, SettledOnlyPending DEF RequestTimesOut
<1>11. CASE PeerDisconnects
    BY <1>11, SettledOnlyPending DEF PeerDisconnects
<1>12. CASE StopCaller
    BY <1>12, SettledOnlyPending DEF StopCaller
<1>13. CASE StopPeer
    BY <1>13 DEF StopPeer
<1>14. CASE MessageLost
    BY <1>14 DEF MessageLost
<1>15. CASE UNCHANGED rpcVars
    BY <1>15 DEF rpcVars
<1>16. QED
    BY <1>1, <1>2, <1>3, <1>4, <1>5, <1>6, <1>7, <1>8, <1>9, <1>10, <1>11, <1>12, <1>13, <1>14, <1>15 DEF RpcNext

\* A request leaves ongoingRequests in the step that settles it.
LEMMA OngoingStayPending == RpcInv /\ [RpcNext]_rpcVars => OngoingArePending'
<1> SUFFICES ASSUME RpcInv, [RpcNext]_rpcVars
             PROVE  OngoingArePending'
    OBVIOUS
<1> USE RpcAssumption DEF Request, RpcInv, RpcTypeOK, OngoingArePending
<1>1. ASSUME NEW c \in Call, Unary(c) PROVE OngoingArePending'
    BY <1>1 DEF Unary, OnOutgoingMessage, RegisterRequest, CallsAreSent
<1>2. ASSUME NEW c \in Call, SendMessage(c) PROVE OngoingArePending'
    BY <1>2 DEF SendMessage
<1>3. ASSUME NEW c \in Call, SendResolves(c) PROVE OngoingArePending'
    BY <1>3, SettledOnlyPending DEF SendResolves, ResolveNotification
<1>4. ASSUME NEW c \in Call, SendRejects(c) PROVE OngoingArePending'
    BY <1>4, SettledOnlyPending DEF SendRejects
<1>5. ASSUME NEW c \in Call, ReceiveCall(c) PROVE OngoingArePending'
    BY <1>5 DEF ReceiveCall, Receive
<1>6. ASSUME NEW c \in Call, UnknownMethod(c) PROVE OngoingArePending'
    BY <1>6 DEF UnknownMethod
<1>7. ASSUME NEW c \in Call, HandleRequest(c) PROVE OngoingArePending'
    BY <1>7 DEF HandleRequest, Responds
<1>8. ASSUME NEW c \in Call, HandleRequestFails(c) PROVE OngoingArePending'
    BY <1>8 DEF HandleRequestFails, Responds
<1>9. ASSUME NEW c \in Call, ResponseArrives(c) PROVE OngoingArePending'
    BY <1>9, SettledOnlyPending DEF ResponseArrives, HandleResponse
<1>10. ASSUME NEW c \in Call, RequestTimesOut(c) PROVE OngoingArePending'
    BY <1>10, SettledOnlyPending DEF RequestTimesOut
<1>11. CASE PeerDisconnects
    BY <1>11, SettledOnlyPending DEF PeerDisconnects
<1>12. CASE StopCaller
    BY <1>12, SettledOnlyPending DEF StopCaller
<1>13. CASE StopPeer
    BY <1>13 DEF StopPeer
<1>14. CASE MessageLost
    BY <1>14 DEF MessageLost
<1>15. CASE UNCHANGED rpcVars
    BY <1>15 DEF rpcVars
<1>16. QED
    BY <1>1, <1>2, <1>3, <1>4, <1>5, <1>6, <1>7, <1>8, <1>9, <1>10, <1>11, <1>12, <1>13, <1>14, <1>15 DEF RpcNext

\* Before the first call nothing is sent, and the calls are in their initial state.
LEMMA RpcInitially == RpcInit => RpcInv /\ Calls!Init
<1> SUFFICES ASSUME RpcInit PROVE RpcInv /\ Calls!Init
    OBVIOUS
<1> USE RpcAssumption DEF RpcInit
<1>1. RpcTypeOK
    <2>1. {callerStopped, peerStopped} \subseteq BOOLEAN
        BY Zenon
    <2>2. QED
        BY <2>1 DEF RpcTypeOK
<1>2. CallsAreSent /\ OngoingArePending
    BY DEF CallsAreSent, OngoingArePending
<1>3. Calls!Init
    BY DEF Calls!Init
<1>4. QED
    BY <1>1, <1>2, <1>3 DEF RpcInv

\* The invariant is inductive.
LEMMA RpcInductive == RpcInv /\ [RpcNext]_rpcVars => RpcInv'
BY RpcTypes, CallsStaySent, OngoingStayPending DEF RpcInv

\* Every step opens, sends, executes or settles calls as RpcCalls allows, or changes none: a result
\* settles a request that is pending and was executed, and only a notification is settled by its sending.
LEMMA StepsAreCallSteps == RpcInv /\ [RpcNext]_rpcVars => [Calls!Next]_<<outcome, sent, executed>>
<1> SUFFICES ASSUME RpcInv, [RpcNext]_rpcVars
             PROVE  [Calls!Next]_<<outcome, sent, executed>>
    OBVIOUS
<1> USE RpcAssumption DEF Request, RpcInv, RpcTypeOK
<1>1. ASSUME NEW c \in Call, Unary(c) PROVE Calls!Open(c)
    BY <1>1 DEF Unary, Calls!Open
<1>2. ASSUME NEW c \in Call, SendMessage(c) PROVE Calls!Send(c)
    BY <1>2 DEF SendMessage, CallsAreSent, Calls!Send
<1>3. ASSUME NEW c \in Call, SendResolves(c) PROVE Calls!Succeed(c) \/ UNCHANGED <<outcome, sent, executed>>
    <2>1. CASE c \in ongoingRequests \/ outcome[c] # "pending"
        <3>1. outcome' = outcome
            BY <1>3, <2>1, SettledOnlyPending DEF SendResolves, ResolveNotification
        <3>2. QED
            BY <1>3, <3>1 DEF SendResolves
    <2>2. CASE c \notin ongoingRequests /\ outcome[c] = "pending"
        <3>1. c \in Notification /\ c \in sent
            BY <1>3, <2>2 DEF SendResolves, OngoingArePending
        <3>2. outcome' = [outcome EXCEPT ![c] = "ok"]
            BY <1>3, <2>2 DEF SendResolves, ResolveNotification, Settled
        <3>3. QED
            BY <1>3, <2>2, <3>1, <3>2 DEF SendResolves, Calls!Succeed
    <2>3. QED
        BY <2>1, <2>2
<1>4. ASSUME NEW c \in Call, ReceiveCall(c) PROVE Calls!Execute(c)
    BY <1>4 DEF ReceiveCall, Receive, CallsAreSent, Calls!Execute
<1>5. ASSUME NEW c \in Call, ResponseArrives(c)
      PROVE  Calls!Succeed(c) \/ Calls!Fail({c}) \/ UNCHANGED <<outcome, sent, executed>>
    <2>1. PICK kind \in {"result", "error", "unreadable"} : HandleResponse(c, kind)
        BY <1>5 DEF ResponseArrives
    <2>2. CASE callerStopped \/ c \notin ongoingRequests
        BY <2>1, <2>2 DEF HandleResponse
    <2>3. CASE ~(callerStopped \/ c \notin ongoingRequests) /\ kind = "result"
        <3>1. outcome[c] = "pending" /\ c \notin Notification /\ c \in executed
            BY <2>1, <2>3 DEF HandleResponse, OngoingArePending, CallsAreSent
        <3>2. outcome' = [outcome EXCEPT ![c] = "ok"]
            BY <2>1, <2>3, <3>1 DEF HandleResponse, Settled
        <3>3. QED
            BY <2>1, <3>1, <3>2 DEF HandleResponse, Calls!Succeed
    <2>4. CASE ~(callerStopped \/ c \notin ongoingRequests) /\ kind # "result"
        <3>1. outcome[c] = "pending"
            BY <2>1, <2>4 DEF HandleResponse, OngoingArePending
        <3>2. outcome' = [d \in Call |-> IF d \in {c} THEN "failed" ELSE outcome[d]]
            BY <2>1, <2>4, <3>1 DEF HandleResponse, Settled
        <3>3. QED
            BY <2>1, <3>1, <3>2 DEF HandleResponse, Calls!Fail
    <2>5. QED
        BY <2>2, <2>3, <2>4
<1>6. ASSUME NEW C \in SUBSET Call, outcome' = Settled(C, "failed"), UNCHANGED <<sent, executed>>
      PROVE  \E D \in SUBSET Call : Calls!Fail(D)
    <2> DEFINE D == {c \in C : outcome[c] = "pending"}
    <2>1. outcome' = [c \in Call |-> IF c \in D THEN "failed" ELSE outcome[c]]
        BY <1>6 DEF Settled
    <2>2. Calls!Fail(D)
        BY <1>6, <2>1 DEF Calls!Fail
    <2>3. QED
        BY <2>2
<1>7. ASSUME NEW c \in Call, SendRejects(c) \/ RequestTimesOut(c)
      PROVE  \E D \in SUBSET Call : Calls!Fail(D)
    BY <1>6, <1>7 DEF SendRejects, RequestTimesOut
<1>8. CASE PeerDisconnects \/ StopCaller
    <2>1. \E D \in SUBSET Call : Calls!Fail(D)
        BY <1>6, <1>8 DEF PeerDisconnects, StopCaller
    <2>2. QED
        BY <2>1 DEF Calls!Next
<1>9. ASSUME NEW c \in Call, UnknownMethod(c) \/ HandleRequest(c) \/ HandleRequestFails(c)
      PROVE  UNCHANGED <<outcome, sent, executed>>
    BY <1>9 DEF UnknownMethod, HandleRequest, HandleRequestFails, Responds
<1>10. CASE StopPeer \/ MessageLost \/ UNCHANGED rpcVars
    BY <1>10 DEF StopPeer, MessageLost, rpcVars
<1>11. QED
    BY <1>1, <1>2, <1>3, <1>4, <1>5, <1>7, <1>8, <1>9, <1>10 DEF RpcNext, Calls!Next

\* The types of the RPC communicator and its peer, for any calls.
THEOREM RpcTypeCorrect == RpcSpec => []RpcTypeOK
<1>1. RpcInv => RpcTypeOK
    BY DEF RpcInv
<1>2. QED
    BY <1>1, RpcInitially, RpcInductive, PTL DEF RpcSpec

\* RpcCommunicator keeps the promise of RpcCalls for any calls and any number of faults: a call is
\* settled once, succeeds only if it was executed (sent, for a notification), and is executed at most once.
THEOREM RpcImplementsCalls == RpcSpec => ImplementsCalls
BY RpcInitially, RpcInductive, StepsAreCallSteps, PTL DEF RpcSpec, ImplementsCalls, Calls!Spec
-----------------------------------------------------------------------------
(* Inspections: a session that is in the map sees what arrives.            *)

\* What a session remembers of a message is the sender of a copy that came.
MarksAreTrue ==
    /\ DOMAIN marks = Session
    /\ \A s \in Session : \A m \in DOMAIN marks[s] : marks[s][m] \in Sender /\ <<m, marks[s][m]>> \in came

\* An inspection in progress is in the map, unless another one or stop() took it out.
InProgressIsRegistered ==
    \A s \in Session \ unmarked : stage[s] \in {"opening", "waiting", "closing"} => registered = s

\* Who delivered what another node delivered too has passed.
DeliveredIsDone == \A s \in Session \ unmarked : deliveredWhile[s] # {} => s \in done

\* The inductive invariant.
InspectionInv ==
    /\ InspectionTypeOK /\ MarksAreTrue /\ InProgressIsRegistered /\ DeliveredIsDone /\ DeliveringPeerPasses

\* The types of an inspection.
LEMMA InspectionTypes == InspectionTypeOK /\ MarksAreTrue /\ [InspectionNext]_inspectionVars => InspectionTypeOK'
<1> SUFFICES ASSUME InspectionTypeOK, MarksAreTrue, [InspectionNext]_inspectionVars
             PROVE  InspectionTypeOK'
    OBVIOUS
<1> USE InspectionAssumption DEF InspectionTypeOK, CallLost
<1>1. ASSUME NEW s \in Session, StartInspection(s) PROVE InspectionTypeOK'
    BY <1>1 DEF StartInspection
<1>2. ASSUME NEW s \in Session, ConnectionOpened(s) PROVE InspectionTypeOK'
    <2>1. servedByPeer' \in BOOLEAN /\ locked' \in BOOLEAN
        BY <1>2, Zenon DEF ConnectionOpened
    <2>2. lostCalls' \in 0 .. MaxLostCalls
        <3>1. UNCHANGED lostCalls \/ CallLost
            BY <1>2, Zenon DEF ConnectionOpened
        <3>2. QED
            BY <3>1
    <2>3. stage' = [stage EXCEPT ![s] = "waiting"] /\ UNCHANGED <<marks, done, registered, came, deliveredWhile, unmarked>>
        BY <1>2 DEF ConnectionOpened
    <2>4. QED
        BY <2>1, <2>2, <2>3
<1>3. ASSUME NEW s \in Session, WaitEnds(s) PROVE InspectionTypeOK'
    BY <1>3 DEF WaitEnds
<1>4. ASSUME NEW s \in Session, EndInspection(s) PROVE InspectionTypeOK'
    <2>1. servedByPeer' \in BOOLEAN /\ locked' \in BOOLEAN
        BY <1>4, Zenon DEF EndInspection
    <2>2. lostCalls' \in 0 .. MaxLostCalls
        BY <1>4 DEF EndInspection
    <2>3. stage' \in [Session -> {"none", "opening", "waiting", "closing", "passed", "failed"}]
        BY <1>4 DEF EndInspection
    <2>4. unmarked' \subseteq Session /\ registered' = NoSession /\ UNCHANGED <<marks, done, came, deliveredWhile>>
        BY <1>4 DEF EndInspection
    <2>5. QED
        BY <2>1, <2>2, <2>3, <2>4
<1>5. ASSUME NEW m \in InspectMessage, NEW from \in Sender, MarkMessage(m, from) PROVE InspectionTypeOK'
    <2>1. \A s \in Session : DOMAIN marks'[s] \subseteq InspectMessage
        BY <1>5 DEF MarkMessage, MarksAreTrue
    <2>2. done' \subseteq Session /\ deliveredWhile' \in [Session -> SUBSET InspectMessage]
        BY <1>5 DEF MarkMessage
    <2>3. QED
        BY <1>5, <2>1, <2>2 DEF MarkMessage
<1>6. CASE StopInspector
    BY <1>6 DEF StopInspector
<1>7. CASE UNCHANGED inspectionVars
    BY <1>7 DEF inspectionVars
<1>8. QED
    BY <1>1, <1>2, <1>3, <1>4, <1>5, <1>6, <1>7 DEF InspectionNext

\* Every step keeps the invariant: a session that is out of the map is unmarked, and only one that is
\* in the map gains a delivered message without being unmarked.
LEMMA InspectionInductive == InspectionInv /\ [InspectionNext]_inspectionVars => InspectionInv'
<1> SUFFICES ASSUME InspectionInv, [InspectionNext]_inspectionVars PROVE InspectionInv'
    OBVIOUS
<1>0. InspectionTypeOK'
    BY InspectionTypes DEF InspectionInv
<1> USE InspectionAssumption
    DEF InspectionInv, InspectionTypeOK, MarksAreTrue, InProgressIsRegistered, DeliveredIsDone, DeliveringPeerPasses
<1>1. ASSUME NEW s \in Session, StartInspection(s) PROVE InspectionInv'
    BY <1>0, <1>1 DEF StartInspection
<1>2. ASSUME NEW s \in Session, ConnectionOpened(s) PROVE InspectionInv'
    BY <1>0, <1>2 DEF ConnectionOpened
<1>3. ASSUME NEW s \in Session, WaitEnds(s) PROVE InspectionInv'
    BY <1>0, <1>3 DEF WaitEnds
<1>4. ASSUME NEW s \in Session, EndInspection(s) PROVE InspectionInv'
    BY <1>0, <1>4 DEF EndInspection, Passes
<1>5. ASSUME NEW m \in InspectMessage, NEW from \in Sender, MarkMessage(m, from) PROVE InspectionInv'
    <2>1. /\ <<m, from>> \notin came /\ came' = came \cup {<<m, from>>}
          /\ UNCHANGED <<stage, registered, unmarked>> /\ done \subseteq done'
        BY <1>5 DEF MarkMessage
    <2>2. MarksAreTrue'
        BY <1>5, <2>1 DEF MarkMessage
    <2>3. ASSUME NEW t \in Session \ unmarked, deliveredWhile'[t] # deliveredWhile[t]
          PROVE  t \in done' /\ stage[t] = "waiting"
        <3>1. /\ stage[t] = "waiting" /\ m \in DOMAIN marks[t]
              /\ \E other \in Sender \ {from} : <<m, other>> \in came
            BY <1>5, <2>3 DEF MarkMessage
        <3>2. registered = t /\ t # NoSession
            BY <3>1
        <3>3. marks[t][m] \in Sender /\ marks[t][m] # from
            BY <2>1, <3>1
        <3>4. IsDone(t, m, from)
            BY <3>1, <3>3 DEF IsDone, Sender
        <3>5. QED
            BY <1>5, <3>1, <3>2, <3>4 DEF MarkMessage
    <2>4. QED
        BY <1>0, <2>1, <2>2, <2>3
<1>6. CASE StopInspector
    BY <1>0, <1>6 DEF StopInspector
<1>7. CASE UNCHANGED inspectionVars
    BY <1>0, <1>7 DEF inspectionVars
<1>8. QED
    BY <1>1, <1>2, <1>3, <1>4, <1>5, <1>6, <1>7 DEF InspectionNext

\* The invariant holds before the first inspection.
LEMMA InspectionInitially == InspectionInit => InspectionInv
<1> SUFFICES ASSUME InspectionInit PROVE InspectionInv
    OBVIOUS
<1>1. \A s \in Session : marks[s] = <<>> /\ DOMAIN marks[s] = {}
    BY DEF InspectionInit
<1>2. servedByPeer \in BOOLEAN /\ locked \in BOOLEAN
    BY Zenon DEF InspectionInit
<1>3. InspectionTypeOK
    BY <1>1, <1>2, InspectionAssumption DEF InspectionInit, InspectionTypeOK
<1>4. MarksAreTrue /\ InProgressIsRegistered /\ DeliveredIsDone /\ DeliveringPeerPasses
    BY <1>1 DEF InspectionInit, MarksAreTrue, InProgressIsRegistered, DeliveredIsDone, DeliveringPeerPasses
<1>5. QED
    BY <1>3, <1>4 DEF InspectionInv

\* The types of inspections.
THEOREM InspectionsTypeCorrect == InspectionSpec => []InspectionTypeOK
<1>1. InspectionInv => InspectionTypeOK
    BY DEF InspectionInv
<1>2. QED
    BY <1>1, InspectionInitially, InspectionInductive, PTL DEF InspectionSpec

\* For any number of overlapping inspections, messages and lost calls, a peer that delivered what
\* another node delivered too, while the session waited in the map, does not fail.
THEOREM DeliveringPeersPass == InspectionSpec => []DeliveringPeerPasses
<1>1. InspectionInv => DeliveringPeerPasses
    BY DEF InspectionInv
<1>2. QED
    BY <1>1, InspectionInitially, InspectionInductive, PTL DEF InspectionSpec

-----------------------------------------------------------------------------
(* NodeFacade: where the one start of the node is, before and after the    *)
(* client is destroyed.                                                    *)

Pending(t) == t.status = "pending"

\* Before, the start task tells how far the node is.
BeforeDestroy ==
    ~triggered =>
        /\ oldTasks = {} /\ destroying = "none" /\ destroyOutcome = "none"
        /\ startNodeComplete => startTask.status \in {"fulfilled", "rejected"}
        /\ startTask.at # "stopping"
        /\ cachedNode /\ startNodeComplete => IF started THEN node = "running" ELSE node = "failed"
        /\ cachedNode /\ ~startNodeComplete => Pending(startTask) /\ startTask.at = "starting"
        /\ ~cachedNode => node = "none" /\ startTask.at \in {"none", "options"}
        /\ ~(cachedNode /\ startNodeComplete) => ~started /\ node # "running"

\* After it, no start begins; at most one goes on, and a node that it started is being stopped.  The
\* node is stopped by destroy() or by the task that started it too late.
AfterDestroy ==
    triggered =>
        /\ abortSignaled /\ destroying # "none" /\ ~Pending(startTask)
        /\ \A t, u \in oldTasks : Pending(t) /\ Pending(u) => t = u
        /\ \A t \in oldTasks : Pending(t) => (t.at = "stopping" <=> started)
        /\ destroying = "stopping" =>
              /\ \A t \in oldTasks : ~Pending(t)
              /\ IF started THEN node = "running" ELSE node = "failed"
        /\ destroying # "stopping" /\ started => node = "stopped" \/ \E t \in oldTasks : Pending(t)
        /\ ~started => node # "running"
        /\ destroying = "waiting" => startOverlapped
        /\ \/ persistenceClosed \/ startOverlapped \/ destroying = "stopping"
           \/ node = "failed" /\ \A t \in oldTasks : ~Pending(t)

\* A call waits only while a start is in progress.
WaitersHaveATask ==
    (\E c \in Caller : calls[c] = "waiting") => \E t \in {startTask} \cup oldTasks : Pending(t)

\* The inductive invariant.
FacadeInv ==
    /\ NodeFacadeTypeOK /\ BeforeDestroy /\ AfterDestroy /\ WaitersHaveATask
    /\ destroyOutcome # "none" => triggered /\ destroying = "done"

\* A start in progress is the current one before the client is destroyed, and the only old one after.
LEMMA OneStart ==
    ASSUME FacadeInv, NEW t \in {startTask} \cup oldTasks, Pending(t), NEW u \in Task, TaskGoesOn(t, u)
    PROVE  /\ ~triggered => t = startTask /\ startTask' = u /\ oldTasks' = {}
           /\ triggered => /\ startTask' = startTask /\ oldTasks' \subseteq Task /\ u \in oldTasks'
                           /\ \A v \in oldTasks' : v = u \/ ~Pending(v)
                           /\ t \in oldTasks /\ destroying # "stopping"
           /\ startTask' \in Task /\ oldTasks' \subseteq Task
<1>1. CASE ~triggered
    BY <1>1 DEF FacadeInv, BeforeDestroy, TaskGoesOn
<1>2. CASE triggered
    BY <1>2 DEF FacadeInv, AfterDestroy, TaskGoesOn, NodeFacadeTypeOK
<1>3. QED
    BY <1>1, <1>2

\* Every step keeps the invariant.
LEMMA FacadeInductive == FacadeInv /\ [FacadeNext]_facadeVars => FacadeInv'
<1> SUFFICES ASSUME FacadeInv, [FacadeNext]_facadeVars PROVE FacadeInv'
    OBVIOUS
<1>1. ASSUME NEW c \in Caller, GetNode(c) PROVE FacadeInv'
    BY <1>1 DEF FacadeInv, NodeFacadeTypeOK, BeforeDestroy, AfterDestroy, WaitersHaveATask, Pending, GetNode,
           NoTask, Task, TaskOf
<1>2. ASSUME NEW c \in Caller, UseCachedNode(c) PROVE FacadeInv'
    BY <1>2 DEF FacadeInv, NodeFacadeTypeOK, BeforeDestroy, AfterDestroy, WaitersHaveATask, Pending, UseCachedNode,
           NoTask, Task, TaskOf, IsStarting
<1>3. ASSUME NEW t \in {startTask} \cup oldTasks, OptionsArrive(t) PROVE FacadeInv'
    <2>1. t \in Task /\ Pending(t) /\ t.at = "options"
        BY <1>3 DEF OptionsArrive, Running, FacadeInv, NodeFacadeTypeOK, Pending
    <2>2. UNCHANGED <<triggered, destroying, abortSignaled, persistenceClosed, destroyOutcome, startOverlapped>>
        BY <1>3 DEF OptionsArrive
    <2>3. CASE ~triggered
        <3> DEFINE u == TaskOf("pending", "starting")
        <3>1. u \in Task /\ u.status = "pending" /\ u.at = "starting"
            BY DEF Task, TaskOf
        <3>2. TaskGoesOn(t, u)
            BY <1>3, <2>3 DEF OptionsArrive
        <3> HIDE DEF u
        <3>3. t = startTask /\ startTask' = u /\ oldTasks' = {}
            BY <2>1, <2>3, <3>1, <3>2, OneStart
        <3>4. NodeFacadeTypeOK'
            BY <1>3, <2>2, <2>3, <3>1, <3>3 DEF OptionsArrive, Settle, FacadeInv, NodeFacadeTypeOK
        <3>5. BeforeDestroy'
            BY <1>3, <2>1, <2>2, <2>3, <3>1, <3>3 DEF OptionsArrive, FacadeInv, BeforeDestroy, Pending, NodeFacadeTypeOK
        <3>6. WaitersHaveATask'
            BY <1>3, <3>1, <3>3 DEF WaitersHaveATask, Pending
        <3>7. QED
            BY <2>2, <2>3, <3>4, <3>5, <3>6 DEF FacadeInv, AfterDestroy
    <2>4. CASE triggered
        <3> DEFINE u == TaskOf("rejected", "none")
        <3>1. u \in Task /\ u.status = "rejected" /\ u.at = "none"
            BY DEF Task, TaskOf
        <3>2. TaskGoesOn(t, u)
            BY <1>3, <2>4 DEF OptionsArrive
        <3> HIDE DEF u
        <3>3. /\ startTask' = startTask /\ oldTasks' \subseteq Task /\ u \in oldTasks'
              /\ \A v \in oldTasks' : v = u \/ ~Pending(v)
              /\ t \in oldTasks /\ destroying # "stopping"
            BY <2>1, <2>4, <3>1, <3>2, OneStart
        <3>4. NodeFacadeTypeOK'
            BY <1>3, <2>2, <2>4, <3>1, <3>3 DEF OptionsArrive, Settle, FacadeInv, NodeFacadeTypeOK
        <3>5. AfterDestroy'
            BY <1>3, <2>1, <2>2, <2>4, <3>1, <3>3 DEF OptionsArrive, FacadeInv, AfterDestroy, Pending, NodeFacadeTypeOK
        <3>6. WaitersHaveATask'
            BY <1>3, <2>4 DEF OptionsArrive, Settle, WaitersHaveATask
        <3>7. QED
            BY <2>2, <2>4, <3>4, <3>5, <3>6 DEF FacadeInv, BeforeDestroy
    <2>5. QED
        BY <2>3, <2>4
<1>4. ASSUME NEW t \in {startTask} \cup oldTasks, OptionsFail(t) PROVE FacadeInv'
    <2>1. t \in Task /\ Pending(t) /\ t.at = "options"
        BY <1>4 DEF OptionsFail, Running, FacadeInv, NodeFacadeTypeOK, Pending
    <2>2. UNCHANGED <<triggered, destroying, abortSignaled, persistenceClosed, destroyOutcome, startOverlapped>>
        BY <1>4 DEF OptionsFail
    <2>3. CASE ~triggered
        <3> DEFINE u == TaskOf("rejected", "none")
        <3>1. u \in Task /\ u.status = "rejected" /\ u.at = "none"
            BY DEF Task, TaskOf
        <3>2. TaskGoesOn(t, u)
            BY <1>4, <2>3 DEF OptionsFail
        <3> HIDE DEF u
        <3>3. t = startTask /\ startTask' = u /\ oldTasks' = {}
            BY <2>1, <2>3, <3>1, <3>2, OneStart
        <3>4. NodeFacadeTypeOK'
            BY <1>4, <2>2, <2>3, <3>1, <3>3 DEF OptionsFail, Settle, FacadeInv, NodeFacadeTypeOK
        <3>5. BeforeDestroy'
            BY <1>4, <2>1, <2>2, <2>3, <3>1, <3>3 DEF OptionsFail, FacadeInv, BeforeDestroy, Pending, NodeFacadeTypeOK
        <3>6. WaitersHaveATask'
            BY <1>4, <2>3 DEF OptionsFail, Settle, WaitersHaveATask
        <3>7. QED
            BY <2>2, <2>3, <3>4, <3>5, <3>6 DEF FacadeInv, AfterDestroy
    <2>4. CASE triggered
        <3> DEFINE u == TaskOf("rejected", "none")
        <3>1. u \in Task /\ u.status = "rejected" /\ u.at = "none"
            BY DEF Task, TaskOf
        <3>2. TaskGoesOn(t, u)
            BY <1>4, <2>4 DEF OptionsFail
        <3> HIDE DEF u
        <3>3. /\ startTask' = startTask /\ oldTasks' \subseteq Task /\ u \in oldTasks'
              /\ \A v \in oldTasks' : v = u \/ ~Pending(v)
              /\ t \in oldTasks /\ destroying # "stopping"
            BY <2>1, <2>4, <3>1, <3>2, OneStart
        <3>4. NodeFacadeTypeOK'
            BY <1>4, <2>2, <2>4, <3>1, <3>3 DEF OptionsFail, Settle, FacadeInv, NodeFacadeTypeOK
        <3>5. AfterDestroy'
            BY <1>4, <2>1, <2>2, <2>4, <3>1, <3>3 DEF OptionsFail, FacadeInv, AfterDestroy, Pending, NodeFacadeTypeOK
        <3>6. WaitersHaveATask'
            BY <1>4, <2>4 DEF OptionsFail, Settle, WaitersHaveATask
        <3>7. QED
            BY <2>2, <2>4, <3>4, <3>5, <3>6 DEF FacadeInv, BeforeDestroy
    <2>5. QED
        BY <2>3, <2>4
<1>5. ASSUME NEW t \in {startTask} \cup oldTasks, NodeStarted(t) PROVE FacadeInv'
    <2>1. t \in Task /\ Pending(t) /\ t.at = "starting"
        BY <1>5 DEF NodeStarted, Running, FacadeInv, NodeFacadeTypeOK, Pending
    <2>2. UNCHANGED <<triggered, destroying, abortSignaled, persistenceClosed, destroyOutcome, startOverlapped>>
        BY <1>5 DEF NodeStarted
    <2>3. CASE ~triggered
        <3> DEFINE u == TaskOf("fulfilled", "none")
        <3>1. u \in Task /\ u.status = "fulfilled" /\ u.at = "none"
            BY DEF Task, TaskOf
        <3>2. TaskGoesOn(t, u)
            BY <1>5, <2>3 DEF NodeStarted
        <3> HIDE DEF u
        <3>3. t = startTask /\ startTask' = u /\ oldTasks' = {}
            BY <2>1, <2>3, <3>1, <3>2, OneStart
        <3>4. NodeFacadeTypeOK'
            BY <1>5, <2>2, <2>3, <3>1, <3>3 DEF NodeStarted, Settle, FacadeInv, NodeFacadeTypeOK
        <3>5. BeforeDestroy'
            BY <1>5, <2>1, <2>2, <2>3, <3>1, <3>3 DEF NodeStarted, FacadeInv, BeforeDestroy, Pending, NodeFacadeTypeOK
        <3>6. WaitersHaveATask'
            BY <1>5, <2>3 DEF NodeStarted, Settle, WaitersHaveATask
        <3>7. QED
            BY <2>2, <2>3, <3>4, <3>5, <3>6 DEF FacadeInv, AfterDestroy
    <2>4. CASE triggered
        <3> DEFINE u == TaskOf("pending", "stopping")
        <3>1. u \in Task /\ u.status = "pending" /\ u.at = "stopping"
            BY DEF Task, TaskOf
        <3>2. TaskGoesOn(t, u)
            BY <1>5, <2>4 DEF NodeStarted
        <3> HIDE DEF u
        <3>3. /\ startTask' = startTask /\ oldTasks' \subseteq Task /\ u \in oldTasks'
              /\ \A v \in oldTasks' : v = u \/ ~Pending(v)
              /\ t \in oldTasks /\ destroying # "stopping"
            BY <2>1, <2>4, <3>1, <3>2, OneStart
        <3>4. NodeFacadeTypeOK'
            BY <1>5, <2>2, <2>4, <3>1, <3>3 DEF NodeStarted, Settle, FacadeInv, NodeFacadeTypeOK
        <3>5. AfterDestroy'
            BY <1>5, <2>1, <2>2, <2>4, <3>1, <3>3 DEF NodeStarted, FacadeInv, AfterDestroy, Pending, NodeFacadeTypeOK
        <3>6. WaitersHaveATask'
            BY <1>5, <3>1, <3>3 DEF WaitersHaveATask, Pending
        <3>7. QED
            BY <2>2, <2>4, <3>4, <3>5, <3>6 DEF FacadeInv, BeforeDestroy
    <2>5. QED
        BY <2>3, <2>4
<1>6. ASSUME NEW t \in {startTask} \cup oldTasks, NodeStartFails(t) PROVE FacadeInv'
    <2>1. t \in Task /\ Pending(t) /\ t.at = "starting"
        BY <1>6 DEF NodeStartFails, Running, FacadeInv, NodeFacadeTypeOK, Pending
    <2>2. UNCHANGED <<triggered, destroying, abortSignaled, persistenceClosed, destroyOutcome, startOverlapped>>
        BY <1>6 DEF NodeStartFails
    <2>3. CASE ~triggered
        <3> DEFINE u == TaskOf("rejected", "none")
        <3>1. u \in Task /\ u.status = "rejected" /\ u.at = "none"
            BY DEF Task, TaskOf
        <3>2. TaskGoesOn(t, u)
            BY <1>6, <2>3 DEF NodeStartFails
        <3> HIDE DEF u
        <3>3. t = startTask /\ startTask' = u /\ oldTasks' = {}
            BY <2>1, <2>3, <3>1, <3>2, OneStart
        <3>4. NodeFacadeTypeOK'
            BY <1>6, <2>2, <2>3, <3>1, <3>3 DEF NodeStartFails, Settle, FacadeInv, NodeFacadeTypeOK
        <3>5. BeforeDestroy'
            BY <1>6, <2>1, <2>2, <2>3, <3>1, <3>3 DEF NodeStartFails, FacadeInv, BeforeDestroy, Pending,
                   NodeFacadeTypeOK
        <3>6. WaitersHaveATask'
            BY <1>6, <2>3 DEF NodeStartFails, Settle, WaitersHaveATask
        <3>7. QED
            BY <2>2, <2>3, <3>4, <3>5, <3>6 DEF FacadeInv, AfterDestroy
    <2>4. CASE triggered
        <3> DEFINE u == TaskOf("rejected", "none")
        <3>1. u \in Task /\ u.status = "rejected" /\ u.at = "none"
            BY DEF Task, TaskOf
        <3>2. TaskGoesOn(t, u)
            BY <1>6, <2>4 DEF NodeStartFails
        <3> HIDE DEF u
        <3>3. /\ startTask' = startTask /\ oldTasks' \subseteq Task /\ u \in oldTasks'
              /\ \A v \in oldTasks' : v = u \/ ~Pending(v)
              /\ t \in oldTasks /\ destroying # "stopping"
            BY <2>1, <2>4, <3>1, <3>2, OneStart
        <3>4. NodeFacadeTypeOK'
            BY <1>6, <2>2, <2>4, <3>1, <3>3 DEF NodeStartFails, Settle, FacadeInv, NodeFacadeTypeOK
        <3>5. AfterDestroy'
            BY <1>6, <2>1, <2>2, <2>4, <3>1, <3>3 DEF NodeStartFails, FacadeInv, AfterDestroy, Pending, NodeFacadeTypeOK
        <3>6. WaitersHaveATask'
            BY <1>6, <2>4 DEF NodeStartFails, Settle, WaitersHaveATask
        <3>7. QED
            BY <2>2, <2>4, <3>4, <3>5, <3>6 DEF FacadeInv, BeforeDestroy
    <2>5. QED
        BY <2>3, <2>4
<1>7. ASSUME NEW t \in {startTask} \cup oldTasks, LateNodeStopped(t) PROVE FacadeInv'
    <2>1. t \in Task /\ Pending(t) /\ t.at = "stopping"
        BY <1>7 DEF LateNodeStopped, Running, FacadeInv, NodeFacadeTypeOK, Pending
    <2>2. UNCHANGED <<triggered, destroying, abortSignaled, persistenceClosed, destroyOutcome, startOverlapped>>
        BY <1>7 DEF LateNodeStopped
    <2>3. triggered
        BY <2>1 DEF FacadeInv, BeforeDestroy
    <2>4. CASE triggered
        <3> DEFINE u == TaskOf("rejected", "none")
        <3>1. u \in Task /\ u.status = "rejected" /\ u.at = "none"
            BY DEF Task, TaskOf
        <3>2. TaskGoesOn(t, u)
            BY <1>7, <2>4 DEF LateNodeStopped
        <3> HIDE DEF u
        <3>3. /\ startTask' = startTask /\ oldTasks' \subseteq Task /\ u \in oldTasks'
              /\ \A v \in oldTasks' : v = u \/ ~Pending(v)
              /\ t \in oldTasks /\ destroying # "stopping"
            BY <2>1, <2>4, <3>1, <3>2, OneStart
        <3>4. NodeFacadeTypeOK'
            BY <1>7, <2>2, <2>4, <3>1, <3>3 DEF LateNodeStopped, Settle, FacadeInv, NodeFacadeTypeOK
        <3>5. AfterDestroy'
            BY <1>7, <2>1, <2>2, <2>4, <3>1, <3>3 DEF LateNodeStopped, FacadeInv, AfterDestroy, Pending,
                   NodeFacadeTypeOK
        <3>6. WaitersHaveATask'
            BY <1>7, <2>4 DEF LateNodeStopped, Settle, WaitersHaveATask
        <3>7. QED
            BY <2>2, <2>4, <3>4, <3>5, <3>6 DEF FacadeInv, BeforeDestroy
    <2>5. QED
        BY <2>3, <2>4
<1>8. CASE Trigger
    BY <1>8 DEF FacadeInv, NodeFacadeTypeOK, BeforeDestroy, AfterDestroy, WaitersHaveATask, Pending, Trigger,
           NoTask, Task, TaskOf
<1>9. CASE DestroySeesStart
    BY <1>9 DEF FacadeInv, NodeFacadeTypeOK, BeforeDestroy, AfterDestroy, WaitersHaveATask, Pending, DestroySeesStart
<1>10. CASE NodeStopped
    BY <1>10 DEF FacadeInv, NodeFacadeTypeOK, BeforeDestroy, AfterDestroy, WaitersHaveATask, Pending, NodeStopped,
           NoTask, Task, TaskOf
<1>11. CASE UNCHANGED facadeVars
    BY <1>11 DEF FacadeInv, NodeFacadeTypeOK, BeforeDestroy, AfterDestroy, WaitersHaveATask, Pending, facadeVars
<1>12. QED
    BY <1>1, <1>2, <1>3, <1>4, <1>5, <1>6, <1>7, <1>8, <1>9, <1>10, <1>11 DEF FacadeNext

LEMMA FacadeInitially == NodeFacadeInit => FacadeInv
<1> SUFFICES ASSUME NodeFacadeInit PROVE FacadeInv
    OBVIOUS
<1>1. NodeFacadeTypeOK
    BY DEF NodeFacadeInit, NodeFacadeTypeOK, NoTask, TaskOf, Task
<1>2. BeforeDestroy /\ AfterDestroy
    BY DEF NodeFacadeInit, BeforeDestroy, AfterDestroy, NoTask, TaskOf
<1>3. WaitersHaveATask
    BY DEF NodeFacadeInit, WaitersHaveATask
<1>4. QED
    BY <1>1, <1>2, <1>3 DEF FacadeInv, NodeFacadeInit

LEMMA FacadeInvSuffices == FacadeInv => NodeFacadeTypeOK /\ NothingOutlivesDestroy
<1> SUFFICES ASSUME FacadeInv PROVE NothingOutlivesDestroy
    BY DEF FacadeInv
<1> SUFFICES ASSUME destroyOutcome # "none", \A t \in {startTask} \cup oldTasks : t.status # "pending"
             PROVE  /\ node # "running"
                    /\ \A c \in Caller : calls[c] # "waiting"
                    /\ abortSignaled
                    /\ persistenceClosed \/ startOverlapped \/ node = "failed"
                    /\ started => node = "stopped"
    BY DEF NothingOutlivesDestroy
<1>1. triggered /\ destroying = "done"
    BY DEF FacadeInv
<1>2. \A c \in Caller : calls[c] # "waiting"
    BY DEF FacadeInv, WaitersHaveATask, Pending
<1>3. QED
    BY <1>1, <1>2 DEF FacadeInv, AfterDestroy, NodeFacadeTypeOK, Pending

\* The state of the facade keeps its types, for any number of calls.
THEOREM FacadeTypeCorrect == FacadeSpec => []NodeFacadeTypeOK
BY FacadeInitially, FacadeInductive, FacadeInvSuffices, PTL DEF FacadeSpec

\* A destroyed client leaves no node running and no call waiting, wherever in the start of the node the
\* destruction comes, for any number of calls: NothingOutlivesDestroy.
THEOREM NothingOutlives == FacadeSpec => []NothingOutlivesDestroy
BY FacadeInitially, FacadeInductive, FacadeInvSuffices, PTL DEF FacadeSpec

-----------------------------------------------------------------------------
(* Connectivity: which server socket the node has in each round of its     *)
(* start, and what it was told about it.                                   *)

WebsocketConnector ==
    [tls : BOOLEAN, listening : BOOLEAN, selectedPort : Ports \cup {NoPort},
     cert : {"none", "given", "self", "certified"}, host : {"address", "name"}]

ConnectRequest == [ongoing : BOOLEAN, pending : {"none", "waiting", "connected", "closed"}, arrived : BOOLEAN]

ConnectivityTypes ==
    /\ ConnectivityTypeOK /\ connectors \in [1 .. 2 -> WebsocketConnector]
    /\ config \in [range : BOOLEAN, certificate : BOOLEAN, tls : BOOLEAN, entryPoints : 0 .. MaxEntryPoints]
    /\ peer \in [browser : BOOLEAN, websocket : BOOLEAN, tls : BOOLEAN]
    /\ request \in ConnectRequest

\* Only a node that needs a certificate comes to a second round; the third has a connector of its own.
RoundsOfStart ==
    /\ current = 2 <=> round = "plain"
    /\ round # "first" => ~config.certificate /\ config.tls
    /\ phase = "new" => round = "first"
    /\ phase = "listen" => round # "certified"
    /\ phase = "certify" => round = "first" /\ ~config.certificate /\ config.tls
    /\ certifier = "given up" => round = "plain"

\* The connector in use, when it has yet to be started.
NotServing(c) ==
    /\ c.tls = (round # "plain" /\ config.tls) /\ ~c.listening
    /\ c.cert = "none" /\ c.host = "address"

\* The connector in use, once it has been started.
Serving(c) ==
    /\ c.tls = (round # "plain" /\ config.tls) /\ c.listening = config.range
    /\ ~c.listening => c.cert = "none"
    /\ round # "certified" => c.host = "address" /\ (c.listening => c.cert = CertificateShown)
    /\ round = "certified" /\ config.entryPoints > 0 => c.host = "name" /\ c.listening /\ c.cert = "certified"

\* What an entry point reports: nothing, or the socket that it reached.
Reported(d) ==
    \/ d = NoWebsocket
    \/ /\ d = [host |-> Connector.host, port |-> Connector.selectedPort, tls |-> Connector.tls]
       /\ ProbeSucceeds

Announces ==
    /\ phase = "listen" => NotServing(Connector)
    /\ phase \in {"check", "describe", "certify", "started"} => Serving(Connector)
    /\ config.entryPoints > 0 =>
        /\ phase \in {"describe", "certify"} => Reported(response)
        /\ phase = "certify" => HasWebsocket(response)
        /\ phase = "started" => /\ facadeDescriptor = nodeDescriptor /\ Reported(facadeDescriptor)
                                /\ HasWebsocket(facadeDescriptor) => Connector.cert # "self"

\* A peer is asked to connect only by a started node, to a socket it can open.
AsksToConnect ==
    request.ongoing => /\ phase = "started" /\ HasWebsocket(facadeDescriptor)
                       /\ CanOpen(peer.browser, facadeDescriptor.tls) /\ ~peer.websocket

\* The inductive invariant.
StartInv == ConnectivityTypes /\ RoundsOfStart /\ Announces /\ AsksToConnect
\* A port of those that are free is chosen.
LEMMA PortExists == Free # {} => Min(Free) \in Ports
<1> SUFFICES ASSUME Free # {} PROVE Min(Free) \in Ports
    OBVIOUS
<1>1. Free \in SUBSET Nat
    BY ConnectivityAssumption DEF Free
<1>2. \E x \in Free : \A y \in Free : x =< y
    <2>1. IsWellFoundedOn(OpToRel(<, Nat), Nat)
        BY NatLessThanWellFounded
    <2>2. PICK x \in Free : \A y \in Free : ~(<<y, x>> \in OpToRel(<, Nat))
        BY <1>1, <2>1, WFMin
    <2>3. \A y \in Free : ~(y < x)
        BY <1>1, <2>2 DEF OpToRel
    <2>4. QED
        BY <1>1, <2>3
<1>3. Min(Free) \in Free
    BY <1>2 DEF Min
<1>4. QED
    BY <1>3 DEF Free

\* A connector is closed, or gets its certificate, as a whole.
LEMMA ConnectorSteps ==
    ASSUME NEW c \in WebsocketConnector
    PROVE  /\ Closed(c) \in WebsocketConnector /\ WithCertificate(c) \in WebsocketConnector
           /\ \A tls \in BOOLEAN : NewConnector(tls) \in WebsocketConnector
BY DEF WebsocketConnector, Closed, WithCertificate, NewConnector, NoPort

\* Before the third round the first connector is in use.
LEMMA FirstConnector == StartInv /\ round # "plain" => current = 1
<1>1. StartInv => current \in 1 .. 2 /\ (current = 2 <=> round = "plain")
    BY DEF StartInv, ConnectivityTypes, ConnectivityTypeOK, RoundsOfStart
<1>2. QED
    BY <1>1

LEMMA SecondConnector == 2 \in 1 .. 2
OBVIOUS

\* The start begins over without TLS: only from the second round, or while the node waits for a certificate.
LEMMA RestartKeeps ==
    ASSUME StartInv, Restarted, ~config.certificate, config.tls, current = 1, phase # "started",
           UNCHANGED <<config, peer, taken, request, certifier>> \/
           (UNCHANGED <<config, peer, taken, request>> /\ certifier' = "given up"),
           tries' \in 0 .. MaxEntryPoints
    PROVE  StartInv'
<1> DEFINE fresh == NewConnector(FALSE)
<1>0. fresh \in WebsocketConnector
    BY DEF NewConnector, WebsocketConnector, NoPort
<1>1. connectors' = [k \in 1 .. 2 |-> IF k = 2 THEN fresh
                                       ELSE IF k = current THEN Closed(connectors[k]) ELSE connectors[k]]
    BY Zenon DEF Restarted
<1> HIDE DEF fresh
<1>2. current' = 2 /\ round' = "plain" /\ phase' = "listen" /\ UNCHANGED <<config, peer, taken, request>>
    BY DEF Restarted
<1>3. Connector' = fresh
    <2>1. connectors'[2] = fresh
        BY <1>1, SecondConnector, Zenon
    <2>2. QED
        BY <1>2, <2>1 DEF Connector
<1>4. ConnectivityTypes'
    <2>1. connectors' \in [1 .. 2 -> WebsocketConnector]
        BY <1>0, <1>1, ConnectorSteps DEF StartInv, ConnectivityTypes
    <2>2. ConnectivityTypeOK'
        <3>1. current' \in 1 .. 2 /\ taken' \subseteq Ports
            BY <1>2, SecondConnector, Zenon DEF StartInv, ConnectivityTypes, ConnectivityTypeOK
        <3>2. request'.ongoing \in BOOLEAN /\ request'.pending \in {"none", "waiting", "connected", "closed"}
            BY <1>2 DEF StartInv, ConnectivityTypes, ConnectivityTypeOK
        <3>3. QED
            BY <1>2, <2>1, <3>1, <3>2 DEF ConnectivityTypeOK, WebsocketConnector
    <2>3. QED
        BY <1>2, <2>1, <2>2 DEF StartInv, ConnectivityTypes
<1>5. RoundsOfStart'
    BY <1>2 DEF RoundsOfStart
<1>6. Announces' /\ AsksToConnect'
    BY <1>2, <1>3 DEF fresh, Announces, NotServing, NewConnector, AsksToConnect, StartInv
<1>7. QED
    BY <1>4, <1>5, <1>6 DEF StartInv

\* What a node announces depends on no more than this.
LEMMA SameAnnounces ==
    ASSUME Announces,
           UNCHANGED <<config, phase, round, response, nodeDescriptor, facadeDescriptor, Connector, CertificateShown>>
    PROVE  Announces'
<1>1. NotServing(Connector)' = NotServing(Connector) /\ Serving(Connector)' = Serving(Connector)
    BY DEF NotServing, Serving
<1>2. \A d : Reported(d)' = Reported(d)
    BY DEF Reported, ProbeSucceeds, ServesTls
<1>3. QED
    BY <1>1, <1>2 DEF Announces, HasWebsocket

\* Every step keeps the invariant.
LEMMA StartInductive == StartInv /\ [ConnectivityNext]_connectivityVars => StartInv'
<1> SUFFICES ASSUME StartInv, [ConnectivityNext]_connectivityVars PROVE StartInv'
    OBVIOUS
<1> USE ConnectivityAssumption
<1>1. CASE StartNode
    <2>1. ConnectivityTypes'
        <3>1. connectors' = [connectors EXCEPT ![1] = NewConnector(config.tls)]
            BY <1>1 DEF StartNode
        <3>2. config.tls \in BOOLEAN /\ connectors[1] \in WebsocketConnector
            BY DEF StartInv, ConnectivityTypes
        <3>3. connectors' \in [1 .. 2 -> WebsocketConnector]
            BY <3>1, <3>2, ConnectorSteps DEF StartInv, ConnectivityTypes
        <3>4. QED
            BY <1>1, <3>3 DEF StartNode, StartInv, ConnectivityTypes, ConnectivityTypeOK, WebsocketConnector,
                              startVars, linkVars
    <2>2. RoundsOfStart'
        BY <1>1 DEF StartNode, StartInv, RoundsOfStart, startVars
    <2>3. /\ current' = 1 /\ round' = "first" /\ phase' = "listen" /\ UNCHANGED <<config, request>> /\ ~request.ongoing
          /\ connectors' = [connectors EXCEPT ![1] = NewConnector(config.tls)]
        BY <1>1, FirstConnector DEF StartNode, StartInv, RoundsOfStart, AsksToConnect, startVars, linkVars
    <2>4. Connector' = NewConnector(config.tls)
        BY <2>3 DEF Connector, NewConnector, StartInv, ConnectivityTypes
    <2>5. NotServing(Connector)'
        <3>1. config.tls \in BOOLEAN
            BY DEF StartInv, ConnectivityTypes
        <3>2. Connector'.tls = config.tls /\ Connector'.listening = FALSE
            BY <2>4 DEF NewConnector
        <3>3. QED
            BY <2>3, <2>4, <3>1, <3>2 DEF NotServing, NewConnector
    <2>6. Announces' /\ AsksToConnect'
        BY <2>3, <2>5 DEF Announces, AsksToConnect
    <2>7. QED
        BY <2>1, <2>2, <2>6 DEF StartInv
<1>2. CASE Listen
    <2>1. ConnectivityTypes'
        <3>1. connectors' \in [1 .. 2 -> WebsocketConnector]
            BY <1>2, PortExists DEF Listen, Listening, CertificateShown, StartInv, ConnectivityTypes,
                                    ConnectivityTypeOK,
                                    WebsocketConnector, Connector
        <3>2. QED
            BY <1>2, <3>1 DEF Listen, StartInv, ConnectivityTypes, ConnectivityTypeOK, WebsocketConnector,
                              startVars, linkVars
    <2>2. RoundsOfStart'
        BY <1>2 DEF Listen, StartInv, RoundsOfStart, startVars
    <2>3. Announces'
        <3>1. NotServing(Connector) /\ Connector \in WebsocketConnector /\ round # "certified"
            BY <1>2 DEF Listen, StartInv, Announces, RoundsOfStart, ConnectivityTypes, ConnectivityTypeOK, Connector
        <3>2. UNCHANGED <<config, current, round>>
            BY <1>2 DEF Listen, startVars
        <3>3. CASE config.range /\ Free = {}
            BY <1>2, <3>3 DEF Listen, Announces
        <3>4. CASE config.range /\ Free # {}
            <4>1. Connector' = Listening(Connector)
                BY <1>2, <3>2, <3>4 DEF Listen, Connector, StartInv, ConnectivityTypes, ConnectivityTypeOK
            <4>2. CertificateShown' = CertificateShown
                BY <3>2, <4>1 DEF CertificateShown, Listening
            <4>3. QED
                BY <1>2, <3>1, <3>2, <3>4, <4>1, <4>2 DEF Listen, Announces, Serving, NotServing, Listening
        <3>5. CASE ~config.range
            <4>1. Connector' = Connector
                BY <1>2, <3>2, <3>5 DEF Listen, Connector
            <4>2. config.range = FALSE /\ Connector.listening = FALSE
                <5>1. config.range \in BOOLEAN /\ Connector.listening \in BOOLEAN
                    BY <3>1 DEF StartInv, ConnectivityTypes, WebsocketConnector
                <5>2. QED
                    BY <3>1, <3>5, <5>1 DEF NotServing
            <4>3. QED
                BY <1>2, <3>1, <3>2, <4>1, <4>2 DEF Listen, Announces, Serving, NotServing
        <3>6. QED
            BY <3>3, <3>4, <3>5
    <2>4. AsksToConnect'
        BY <1>2 DEF Listen, StartInv, AsksToConnect, linkVars
    <2>5. QED
        BY <2>1, <2>2, <2>3, <2>4 DEF StartInv
<1>3. CASE CheckWithoutEntryPoints
    <2>1. UNCHANGED <<Connector, CertificateShown, round, config>>
        BY <1>3 DEF CheckWithoutEntryPoints, Connector, CertificateShown, startVars
    <2>2. Announces'
        BY <1>3, <2>1 DEF CheckWithoutEntryPoints, StartInv, Announces, Serving
    <2>3. ConnectivityTypes' /\ RoundsOfStart' /\ AsksToConnect'
        BY <1>3, <2>1 DEF CheckWithoutEntryPoints, StartInv, ConnectivityTypes, ConnectivityTypeOK, RoundsOfStart,
                          AsksToConnect, startVars, linkVars
    <2>4. QED
        BY <2>2, <2>3 DEF StartInv
<1>4. CASE EntryPointAnswers
    <2>1. Reported(response')
        BY <1>4 DEF EntryPointAnswers, Responses, Reported
    <2>2. UNCHANGED <<Connector, CertificateShown, round, config>>
        BY <1>4 DEF EntryPointAnswers, Connector, CertificateShown, startVars
    <2>3. Announces'
        BY <1>4, <2>1, <2>2 DEF EntryPointAnswers, StartInv, Announces, Serving, Reported, ProbeSucceeds, ServesTls
    <2>4. ConnectivityTypes' /\ RoundsOfStart' /\ AsksToConnect'
        BY <1>4, <2>2 DEF EntryPointAnswers, StartInv, ConnectivityTypes, ConnectivityTypeOK, RoundsOfStart,
                          AsksToConnect, startVars, linkVars
    <2>5. QED
        BY <2>3, <2>4 DEF StartInv
<1>5. CASE EntryPointFails
    <2>1. tries' \in 0 .. MaxEntryPoints
        BY <1>5 DEF EntryPointFails, StartInv, ConnectivityTypes, ConnectivityTypeOK
    <2>2. CASE Restarted /\ round = "certified"
        <3>1. ~config.certificate /\ config.tls /\ current = 1
            BY <2>2, FirstConnector DEF StartInv, RoundsOfStart
        <3>2. QED
            BY <1>5, <2>1, <2>2, <3>1, RestartKeeps DEF EntryPointFails, startVars, linkVars
    <2>3. CASE UNCHANGED <<connectors, current, round>> /\ phase' \in {phase, "failed"}
        <3>1. UNCHANGED <<Connector, CertificateShown, config>>
            BY <1>5, <2>3 DEF EntryPointFails, Connector, CertificateShown, startVars
        <3>2. Announces'
            BY <1>5, <2>3, <3>1 DEF EntryPointFails, StartInv, Announces, Serving
        <3>3. ConnectivityTypes' /\ RoundsOfStart' /\ AsksToConnect'
            BY <1>5, <2>1, <2>3, <3>1 DEF EntryPointFails, StartInv, ConnectivityTypes, ConnectivityTypeOK,
                                          RoundsOfStart, AsksToConnect, startVars, linkVars
        <3>4. QED
            BY <3>2, <3>3 DEF StartInv
    <2>4. QED
        BY <1>5, <2>2, <2>3 DEF EntryPointFails
<1>6. CASE Describe
    <2>1. UNCHANGED <<config, peer, taken, request, certifier, tries, response>>
        BY <1>6 DEF Describe, startVars
    <2>2. CASE NotReachable /\ Restarted
        <3>1. ~config.certificate /\ config.tls /\ current = 1 /\ tries' \in 0 .. MaxEntryPoints
            BY <2>1, <2>2, FirstConnector DEF StartInv, RoundsOfStart, ConnectivityTypes, ConnectivityTypeOK,
                                              NotReachable
        <3>2. QED
            BY <1>6, <2>1, <2>2, <3>1, RestartKeeps DEF Describe
    <2>3. CASE UNCHANGED <<connectors, current, round>> /\ ~NotReachable
                 /\ phase' = IF ToBeCertified THEN "certify" ELSE "started"
        <3>1. UNCHANGED <<Connector, CertificateShown>>
            BY <2>1, <2>3 DEF Connector, CertificateShown
        <3>2. facadeDescriptor' = response /\ nodeDescriptor' = response
            BY <1>6, <2>3 DEF Describe, SetLocalPeerDescriptor, CreateLocalPeerDescriptor
        <3>3. Serving(Connector)
            BY <1>6 DEF Describe, StartInv, Announces
        <3>4. ASSUME config.entryPoints > 0, ~ToBeCertified, HasWebsocket(response) PROVE Connector.cert # "self"
            <4>1. Reported(response) /\ ProbeSucceeds
                BY <1>6, <3>4 DEF Describe, StartInv, Announces, Reported, HasWebsocket
            <4>2. QED
                BY <3>3, <3>4, <4>1 DEF Serving, ProbeSucceeds, ToBeCertified
        <3>5. Announces'
            BY <1>6, <2>1, <2>3, <3>1, <3>2, <3>3, <3>4 DEF Describe, StartInv, Announces, Serving, Reported,
                                                            ProbeSucceeds, ServesTls, ToBeCertified, HasWebsocket
        <3>6. ConnectivityTypes'
            BY <1>6, <2>1, <2>3 DEF StartInv, ConnectivityTypes, ConnectivityTypeOK
        <3>7. RoundsOfStart' /\ AsksToConnect'
            BY <1>6, <2>1, <2>3, <3>1 DEF Describe, StartInv, RoundsOfStart, AsksToConnect, ToBeCertified
        <3>8. QED
            BY <3>5, <3>6, <3>7 DEF StartInv
    <2>4. QED
        BY <1>6, <2>2, <2>3 DEF Describe, ToBeCertified, NotReachable
<1>7. CASE AutoCertify
    <2>1. current = 1 /\ round = "first" /\ ~config.certificate /\ config.tls /\ Serving(connectors[1])
        BY <1>7, FirstConnector DEF AutoCertify, StartInv, RoundsOfStart, Announces, Connector
    <2>2. UNCHANGED <<config, peer, taken, request, current>>
          /\ round' = "certified" /\ phase' = "check" /\ certifier' = "running"
        BY <1>7 DEF AutoCertify, startVars, linkVars
    <2>3. connectors' = [connectors EXCEPT ![1] = WithCertificate(connectors[1])]
        BY <1>7 DEF AutoCertify
    <2>4. connectors'[1] = WithCertificate(connectors[1]) /\ connectors[1].cert \in {"none", "given", "self", "certified"}
        BY <2>3 DEF StartInv, ConnectivityTypes, ConnectivityTypeOK
    <2>5. ASSUME config.entryPoints > 0 PROVE connectors[1].listening /\ connectors[1].cert = "self"
        BY <1>7, <2>1, <2>5 DEF AutoCertify, StartInv, Announces, Reported, HasWebsocket, ProbeSucceeds, Connector,
                                Serving, CertificateShown
    <2>6. Announces'
        BY <2>1, <2>2, <2>4, <2>5 DEF Announces, Serving, Connector, WithCertificate, StartInv, ConnectivityTypes,
                                      ConnectivityTypeOK
    <2>7. tries' \in 0 .. MaxEntryPoints
        BY <1>7 DEF AutoCertify, StartInv, ConnectivityTypes
    <2>8. ConnectivityTypes'
        <3>1. connectors' \in [1 .. 2 -> WebsocketConnector]
            BY <2>3, ConnectorSteps DEF StartInv, ConnectivityTypes
        <3>2. QED
            BY <2>2, <2>7, <3>1 DEF StartInv, ConnectivityTypes, ConnectivityTypeOK, WebsocketConnector
    <2>9. RoundsOfStart' /\ AsksToConnect'
        BY <1>7, <2>1, <2>2 DEF AutoCertify, StartInv, RoundsOfStart, AsksToConnect
    <2>10. QED
        BY <2>6, <2>8, <2>9 DEF StartInv
<1>8. CASE AutoCertifyFails
    <2>1. ~config.certificate /\ config.tls /\ current = 1 /\ tries' \in 0 .. MaxEntryPoints
        BY <1>8, FirstConnector DEF AutoCertifyFails, StartInv, RoundsOfStart, ConnectivityTypes, ConnectivityTypeOK
    <2>2. QED
        BY <1>8, <2>1, RestartKeeps DEF AutoCertifyFails, startVars, linkVars
<1>9. CASE LateCertificate
    <2>1. current = 2 /\ round = "plain"
        BY <1>9 DEF LateCertificate, StartInv, RoundsOfStart
    <2>2. connectors' = [connectors EXCEPT ![1] = WithCertificate(connectors[1])]
        BY <1>9 DEF LateCertificate
    <2>3. UNCHANGED <<Connector, CertificateShown>>
        <3>1. connectors'[2] = connectors[2]
            BY <2>2 DEF StartInv, ConnectivityTypes
        <3>2. QED
            BY <1>9, <2>1, <3>1 DEF LateCertificate, Connector, CertificateShown, startVars
    <2>4. ConnectivityTypes'
        <3>1. connectors' \in [1 .. 2 -> WebsocketConnector]
            BY <2>2, ConnectorSteps DEF StartInv, ConnectivityTypes
        <3>2. QED
            <4>1. UNCHANGED <<config, peer, phase, round, tries, current, taken, request>>
                BY <1>9 DEF LateCertificate, startVars, linkVars
            <4>2. QED
                BY <3>1, <4>1 DEF StartInv, ConnectivityTypes, ConnectivityTypeOK, WebsocketConnector
    <2>5. Announces'
        BY <2>3, <1>9, SameAnnounces DEF LateCertificate, StartInv, startVars, linkVars
    <2>6. RoundsOfStart' /\ AsksToConnect'
        BY <1>9, <2>1, <2>3 DEF LateCertificate, StartInv, RoundsOfStart, AsksToConnect, HasWebsocket, startVars,
                                linkVars
    <2>7. QED
        BY <2>4, <2>5, <2>6 DEF StartInv
<1>10. CASE StopDhtNode
    <2>1. ConnectivityTypes'
        <3>1. connectors' = [connectors EXCEPT ![current] = Closed(connectors[current])]
            BY <1>10 DEF StopDhtNode
        <3>2. connectors' \in [1 .. 2 -> WebsocketConnector]
            BY <3>1, ConnectorSteps DEF StartInv, ConnectivityTypes, ConnectivityTypeOK
        <3>3. QED
            BY <1>10, <3>2 DEF StopDhtNode, StartInv, ConnectivityTypes, ConnectivityTypeOK, WebsocketConnector,
                               ConnectRequest, StartSettled, startVars
    <2>2. RoundsOfStart' /\ Announces' /\ AsksToConnect'
        BY <1>10 DEF StopDhtNode, StartInv, RoundsOfStart, Announces, AsksToConnect, StartSettled, startVars
    <2>3. QED
        BY <2>1, <2>2 DEF StartInv
<1>11. ASSUME \/ \E port \in Ports : PortTaken(port)
              \/ StopTooEarly \/ UNCHANGED connectivityVars
              \/ RequestConnectionFromPeer \/ PeerIsAsked \/ PeerConnects \/ ConnectRequestTimesOut
       PROVE  StartInv'
    <2>1. UNCHANGED <<config, peer, phase, round, tries, response, connectors, current,
                     nodeDescriptor, facadeDescriptor, certifier>>
        BY <1>11 DEF PortTaken, StopTooEarly, connectivityVars, RequestConnectionFromPeer, PeerIsAsked, PeerConnects,
                     ConnectRequestTimesOut, startVars, linkVars
    <2>2. UNCHANGED <<Connector, CertificateShown>>
        BY <2>1 DEF Connector, CertificateShown
    <2>3. RoundsOfStart' /\ Announces'
        BY <2>1, <2>2, SameAnnounces DEF StartInv, RoundsOfStart
    <2>4. taken' \subseteq Ports
        BY <1>11 DEF PortTaken, StopTooEarly, connectivityVars, RequestConnectionFromPeer, PeerIsAsked, PeerConnects,
                     ConnectRequestTimesOut, StartInv, ConnectivityTypes, ConnectivityTypeOK
    <2>5. /\ request' \in ConnectRequest
          /\ request'.ongoing => request.ongoing \/ RequestConnectionFromPeer
        <3>1. CASE PeerIsAsked
            <4>1. request' = [request EXCEPT !.arrived = TRUE] /\ request \in ConnectRequest /\ request.ongoing
                BY <3>1 DEF PeerIsAsked, StartInv, ConnectivityTypes
            <4>2. QED
                BY <4>1 DEF ConnectRequest
        <3>2. CASE RequestConnectionFromPeer \/ PeerConnects \/ ConnectRequestTimesOut
            <4>1. CASE RequestConnectionFromPeer
                BY <4>1 DEF RequestConnectionFromPeer, ConnectRequest
            <4>2. CASE PeerConnects \/ ConnectRequestTimesOut
                <5>1. PICK how \in {"connected", "closed"} : request' = StartSettled(how)
                    BY <4>2 DEF PeerConnects, ConnectRequestTimesOut
                <5>2. QED
                    BY <5>1 DEF StartSettled, ConnectRequest
            <4>3. QED
                BY <3>2, <4>1, <4>2
        <3>3. CASE UNCHANGED request
            BY <3>3 DEF StartInv, ConnectivityTypes
        <3>4. QED
            BY <1>11, <3>1, <3>2, <3>3 DEF PortTaken, StopTooEarly, connectivityVars, linkVars
    <2>6. ConnectivityTypes'
        BY <2>1, <2>4, <2>5 DEF StartInv, ConnectivityTypes, ConnectivityTypeOK, ConnectRequest
    <2>7. RequestConnectionFromPeer => phase = "started" /\ HasWebsocket(facadeDescriptor)
                                       /\ CanOpen(peer.browser, facadeDescriptor.tls) /\ ~peer.websocket
        BY DEF RequestConnectionFromPeer, ConnectionTo, ExpectedConnectionType, CanOpen, StartInv, ConnectivityTypes
    <2>8. AsksToConnect'
        BY <2>1, <2>5, <2>7 DEF StartInv, AsksToConnect, HasWebsocket
    <2>9. QED
        BY <2>3, <2>6, <2>8 DEF StartInv
<1>12. QED
    BY <1>1, <1>2, <1>3, <1>4, <1>5, <1>6, <1>7, <1>8, <1>9, <1>10, <1>11 DEF ConnectivityNext

LEMMA StartInitially == ConnectivityInit => StartInv
<1> SUFFICES ASSUME ConnectivityInit PROVE StartInv
    OBVIOUS
<1>1. ConnectivityTypes
    BY ConnectivityAssumption DEF ConnectivityInit, ConnectivityTypes, ConnectivityTypeOK, WebsocketConnector,
                                  ConnectRequest,
                                  NewConnector, NoConnectRequest, NoPort
<1>2. RoundsOfStart /\ Announces /\ AsksToConnect
    BY DEF ConnectivityInit, RoundsOfStart, Announces, AsksToConnect, NoConnectRequest
<1>3. QED
    BY <1>1, <1>2 DEF StartInv

LEMMA StartInvSuffices == StartInv => ConnectivityTypeOK /\ AnnouncesWhatItServes
<1> SUFFICES ASSUME StartInv PROVE AnnouncesWhatItServes
    BY DEF StartInv, ConnectivityTypes
<1> SUFFICES ASSUME phase = "started", config.entryPoints > 0
             PROVE  /\ facadeDescriptor = nodeDescriptor
                    /\ HasWebsocket(facadeDescriptor) => IsServed(facadeDescriptor)
                    /\ request.ongoing =>
                         /\ HasWebsocket(facadeDescriptor) /\ CanOpen(peer.browser, ServesTls(Connector))
                         /\ ExpectedConnectionType(peer.browser, peer.websocket, peer.tls, FALSE, TRUE, facadeDescriptor.tls) = "client"
    BY DEF AnnouncesWhatItServes
<1>1. Serving(Connector) /\ facadeDescriptor = nodeDescriptor /\ Reported(facadeDescriptor)
    BY DEF StartInv, Announces
<1>2. ASSUME HasWebsocket(facadeDescriptor) PROVE IsServed(facadeDescriptor) /\ ServesTls(Connector) = facadeDescriptor.tls
    <2>1. /\ facadeDescriptor = [host |-> Connector.host, port |-> Connector.selectedPort, tls |-> Connector.tls]
          /\ ProbeSucceeds /\ Connector.cert # "self"
        BY <1>1, <1>2 DEF StartInv, Announces, Reported, HasWebsocket
    <2>2. Connector.listening /\ config.range
        BY <1>1, <2>1 DEF ProbeSucceeds, Serving
    <2>3. ServesTls(Connector) = facadeDescriptor.tls
        <3>1. ServesTls(Connector) = Connector.tls
            BY <2>1, <2>2 DEF ProbeSucceeds, ServesTls, StartInv, ConnectivityTypes, Connector, WebsocketConnector,
                              ConnectivityTypeOK
        <3>2. QED
            BY <2>1, <3>1
    <2>4. Connector.cert = "certified" <=> facadeDescriptor.host = "name"
        BY <1>1, <2>1, <2>2 DEF Serving, CertificateShown
    <2>5. QED
        BY <2>1, <2>2, <2>3, <2>4 DEF IsServed
<1>3. ASSUME request.ongoing
      PROVE  /\ HasWebsocket(facadeDescriptor) /\ CanOpen(peer.browser, ServesTls(Connector))
             /\ ExpectedConnectionType(peer.browser, peer.websocket, peer.tls, FALSE, TRUE, facadeDescriptor.tls) = "client"
    BY <1>2, <1>3 DEF StartInv, AsksToConnect, ExpectedConnectionType
<1>4. QED
    BY <1>1, <1>2, <1>3

\* The types of a node's start.
THEOREM StartTypeCorrect == ConnectivitySpec => []ConnectivityTypeOK
BY StartInitially, StartInductive, StartInvSuffices, PTL DEF ConnectivitySpec

\* A started node announces the server socket it serves, with any ports, entry points and number of
\* failures, whichever way its start went: AnnouncesWhatItServes.
THEOREM AnnouncesTruly == ConnectivitySpec => []AnnouncesWhatItServes
BY StartInitially, StartInductive, StartInvSuffices, PTL DEF ConnectivitySpec

-----------------------------------------------------------------------------
(* StreamParts: where the one delivery in the map is, as long as no call   *)
(* overlapped a stop() that it knows nothing of.                           *)

\* A delivery that is not created yet.
Untouched(d) ==
    /\ d \notin proxied \cup aborted \cup localStored \cup storing \cup keeping \cup reconnecting
    /\ layers[d] = "created" /\ starting[d].at = "none"

\* A delivery that left the map: all that may go on is a start that will find its manager destroyed.
Gone(d) ==
    /\ d \in aborted /\ d \notin storing \cup keeping
    /\ layers[d] # "running" /\ starting[d].at \in {"none", "joining"}

\* The start of a delivery starts that delivery.
StartsItself(d) ==
    /\ starting[d].at \in {"private mode", "joining", "storing"} => starting[d].of = d
    /\ starting[d].at # "none" => d \notin proxied
    /\ starting[d].at = "storing" => d \in storing

\* The delivery in the map runs unless its start has yet to begin or its stop() is over.
InTheMap(d) ==
    /\ starting[d].at \in {"scheduled", "private mode"} => layers[d] = "created"
    /\ starting[d].at \in {"none", "joining", "storing"} /\ (\A s \in stopping : s.at = "deleting")
          => layers[d] = "running"

\* The stop() in progress is that of the delivery in the map, by the last call.
StopInOrder(s) ==
    /\ s.of = entry /\ entry \in aborted /\ entry \notin storing \cup keeping /\ wanted = "none"
    /\ s.at = "stopped" => layers[entry] # "running" /\ ~record /\ starting[entry].at \in {"none", "joining"}

\* The same, of every delivery and stop().
NotCreatedYet == \A d \in Delivery : d > created => Untouched(d)
LeftTheMap == \A d \in Delivery : d <= created /\ d # entry => Gone(d)
StartsInOrder == \A d \in Delivery : StartsItself(d)
EntryInOrder == entry # 0 => InTheMap(entry)
StopsInOrder == (\A s \in stopping : StopInOrder(s)) /\ (\A s, t \in stopping : s = t)

\* Between calls the map has what the last one asked for.
MapIsWanted ==
    stopping = {} => /\ entry = 0 <=> wanted = "none"
                     /\ entry # 0 => (entry \in proxied <=> wanted = "proxied")
                     /\ entry \notin aborted

\* A record is stored and kept only for a delivery that said so, which is no proxy client.
RecordsInOrder ==
    /\ storing \subseteq localStored /\ keeping \subseteq localStored
    /\ proxied \cap (localStored \cup storing \cup keeping \cup reconnecting) = {}
    /\ record => entry \in localStored

\* All this together.
InOrder ==
    /\ NotCreatedYet /\ LeftTheMap /\ StartsInOrder /\ EntryInOrder
    /\ StopsInOrder /\ MapIsWanted /\ RecordsInOrder

\* Where a start is, and the delivery it starts.
StartOf == [at : StartStep, of : 0 .. MaxDeliveries]

\* A start past its first await has a delivery.
StartsADelivery ==
    \A d \in Delivery : starting[d].at \in {"private mode", "joining", "storing"} => starting[d].of \in Delivery

\* The inductive invariant.
PartsInv == StreamPartsTypeOK /\ StartsADelivery /\ (~overlapped => InOrder)

\* The fields of a start.
LEMMA StartAtFields ==
    /\ \A step, d : StartAt(step, d).at = step /\ StartAt(step, d).of = d
    /\ \A step \in StartStep, d \in 0 .. MaxDeliveries : StartAt(step, d) \in StartOf
BY DEF StartAt, StartOf

\* Where a start is, and of which delivery.
LEMMA StartsTyped ==
    StreamPartsTypeOK /\ StartsADelivery /\ [StreamPartsNext]_partVars =>
        starting' \in [Delivery -> StartOf] /\ StartsADelivery'
<1> SUFFICES ASSUME StreamPartsTypeOK, StartsADelivery, [StreamPartsNext]_partVars
             PROVE  starting' \in [Delivery -> StartOf] /\ StartsADelivery'
    OBVIOUS
<1>1. /\ starting \in [Delivery -> StartOf] /\ (entry # 0 => entry \in Delivery)
      /\ Delivery \subseteq 0 .. MaxDeliveries /\ 0 \in 0 .. MaxDeliveries
    BY StreamPartsAssumption DEF StreamPartsTypeOK, StartOf, Delivery
<1>2. StartStep = {"none", "scheduled", "private mode", "joining", "storing"}
    BY DEF StartStep
<1>3. ASSUME UNCHANGED starting PROVE starting' \in [Delivery -> StartOf] /\ StartsADelivery'
    BY <1>1, <1>3 DEF StartsADelivery
\* One delivery's start moves on.
<1>4. ASSUME NEW d \in Delivery, NEW step \in StartStep, NEW e \in 0 .. MaxDeliveries,
             step \in {"none", "scheduled"} \/ e \in Delivery,
             \A x \in Delivery : x # d => starting'[x] = starting[x], starting'[d] = StartAt(step, e),
             starting' = [x \in Delivery |-> starting'[x]]
      PROVE starting' \in [Delivery -> StartOf] /\ StartsADelivery'
    <2>1. starting'[d] \in StartOf /\ starting'[d].at = step /\ starting'[d].of = e
        BY <1>4, StartAtFields
    <2>2. \A x \in Delivery : starting'[x] \in StartOf
        BY <1>1, <1>4, <2>1
    <2>3. starting' \in [Delivery -> StartOf]
        BY <1>4, <2>2
    <2>4. StartsADelivery'
        BY <1>4, <2>1 DEF StartsADelivery
    <2>5. QED
        BY <2>3, <2>4
<1>5. CASE Join
    <2>1. CASE entry # 0
        BY <1>3, <1>5, <2>1 DEF Join, JoinStreamPart
    <2>2. CASE entry = 0
        <3>1. PICK n \in Delivery : starting' = [starting EXCEPT ![n] = StartAt("scheduled", 0)]
            BY <1>5, <2>2, StreamPartsAssumption DEF Join, JoinStreamPart, StreamPartsTypeOK, Delivery
        <3>2. QED
            BY <1>1, <1>2, <1>4, <3>1
    <2>3. QED
        BY <2>1, <2>2
<1>6. ASSUME NEW d \in Delivery, NEW lonely \in BOOLEAN, StoreLocalNode(d, lonely)
      PROVE starting' \in [Delivery -> StartOf] /\ StartsADelivery'
    <2>1. starting' = [x \in Delivery |->
                     IF starting[x].at = "storing" /\ x = d THEN StartAt("none", 0) ELSE starting[x]]
        BY <1>6 DEF StoreLocalNode
    <2>2. CASE starting[d].at = "storing"
        BY <1>1, <1>2, <1>4, <2>1, <2>2
    <2>3. CASE starting[d].at # "storing"
        <3>1. starting' = starting
            BY <1>1, <2>1, <2>3
        <3>2. QED
            BY <1>3, <3>1
    <2>4. QED
        BY <2>2, <2>3
<1>7. ASSUME NEW d \in Delivery, StartReadsMap(d) PROVE starting' \in [Delivery -> StartOf] /\ StartsADelivery'
    <2>1. CASE entry = 0 \/ entry \in proxied
        <3>1. starting' = [starting EXCEPT ![d] = StartAt("none", 0)]
            BY <1>7, <2>1 DEF StartReadsMap
        <3>2. QED
            BY <1>1, <1>2, <1>4, <3>1
    <2>2. CASE ~(entry = 0 \/ entry \in proxied)
        <3>1. PICK step \in {"private mode", "joining"} : starting' = [starting EXCEPT ![d] = StartAt(step, entry)]
            BY <1>7, <2>2 DEF StartReadsMap
        <3>2. QED
            BY <1>1, <1>2, <1>4, <2>2, <3>1
    <2>3. QED
        BY <2>1, <2>2
<1>8. ASSUME NEW d \in Delivery, PrivateModeDisabled(d) PROVE starting' \in [Delivery -> StartOf] /\ StartsADelivery'
    <2>1. starting' = [starting EXCEPT ![d] = StartAt("joining", starting[d].of)] /\ starting[d].of \in Delivery
        BY <1>8 DEF PrivateModeDisabled, StartsADelivery
    <2>2. QED
        BY <1>1, <1>2, <1>4, <2>1
<1>9. ASSUME NEW d \in Delivery, NEW few \in BOOLEAN, StartJoins(d, few)
      PROVE starting' \in [Delivery -> StartOf] /\ StartsADelivery'
    <2>1. starting[d].of \in Delivery
        BY <1>9 DEF StartJoins, StartsADelivery
    <2>2. \/ starting' = [starting EXCEPT ![d] = StartAt("none", 0)]
          \/ starting' = [starting EXCEPT ![d] = StartAt("storing", starting[d].of)]
        BY <1>9 DEF StartJoins
    <2>3. QED
        BY <1>1, <1>2, <1>4, <2>1, <2>2
<1>10. QED
    <2>1. CASE Join \/ \E d \in Delivery : \/ \E lonely \in BOOLEAN : StoreLocalNode(d, lonely)
                                           \/ StartReadsMap(d) \/ PrivateModeDisabled(d)
                                           \/ \E few \in BOOLEAN : StartJoins(d, few)
        BY <1>5, <1>6, <1>7, <1>8, <1>9, <2>1
    <2>2. UNCHANGED starting \/ (Join \/ \E d \in Delivery : \/ \E lonely \in BOOLEAN : StoreLocalNode(d, lonely)
                                                             \/ StartReadsMap(d) \/ PrivateModeDisabled(d)
                                                             \/ \E few \in BOOLEAN : StartJoins(d, few))
        BY DEF StreamPartsNext, partVars, delivery, Leave, SetProxies, Destroy, StopContinues, StopEnds,
               RecordExpires, KeepLocalNode, AvoidNetworkSplitEnds, ManualRejoin, Reconnect, EntryPointLeaves
    <2>3. QED
        BY <1>3, <2>1, <2>2
\* The types of a stream part.
LEMMA PartsTypes == StreamPartsTypeOK /\ StartsADelivery /\ [StreamPartsNext]_partVars => StreamPartsTypeOK'
<1> SUFFICES ASSUME StreamPartsTypeOK, StartsADelivery, [StreamPartsNext]_partVars PROVE StreamPartsTypeOK'
    OBVIOUS
<1> USE StreamPartsAssumption
<1>0. starting' \in [Delivery -> [at : StartStep, of : 0 .. MaxDeliveries]]
    BY StartsTyped DEF StartOf
<1>1. CASE Join
    <2>1. entry' \in 0 .. created' /\ created' \in 0 .. MaxDeliveries
        BY <1>1 DEF Join, PartCall, JoinStreamPart, StreamPartsTypeOK
    <2>2. layers' \in [Delivery -> Layer]
        BY <1>1 DEF Join, PartCall, JoinStreamPart, StreamPartsTypeOK, Layer, Delivery
    <2>4. stopping' \subseteq [call : 1 .. MaxPartCalls, of : Delivery, at : {"deleting", "stopped"}]
        BY <1>1 DEF Join, PartCall, JoinStreamPart, StreamPartsTypeOK, Delivery
    <2>5. proxied' \cup aborted' \cup localStored' \cup storing' \cup keeping'
            \cup reconnecting' \cup avoiding' \subseteq Delivery
        BY <1>1 DEF Join, PartCall, JoinStreamPart, StreamPartsTypeOK, Delivery
    <2>6. {record, privateMode, knownEntryPoints, destroyed, overlapped}' \subseteq BOOLEAN
        BY <1>1 DEF Join, PartCall, JoinStreamPart, StreamPartsTypeOK
    <2>7. wanted' \in {"joined", "proxied", "none"} /\ partCalls' \in 0 .. MaxPartCalls
        BY <1>1 DEF Join, PartCall, JoinStreamPart, StreamPartsTypeOK
    <2>8. QED
        BY <1>0, <2>1, <2>2, <2>4, <2>5, <2>6, <2>7 DEF StreamPartsTypeOK
<1>2. CASE Leave
    <2>1. entry' \in 0 .. created' /\ created' \in 0 .. MaxDeliveries
        BY <1>2 DEF Leave, PartCall, StopOverlap, StopBegins, StreamPartsTypeOK
    <2>2. layers' \in [Delivery -> Layer]
        BY <1>2 DEF Leave, PartCall, StopOverlap, StopBegins, StreamPartsTypeOK, Layer, Delivery
    <2>4. stopping' \subseteq [call : 1 .. MaxPartCalls, of : Delivery, at : {"deleting", "stopped"}]
        BY <1>2 DEF Leave, PartCall, StopOverlap, StopBegins, StreamPartsTypeOK, Delivery
    <2>5. proxied' \cup aborted' \cup localStored' \cup storing' \cup keeping'
            \cup reconnecting' \cup avoiding' \subseteq Delivery
        BY <1>2 DEF Leave, PartCall, StopOverlap, StopBegins, StreamPartsTypeOK, Delivery
    <2>6. {record, privateMode, knownEntryPoints, destroyed, overlapped}' \subseteq BOOLEAN
        BY <1>2 DEF Leave, PartCall, StopOverlap, StopBegins, StreamPartsTypeOK
    <2>7. wanted' \in {"joined", "proxied", "none"} /\ partCalls' \in 0 .. MaxPartCalls
        BY <1>2 DEF Leave, PartCall, StopOverlap, StopBegins, StreamPartsTypeOK
    <2>8. QED
        BY <1>0, <2>1, <2>2, <2>4, <2>5, <2>6, <2>7 DEF StreamPartsTypeOK
<1>3. CASE SetProxies
    <2>1. entry' \in 0 .. created' /\ created' \in 0 .. MaxDeliveries
        BY <1>3 DEF SetProxies, PartCall, StreamPartsTypeOK
    <2>2. layers' \in [Delivery -> Layer]
        BY <1>3 DEF SetProxies, PartCall, StreamPartsTypeOK, Layer, Delivery
    <2>4. stopping' \subseteq [call : 1 .. MaxPartCalls, of : Delivery, at : {"deleting", "stopped"}]
        BY <1>3 DEF SetProxies, PartCall, StreamPartsTypeOK, Delivery
    <2>5. proxied' \cup aborted' \cup localStored' \cup storing' \cup keeping'
            \cup reconnecting' \cup avoiding' \subseteq Delivery
        BY <1>3 DEF SetProxies, PartCall, StreamPartsTypeOK, Delivery
    <2>6. {record, privateMode, knownEntryPoints, destroyed, overlapped}' \subseteq BOOLEAN
        BY <1>3 DEF SetProxies, PartCall, StreamPartsTypeOK
    <2>7. wanted' \in {"joined", "proxied", "none"} /\ partCalls' \in 0 .. MaxPartCalls
        BY <1>3 DEF SetProxies, PartCall, StreamPartsTypeOK
    <2>8. QED
        BY <1>0, <2>1, <2>2, <2>4, <2>5, <2>6, <2>7 DEF StreamPartsTypeOK
<1>4. CASE Destroy
    <2>1. entry' \in 0 .. created' /\ created' \in 0 .. MaxDeliveries
        BY <1>4 DEF Destroy, StopOverlap, StopBegins, StreamPartsTypeOK
    <2>2. layers' \in [Delivery -> Layer]
        BY <1>4 DEF Destroy, StopOverlap, StopBegins, StreamPartsTypeOK, Layer, Delivery
    <2>4. stopping' \subseteq [call : 1 .. MaxPartCalls, of : Delivery, at : {"deleting", "stopped"}]
        BY <1>4 DEF Destroy, StopOverlap, StopBegins, StreamPartsTypeOK, Delivery
    <2>5. proxied' \cup aborted' \cup localStored' \cup storing' \cup keeping'
            \cup reconnecting' \cup avoiding' \subseteq Delivery
        BY <1>4 DEF Destroy, StopOverlap, StopBegins, StreamPartsTypeOK, Delivery
    <2>6. {record, privateMode, knownEntryPoints, destroyed, overlapped}' \subseteq BOOLEAN
        BY <1>4 DEF Destroy, StopOverlap, StopBegins, StreamPartsTypeOK
    <2>7. wanted' \in {"joined", "proxied", "none"} /\ partCalls' \in 0 .. MaxPartCalls
        BY <1>4 DEF Destroy, StopOverlap, StopBegins, StreamPartsTypeOK
    <2>8. QED
        BY <1>0, <2>1, <2>2, <2>4, <2>5, <2>6, <2>7 DEF StreamPartsTypeOK
<1>5. CASE RecordExpires
    BY <1>5 DEF RecordExpires, delivery, StreamPartsTypeOK
<1>6. ASSUME NEW s \in stopping, StopContinues(s) PROVE StreamPartsTypeOK'
    <2>1. entry' \in 0 .. created' /\ created' \in 0 .. MaxDeliveries
        BY <1>6 DEF StopContinues, StreamPartsTypeOK
    <2>2. layers' \in [Delivery -> Layer]
        BY <1>6 DEF StopContinues, StreamPartsTypeOK, Layer, Delivery
    <2>4. stopping' \subseteq [call : 1 .. MaxPartCalls, of : Delivery, at : {"deleting", "stopped"}]
        <3>1. s.call \in 1 .. MaxPartCalls /\ s.of \in Delivery
            BY DEF StreamPartsTypeOK
        <3>2. [call |-> s.call, of |-> s.of, at |-> "stopped"] \in
                [call : 1 .. MaxPartCalls, of : Delivery, at : {"deleting", "stopped"}]
            BY <3>1
        <3>3. stopping' = (stopping \ {s}) \cup {[call |-> s.call, of |-> s.of, at |-> "stopped"]}
            BY <1>6 DEF StopContinues
        <3>4. QED
            BY <3>2, <3>3 DEF StreamPartsTypeOK
    <2>5. proxied' \cup aborted' \cup localStored' \cup storing' \cup keeping'
            \cup reconnecting' \cup avoiding' \subseteq Delivery
        BY <1>6 DEF StopContinues, StreamPartsTypeOK, Delivery
    <2>6. {record, privateMode, knownEntryPoints, destroyed, overlapped}' \subseteq BOOLEAN
        BY <1>6 DEF StopContinues, StreamPartsTypeOK
    <2>7. wanted' \in {"joined", "proxied", "none"} /\ partCalls' \in 0 .. MaxPartCalls
        BY <1>6 DEF StopContinues, StreamPartsTypeOK
    <2>8. QED
        BY <1>0, <2>1, <2>2, <2>4, <2>5, <2>6, <2>7 DEF StreamPartsTypeOK
<1>7. ASSUME NEW s \in stopping, StopEnds(s) PROVE StreamPartsTypeOK'
    <2>1. entry' \in 0 .. created' /\ created' \in 0 .. MaxDeliveries
        BY <1>7 DEF StopEnds, delivery, StreamPartsTypeOK
    <2>2. layers' \in [Delivery -> Layer]
        BY <1>7 DEF StopEnds, delivery, StreamPartsTypeOK, Layer, Delivery
    <2>4. stopping' \subseteq [call : 1 .. MaxPartCalls, of : Delivery, at : {"deleting", "stopped"}]
        BY <1>7 DEF StopEnds, delivery, StreamPartsTypeOK, Delivery
    <2>5. proxied' \cup aborted' \cup localStored' \cup storing' \cup keeping'
            \cup reconnecting' \cup avoiding' \subseteq Delivery
        BY <1>7 DEF StopEnds, delivery, StreamPartsTypeOK, Delivery
    <2>6. {record, privateMode, knownEntryPoints, destroyed, overlapped}' \subseteq BOOLEAN
        BY <1>7 DEF StopEnds, delivery, StreamPartsTypeOK
    <2>7. wanted' \in {"joined", "proxied", "none"} /\ partCalls' \in 0 .. MaxPartCalls
        BY <1>7 DEF StopEnds, delivery, StreamPartsTypeOK
    <2>8. QED
        BY <1>0, <2>1, <2>2, <2>4, <2>5, <2>6, <2>7 DEF StreamPartsTypeOK
<1>8. ASSUME NEW d \in Delivery, NEW lonely \in BOOLEAN, StoreLocalNode(d, lonely) PROVE StreamPartsTypeOK'
    <2>1. entry' \in 0 .. created' /\ created' \in 0 .. MaxDeliveries
        BY <1>8 DEF StoreLocalNode, StreamPartsTypeOK
    <2>2. layers' \in [Delivery -> Layer]
        BY <1>8 DEF StoreLocalNode, StreamPartsTypeOK, Layer, Delivery
    <2>4. stopping' \subseteq [call : 1 .. MaxPartCalls, of : Delivery, at : {"deleting", "stopped"}]
        BY <1>8 DEF StoreLocalNode, StreamPartsTypeOK, Delivery
    <2>5. proxied' \cup aborted' \cup localStored' \cup storing' \cup keeping'
            \cup reconnecting' \cup avoiding' \subseteq Delivery
        <3>1. starting[d].at = "storing" => starting[d].of \in Delivery
            BY DEF StartsADelivery
        <3>2. QED
            BY <1>8, <3>1 DEF StoreLocalNode, StreamPartsTypeOK
    <2>6. {record, privateMode, knownEntryPoints, destroyed, overlapped}' \subseteq BOOLEAN
        BY <1>8 DEF StoreLocalNode, StreamPartsTypeOK
    <2>7. wanted' \in {"joined", "proxied", "none"} /\ partCalls' \in 0 .. MaxPartCalls
        BY <1>8 DEF StoreLocalNode, StreamPartsTypeOK
    <2>8. QED
        BY <1>0, <2>1, <2>2, <2>4, <2>5, <2>6, <2>7 DEF StreamPartsTypeOK
<1>9. ASSUME NEW d \in Delivery, KeepLocalNode(d) PROVE StreamPartsTypeOK'
    BY <1>9 DEF KeepLocalNode, StreamPartsTypeOK
<1>10. ASSUME NEW d \in Delivery, AvoidNetworkSplitEnds(d) PROVE StreamPartsTypeOK'
    BY <1>10 DEF AvoidNetworkSplitEnds, StreamPartsTypeOK
<1>11. ASSUME NEW d \in Delivery, StartReadsMap(d) PROVE StreamPartsTypeOK'
    <2>1. entry' \in 0 .. created' /\ created' \in 0 .. MaxDeliveries
        BY <1>11 DEF StartReadsMap, Started, StreamPartsTypeOK
    <2>2. layers' \in [Delivery -> Layer]
        BY <1>11 DEF StartReadsMap, Started, StreamPartsTypeOK, Layer, Delivery
    <2>4. stopping' \subseteq [call : 1 .. MaxPartCalls, of : Delivery, at : {"deleting", "stopped"}]
        BY <1>11 DEF StartReadsMap, Started, StreamPartsTypeOK, Delivery
    <2>5. proxied' \cup aborted' \cup localStored' \cup storing' \cup keeping'
            \cup reconnecting' \cup avoiding' \subseteq Delivery
        BY <1>11 DEF StartReadsMap, Started, StreamPartsTypeOK, Delivery
    <2>6. {record, privateMode, knownEntryPoints, destroyed, overlapped}' \subseteq BOOLEAN
        BY <1>11 DEF StartReadsMap, Started, StreamPartsTypeOK
    <2>7. wanted' \in {"joined", "proxied", "none"} /\ partCalls' \in 0 .. MaxPartCalls
        BY <1>11 DEF StartReadsMap, Started, StreamPartsTypeOK
    <2>8. QED
        BY <1>0, <2>1, <2>2, <2>4, <2>5, <2>6, <2>7 DEF StreamPartsTypeOK
<1>12. ASSUME NEW d \in Delivery, PrivateModeDisabled(d) PROVE StreamPartsTypeOK'
    BY <1>12 DEF PrivateModeDisabled, Started, StreamPartsTypeOK, StartAt, StartStep, Layer, Delivery
<1>13. ASSUME NEW d \in Delivery, NEW few \in BOOLEAN, StartJoins(d, few) PROVE StreamPartsTypeOK'
    <2>1. entry' \in 0 .. created' /\ created' \in 0 .. MaxDeliveries
        BY <1>13 DEF StartJoins, StoreAndKeepLocalNode, StreamPartsTypeOK
    <2>2. layers' \in [Delivery -> Layer]
        BY <1>13 DEF StartJoins, StoreAndKeepLocalNode, StreamPartsTypeOK, Layer, Delivery
    <2>4. stopping' \subseteq [call : 1 .. MaxPartCalls, of : Delivery, at : {"deleting", "stopped"}]
        BY <1>13 DEF StartJoins, StoreAndKeepLocalNode, StreamPartsTypeOK, Delivery
    <2>5. proxied' \cup aborted' \cup localStored' \cup storing' \cup keeping'
            \cup reconnecting' \cup avoiding' \subseteq Delivery
        BY <1>13 DEF StartJoins, StoreAndKeepLocalNode, StreamPartsTypeOK, Delivery
    <2>6. {record, privateMode, knownEntryPoints, destroyed, overlapped}' \subseteq BOOLEAN
        BY <1>13 DEF StartJoins, StoreAndKeepLocalNode, StreamPartsTypeOK
    <2>7. wanted' \in {"joined", "proxied", "none"} /\ partCalls' \in 0 .. MaxPartCalls
        BY <1>13 DEF StartJoins, StoreAndKeepLocalNode, StreamPartsTypeOK
    <2>8. QED
        BY <1>0, <2>1, <2>2, <2>4, <2>5, <2>6, <2>7 DEF StreamPartsTypeOK
<1>14. ASSUME NEW d \in Delivery, ManualRejoin(d) PROVE StreamPartsTypeOK'
    BY <1>14 DEF ManualRejoin, StreamPartsTypeOK
<1>15. ASSUME NEW d \in Delivery, NEW few \in BOOLEAN, NEW found \in BOOLEAN, Reconnect(d, few, found)
       PROVE StreamPartsTypeOK'
    BY <1>15 DEF Reconnect, StoreAndKeepLocalNode, StreamPartsTypeOK
<1>16. ASSUME NEW d \in Delivery, EntryPointLeaves(d) PROVE StreamPartsTypeOK'
    BY <1>16 DEF EntryPointLeaves, StoreAndKeepLocalNode, StreamPartsTypeOK
<1>17. CASE UNCHANGED partVars
    BY <1>17 DEF partVars, delivery, StreamPartsTypeOK
<1>18. QED
    BY <1>1, <1>2, <1>3, <1>4, <1>5, <1>6, <1>7, <1>8, <1>9, <1>10, <1>11, <1>12, <1>13, <1>14, <1>15, <1>16, <1>17
       DEF StreamPartsNext

\* A delivery that a step leaves as it is.
Same(x) ==
    /\ layers'[x] = layers[x] /\ starting'[x] = starting[x]
    /\ (x \in aborted') = (x \in aborted) /\ (x \in proxied') = (x \in proxied)
    /\ (x \in localStored') = (x \in localStored) /\ (x \in storing') = (x \in storing)
    /\ (x \in keeping') = (x \in keeping) /\ (x \in reconnecting') = (x \in reconnecting)

\* It stays untouched or gone, and its start its own.
LEMMA SameKept ==
    ASSUME NEW x, Same(x)
    PROVE  /\ Untouched(x) => Untouched(x)'
           /\ Gone(x) => Gone(x)'
           /\ StartsItself(x) => StartsItself(x)'
BY DEF Same, Untouched, Gone, StartsItself

\* The deliveries are numbered as they are created.
LEMMA EntryIsCreated ==
    ASSUME StreamPartsTypeOK
    PROVE  /\ entry # 0 => entry \in Delivery /\ entry <= created
           /\ entry \in Nat /\ created \in Nat
           /\ 0 \notin Delivery /\ \A d \in Delivery : d \in Nat
           /\ \A s \in stopping : s.of \in Delivery
           /\ 0 \notin proxied /\ 0 \notin localStored
           /\ created < MaxDeliveries => created + 1 \in Delivery
BY StreamPartsAssumption DEF StreamPartsTypeOK, Delivery

\* A step of one delivery, or of none, keeps the order if that delivery keeps its own.
LEMMA OneDelivery ==
    ASSUME StreamPartsTypeOK, InOrder, NEW d \in Delivery, d <= created,
           UNCHANGED <<entry, created, stopping, wanted, proxied, aborted>>,
           \A x \in Delivery : x # d => Same(x),
           d # entry => Gone(d)', StartsItself(d)', d = entry => InTheMap(d)',
           \A s \in stopping : d = entry => StopInOrder(s)',
           record' => record \/ d = entry, RecordsInOrder'
    PROVE  InOrder'
<1> USE EntryIsCreated
<1>1. NotCreatedYet'
    BY SameKept DEF InOrder, NotCreatedYet
<1>2. LeftTheMap'
    BY SameKept DEF InOrder, LeftTheMap
<1>3. StartsInOrder'
    BY SameKept DEF InOrder, StartsInOrder
<1>4. EntryInOrder'
    BY DEF InOrder, EntryInOrder, InTheMap, Same
<1>5. StopsInOrder'
    <2>1. ASSUME NEW s \in stopping PROVE StopInOrder(s)'
        <3>1. StopInOrder(s) /\ entry # 0
            BY DEF InOrder, StopsInOrder, StopInOrder
        <3>2. CASE d # entry
            <4>1. Same(entry) /\ (record' => record)
                BY <3>1, <3>2
            <4>2. QED
                BY <3>1, <4>1 DEF StopInOrder, Same
        <3>3. QED
            BY <3>2
    <2>2. QED
        BY <2>1 DEF InOrder, StopsInOrder
<1>6. MapIsWanted'
    BY DEF InOrder, MapIsWanted
<1>7. QED
    BY <1>1, <1>2, <1>3, <1>4, <1>5, <1>6 DEF InOrder

\* What one delivery does by itself.
LEMMA DeliveriesInOrder ==
    ASSUME StreamPartsTypeOK, InOrder, NEW d \in Delivery
    PROVE  /\ \A lonely \in BOOLEAN : StoreLocalNode(d, lonely) => InOrder'
           /\ KeepLocalNode(d) \/ StartReadsMap(d) \/ PrivateModeDisabled(d) => InOrder'
           /\ \A few \in BOOLEAN : StartJoins(d, few) => InOrder'
           /\ ManualRejoin(d) \/ EntryPointLeaves(d) => InOrder'
           /\ \A few, found \in BOOLEAN : Reconnect(d, few, found) => InOrder'
<1> USE EntryIsCreated
<1>1. d <= created \/ Untouched(d)
    BY DEF InOrder, NotCreatedYet
<1>2. d <= created /\ d # entry => Gone(d)
    BY DEF InOrder, LeftTheMap
<1>3. d \in aborted => d \notin storing \cup keeping
    BY <1>1, <1>2 DEF InOrder, Untouched, Gone, StopsInOrder, StopInOrder, MapIsWanted
<1>4. d = entry /\ d \notin aborted => stopping = {}
    BY DEF InOrder, StopsInOrder, StopInOrder
<1>5. StartsItself(d) /\ (d = entry => InTheMap(d)) /\ \A s \in stopping : StopInOrder(s)
    BY DEF InOrder, StartsInOrder, EntryInOrder, StopsInOrder
<1>6. RecordsInOrder
    BY DEF InOrder
<1>7. ASSUME NEW lonely \in BOOLEAN, StoreLocalNode(d, lonely) PROVE InOrder'
    <2>1. d <= created
        BY <1>1, <1>7 DEF StoreLocalNode, Untouched
    <2>2. d = entry /\ d \notin proxied /\ d \notin aborted /\ stopping = {} /\ d \in localStored
        BY <2>1, <1>2, <1>3, <1>4, <1>5, <1>6, <1>7 DEF StoreLocalNode, Gone, StartsItself, InTheMap, RecordsInOrder
    <2>3. UNCHANGED <<entry, created, stopping, wanted, proxied, aborted>>
          /\ \A x \in Delivery : x # d => Same(x)
        BY <1>7 DEF StoreLocalNode, StartAt, Same, StreamPartsTypeOK
    <2>4. d # entry => Gone(d)'
        BY <1>7, <1>2, <2>1, <2>2 DEF StoreLocalNode, StartAt, Gone, StreamPartsTypeOK
    <2>5. StartsItself(d)'
        BY <1>7, <1>5, <2>2 DEF StoreLocalNode, StartAt, StartsItself, StreamPartsTypeOK
    <2>6. d = entry => InTheMap(d)'
        BY <1>7, <1>5, <2>2 DEF StoreLocalNode, StartAt, InTheMap, StreamPartsTypeOK
    <2>7. \A s \in stopping : d = entry => StopInOrder(s)'
        BY <1>7, <1>5, <2>2 DEF StoreLocalNode, StartAt, StopInOrder, StreamPartsTypeOK
    <2>8. (record' => record \/ d = entry) /\ RecordsInOrder'
        BY <1>7, <1>6, <2>2 DEF StoreLocalNode, StartAt, RecordsInOrder
    <2>9. QED
        BY <2>1, <2>3, <2>4, <2>5, <2>6, <2>7, <2>8, OneDelivery
<1>8. ASSUME KeepLocalNode(d) PROVE InOrder'
    <2>1. d <= created
        BY <1>1, <1>8 DEF KeepLocalNode, Untouched
    <2>2. d = entry /\ d \notin proxied /\ d \notin aborted /\ stopping = {} /\ d \in localStored
        BY <2>1, <1>2, <1>3, <1>4, <1>5, <1>6, <1>8 DEF KeepLocalNode, Gone, StartsItself, InTheMap, RecordsInOrder
    <2>3. UNCHANGED <<entry, created, stopping, wanted, proxied, aborted>>
          /\ \A x \in Delivery : x # d => Same(x)
        BY <1>8 DEF KeepLocalNode, Same, StreamPartsTypeOK
    <2>4. d # entry => Gone(d)'
        BY <1>8, <1>2, <2>1, <2>2 DEF KeepLocalNode, Gone, StreamPartsTypeOK
    <2>5. StartsItself(d)'
        BY <1>8, <1>5, <2>2 DEF KeepLocalNode, StartsItself, StreamPartsTypeOK
    <2>6. d = entry => InTheMap(d)'
        BY <1>8, <1>5, <2>2 DEF KeepLocalNode, InTheMap, StreamPartsTypeOK
    <2>7. \A s \in stopping : d = entry => StopInOrder(s)'
        BY <1>8, <1>5, <2>2 DEF KeepLocalNode, StopInOrder, StreamPartsTypeOK
    <2>8. (record' => record \/ d = entry) /\ RecordsInOrder'
        BY <1>8, <1>6, <2>2 DEF KeepLocalNode, RecordsInOrder
    <2>9. QED
        BY <2>1, <2>3, <2>4, <2>5, <2>6, <2>7, <2>8, OneDelivery
<1>9. ASSUME StartReadsMap(d) PROVE InOrder'
    <2>1. d <= created
        BY <1>1, <1>9 DEF StartReadsMap, Untouched
    <2>2. d = entry /\ d \notin proxied /\ layers[d] = "created"
        BY <2>1, <1>2, <1>3, <1>4, <1>5, <1>6, <1>9 DEF StartReadsMap, Gone, StartsItself, InTheMap, RecordsInOrder
    <2>3. /\ starting'[d].at = (IF privateMode THEN "private mode" ELSE "joining") /\ starting'[d].of = d
          /\ layers'[d] = (IF privateMode THEN "created" ELSE "running")
          /\ \A x \in Delivery : x # d => starting'[x] = starting[x] /\ layers'[x] = layers[x]
        <3>1. entry # 0 /\ starting \in [Delivery -> [at : StartStep, of : 0 .. MaxDeliveries]]
              /\ layers \in [Delivery -> Layer]
            BY <2>2 DEF StreamPartsTypeOK
        <3>2. CASE privateMode
            <4>1. starting' = [starting EXCEPT ![d] = StartAt("private mode", d)] /\ layers' = layers
                BY <3>1, <3>2, <2>2, <1>9 DEF StartReadsMap
            <4>2. QED
                BY <3>1, <3>2, <2>2, <4>1 DEF StartAt
        <3>3. CASE ~privateMode
            <4>1. starting' = [starting EXCEPT ![d] = StartAt("joining", d)]
                  /\ layers' = [layers EXCEPT ![d] = Started(@)]
                BY <3>1, <3>3, <2>2, <1>9 DEF StartReadsMap
            <4>2. QED
                BY <3>1, <3>3, <2>2, <4>1 DEF StartAt, Started
        <3>4. QED
            BY <3>2, <3>3
    <2>4. UNCHANGED <<entry, created, stopping, wanted, proxied, aborted>>
          /\ \A x \in Delivery : x # d => Same(x)
        BY <1>9, <2>3 DEF StartReadsMap, Same
    <2>5. d # entry => Gone(d)'
        BY <1>9, <1>2, <2>1, <2>2 DEF StartReadsMap, Started, StartAt, Gone, StreamPartsTypeOK
    <2>6. StartsItself(d)'
        BY <1>9, <1>5, <2>2, <2>3 DEF StartReadsMap, StartsItself
    <2>7. d = entry => InTheMap(d)'
        BY <1>9, <1>5, <2>2, <2>3 DEF StartReadsMap, InTheMap
    <2>8. \A s \in stopping : d = entry => StopInOrder(s)'
        BY <1>9, <1>5, <2>2 DEF StartReadsMap, Started, StartAt, StopInOrder, StreamPartsTypeOK
    <2>9. (record' => record \/ d = entry) /\ RecordsInOrder'
        BY <1>9, <1>6, <2>2 DEF StartReadsMap, Started, StartAt, RecordsInOrder
    <2>10. QED
        BY <2>1, <2>4, <2>5, <2>6, <2>7, <2>8, <2>9, OneDelivery
<1>10. ASSUME PrivateModeDisabled(d) PROVE InOrder'
    <2>1. d <= created
        BY <1>1, <1>10 DEF PrivateModeDisabled, Untouched
    <2>2. d = entry /\ d \notin proxied /\ layers[d] = "created" /\ starting[d].of = d
        BY <2>1, <1>2, <1>3, <1>4, <1>5, <1>6, <1>10
           DEF PrivateModeDisabled, Gone, StartsItself, InTheMap, RecordsInOrder
    <2>3. /\ starting'[d].at = "joining" /\ starting'[d].of = d /\ layers'[d] = "running"
          /\ \A x \in Delivery : x # d => starting'[x] = starting[x] /\ layers'[x] = layers[x]
        <3>1. starting \in [Delivery -> [at : StartStep, of : 0 .. MaxDeliveries]] /\ layers \in [Delivery -> Layer]
            BY DEF StreamPartsTypeOK
        <3>2. starting' = [starting EXCEPT ![d] = StartAt("joining", d)] /\ layers' = [layers EXCEPT ![d] = Started(@)]
            BY <2>2, <1>10 DEF PrivateModeDisabled
        <3>3. QED
            BY <3>1, <3>2, <2>2 DEF StartAt, Started
    <2>4. UNCHANGED <<entry, created, stopping, wanted, proxied, aborted>>
          /\ \A x \in Delivery : x # d => Same(x)
        BY <1>10, <2>3 DEF PrivateModeDisabled, Same
    <2>5. d # entry => Gone(d)'
        BY <1>10, <1>2, <2>1, <2>2 DEF PrivateModeDisabled, Started, StartAt, Gone, StreamPartsTypeOK
    <2>6. StartsItself(d)'
        BY <1>10, <1>5, <2>2, <2>3 DEF PrivateModeDisabled, StartsItself
    <2>7. d = entry => InTheMap(d)'
        BY <1>10, <1>5, <2>2, <2>3 DEF PrivateModeDisabled, InTheMap
    <2>8. \A s \in stopping : d = entry => StopInOrder(s)'
        BY <1>10, <1>5, <2>2 DEF PrivateModeDisabled, Started, StartAt, StopInOrder, StreamPartsTypeOK
    <2>9. (record' => record \/ d = entry) /\ RecordsInOrder'
        BY <1>10, <1>6, <2>2 DEF PrivateModeDisabled, Started, StartAt, RecordsInOrder
    <2>10. QED
        BY <2>1, <2>4, <2>5, <2>6, <2>7, <2>8, <2>9, OneDelivery
<1>11. ASSUME NEW few \in BOOLEAN, StartJoins(d, few) PROVE InOrder'
    <2>1. d <= created
        BY <1>1, <1>11 DEF StartJoins, Untouched
    <2>2. d \notin proxied /\ (d \in aborted => d \notin storing) /\ (d \notin aborted => d = entry /\ stopping = {})
        BY <2>1, <1>2, <1>3, <1>4, <1>5, <1>6, <1>11 DEF StartJoins, Gone, StartsItself, InTheMap, RecordsInOrder
    <2>3. \/ starting'[d].at = "none"
          \/ d \in storing' /\ starting'[d].at = "storing" /\ starting'[d].of = starting[d].of
        <3>1. starting \in [Delivery -> [at : StartStep, of : 0 .. MaxDeliveries]]
            BY DEF StreamPartsTypeOK
        <3>2. CASE few /\ ~knownEntryPoints
            <4>1. starting' = [starting EXCEPT ![d] = IF d \in storing' THEN StartAt("storing", starting[d].of)
                                                      ELSE StartAt("none", 0)]
                BY <3>2, <1>11 DEF StartJoins
            <4>2. QED
                BY <3>1, <4>1 DEF StartAt
        <3>3. CASE ~(few /\ ~knownEntryPoints)
            <4>1. starting' = [starting EXCEPT ![d] = StartAt("none", 0)] /\ storing' = storing
                BY <3>3, <1>11 DEF StartJoins
            <4>2. QED
                BY <3>1, <4>1, <2>2 DEF StartAt
        <3>4. QED
            BY <3>2, <3>3
    <2>4. UNCHANGED <<entry, created, stopping, wanted, proxied, aborted>>
          /\ \A x \in Delivery : x # d => Same(x)
        BY <1>11 DEF StartJoins, StoreAndKeepLocalNode, StartAt, Same, StreamPartsTypeOK
    <2>5. d # entry => Gone(d)'
        BY <1>11, <1>2, <2>1, <2>2 DEF StartJoins, StoreAndKeepLocalNode, StartAt, Gone, StreamPartsTypeOK
    <2>6. StartsItself(d)'
        BY <1>11, <1>5, <2>2, <2>3 DEF StartJoins, StartsItself
    <2>7. d = entry => InTheMap(d)'
        BY <1>11, <1>5, <2>2, <2>3 DEF StartJoins, InTheMap
    <2>8. \A s \in stopping : d = entry => StopInOrder(s)'
        BY <1>11, <1>5, <2>2 DEF StartJoins, StoreAndKeepLocalNode, StartAt, StopInOrder, StreamPartsTypeOK
    <2>9. (record' => record \/ d = entry) /\ RecordsInOrder'
        BY <1>11, <1>6, <2>2 DEF StartJoins, StoreAndKeepLocalNode, StartAt, RecordsInOrder
    <2>10. QED
        BY <2>1, <2>4, <2>5, <2>6, <2>7, <2>8, <2>9, OneDelivery
<1>12. ASSUME ManualRejoin(d) PROVE InOrder'
    <2>1. d <= created
        BY <1>1, <1>12 DEF ManualRejoin, Untouched
    <2>2. d = entry /\ d \notin proxied
        BY <2>1, <1>2, <1>3, <1>4, <1>5, <1>6, <1>12 DEF ManualRejoin, Gone, StartsItself, InTheMap, RecordsInOrder
    <2>3. UNCHANGED <<entry, created, stopping, wanted, proxied, aborted>>
          /\ \A x \in Delivery : x # d => Same(x)
        BY <1>12 DEF ManualRejoin, Same, StreamPartsTypeOK
    <2>4. d # entry => Gone(d)'
        BY <1>12, <1>2, <2>1, <2>2 DEF ManualRejoin, Gone, StreamPartsTypeOK
    <2>5. StartsItself(d)'
        BY <1>12, <1>5, <2>2 DEF ManualRejoin, StartsItself, StreamPartsTypeOK
    <2>6. d = entry => InTheMap(d)'
        BY <1>12, <1>5, <2>2 DEF ManualRejoin, InTheMap, StreamPartsTypeOK
    <2>7. \A s \in stopping : d = entry => StopInOrder(s)'
        BY <1>12, <1>5, <2>2 DEF ManualRejoin, StopInOrder, StreamPartsTypeOK
    <2>8. (record' => record \/ d = entry) /\ RecordsInOrder'
        BY <1>12, <1>6, <2>2 DEF ManualRejoin, RecordsInOrder
    <2>9. QED
        BY <2>1, <2>3, <2>4, <2>5, <2>6, <2>7, <2>8, OneDelivery
<1>13. ASSUME NEW few \in BOOLEAN, NEW found \in BOOLEAN, Reconnect(d, few, found) PROVE InOrder'
    <2>1. d <= created
        BY <1>1, <1>13 DEF Reconnect, Untouched
    <2>2. d \notin proxied /\ (d \notin aborted => d = entry /\ stopping = {})
        BY <2>1, <1>2, <1>3, <1>4, <1>5, <1>6, <1>13 DEF Reconnect, Gone, StartsItself, InTheMap, RecordsInOrder
    <2>3. UNCHANGED <<entry, created, stopping, wanted, proxied, aborted>>
          /\ \A x \in Delivery : x # d => Same(x)
        BY <1>13 DEF Reconnect, StoreAndKeepLocalNode, Same, StreamPartsTypeOK
    <2>4. d # entry => Gone(d)'
        BY <1>13, <1>2, <2>1, <2>2 DEF Reconnect, StoreAndKeepLocalNode, Gone, StreamPartsTypeOK
    <2>5. StartsItself(d)'
        BY <1>13, <1>5, <2>2 DEF Reconnect, StoreAndKeepLocalNode, StartsItself, StreamPartsTypeOK
    <2>6. d = entry => InTheMap(d)'
        BY <1>13, <1>5, <2>2 DEF Reconnect, StoreAndKeepLocalNode, InTheMap, StreamPartsTypeOK
    <2>7. \A s \in stopping : d = entry => StopInOrder(s)'
        BY <1>13, <1>5, <2>2 DEF Reconnect, StoreAndKeepLocalNode, StopInOrder, StreamPartsTypeOK
    <2>8. (record' => record \/ d = entry) /\ RecordsInOrder'
        BY <1>13, <1>6, <2>2 DEF Reconnect, StoreAndKeepLocalNode, RecordsInOrder
    <2>9. QED
        BY <2>1, <2>3, <2>4, <2>5, <2>6, <2>7, <2>8, OneDelivery
<1>14. ASSUME EntryPointLeaves(d) PROVE InOrder'
    <2>1. d <= created
        BY <1>1, <1>14 DEF EntryPointLeaves, Untouched
    <2>2. d = entry /\ d \notin proxied /\ (d \notin aborted => stopping = {})
        BY <2>1, <1>2, <1>3, <1>4, <1>5, <1>6, <1>14 DEF EntryPointLeaves, Gone, StartsItself, InTheMap, RecordsInOrder
    <2>3. UNCHANGED <<entry, created, stopping, wanted, proxied, aborted>>
          /\ \A x \in Delivery : x # d => Same(x)
        BY <1>14 DEF EntryPointLeaves, StoreAndKeepLocalNode, Same, StreamPartsTypeOK
    <2>4. d # entry => Gone(d)'
        BY <1>14, <1>2, <2>1, <2>2 DEF EntryPointLeaves, StoreAndKeepLocalNode, Gone, StreamPartsTypeOK
    <2>5. StartsItself(d)'
        BY <1>14, <1>5, <2>2 DEF EntryPointLeaves, StoreAndKeepLocalNode, StartsItself, StreamPartsTypeOK
    <2>6. d = entry => InTheMap(d)'
        BY <1>14, <1>5, <2>2 DEF EntryPointLeaves, StoreAndKeepLocalNode, InTheMap, StreamPartsTypeOK
    <2>7. \A s \in stopping : d = entry => StopInOrder(s)'
        BY <1>14, <1>5, <2>2 DEF EntryPointLeaves, StoreAndKeepLocalNode, StopInOrder, StreamPartsTypeOK
    <2>8. (record' => record \/ d = entry) /\ RecordsInOrder'
        BY <1>14, <1>6, <2>2 DEF EntryPointLeaves, StoreAndKeepLocalNode, RecordsInOrder
    <2>9. QED
        BY <2>1, <2>3, <2>4, <2>5, <2>6, <2>7, <2>8, OneDelivery
<1>15. QED
    BY <1>7, <1>8, <1>9, <1>10, <1>11, <1>12, <1>13, <1>14

\* The calls: a new delivery takes the place of none; stop() begins for the one in the map.
LEMMA CallsInOrder ==
    ASSUME StreamPartsTypeOK, InOrder, ~overlapped, ~overlapped', Join \/ SetProxies \/ Leave \/ Destroy
    PROVE  InOrder'
<1> USE EntryIsCreated
<1>1. CASE Join
    <2>1. stopping = {} /\ stopping' = {} /\ record' = record /\ wanted' = "joined"
        BY <1>1 DEF Join
    <2>2. CASE entry # 0
        <3>1. UNCHANGED <<entry, created, starting>>
            BY <1>1, <2>2 DEF Join, JoinStreamPart
        <3>2. UNCHANGED <<proxied, layers, aborted, localStored, storing, keeping, reconnecting>>
              /\ entry \notin proxied
            BY <1>1 DEF Join
        <3>3. NotCreatedYet' /\ LeftTheMap' /\ StartsInOrder'
            BY <3>1, <3>2 DEF InOrder, NotCreatedYet, LeftTheMap, StartsInOrder, Untouched, Gone, StartsItself
        <3>4. EntryInOrder' /\ StopsInOrder' /\ RecordsInOrder'
            BY <2>1, <3>1, <3>2 DEF InOrder, EntryInOrder, InTheMap, StopsInOrder, RecordsInOrder
        <3>5. MapIsWanted'
            BY <2>1, <2>2, <3>1, <3>2 DEF InOrder, MapIsWanted
        <3>6. QED
            BY <3>3, <3>4, <3>5 DEF InOrder
    <2>3. CASE entry = 0
        <3>1. PICK n \in Delivery : n = created + 1 /\ created' = n /\ entry' = n
            BY <1>1, <2>3 DEF Join, JoinStreamPart
        <3>2. starting'[n].at = "scheduled" /\ \A x \in Delivery : x # n => starting'[x] = starting[x]
            BY <1>1, <2>3, <3>1 DEF Join, JoinStreamPart, StartAt, StreamPartsTypeOK
        <3>3. UNCHANGED <<proxied, layers, aborted, localStored, storing, keeping, reconnecting>>
            BY <1>1 DEF Join
        <3>4. Untouched(n)
            BY <3>1 DEF InOrder, NotCreatedYet
        <3>5. \A x \in Delivery : x # n => Same(x)
            BY <3>2, <3>3 DEF Same
        <3>6. created' = created + 1 /\ n = created + 1
            BY <3>1
        <3>7. \A x \in Delivery : x > created' => Untouched(x)'
            BY <3>5, <3>6, SameKept DEF InOrder, NotCreatedYet
        <3>8. \A x \in Delivery : x <= created' /\ x # entry' => Gone(x)'
            BY <2>3, <3>1, <3>5, <3>6, SameKept DEF InOrder, LeftTheMap
        <3>9. StartsItself(n)'
            BY <3>2, <3>3, <3>4 DEF StartsItself, Untouched
        <3>10. StartsInOrder'
            BY <3>5, <3>9, SameKept DEF InOrder, StartsInOrder
        <3>11. EntryInOrder' /\ StopsInOrder'
            BY <2>1, <3>1, <3>2, <3>3, <3>4 DEF EntryInOrder, InTheMap, StopsInOrder, Untouched
        <3>12. MapIsWanted' /\ RecordsInOrder'
            BY <2>1, <2>3, <3>1, <3>3, <3>4, <3>6 DEF InOrder, MapIsWanted, RecordsInOrder, Untouched
        <3>13. QED
            BY <3>7, <3>8, <3>10, <3>11, <3>12 DEF InOrder, NotCreatedYet, LeftTheMap
    <2>4. QED
        BY <2>2, <2>3
<1>2. CASE SetProxies
    <2>1. stopping = {} /\ stopping' = {} /\ record' = record /\ wanted' = "proxied" /\ (entry = 0 \/ entry \in proxied)
        BY <1>2 DEF SetProxies
    <2>2. UNCHANGED <<starting, aborted, localStored, storing, keeping, reconnecting>>
        BY <1>2 DEF SetProxies
    <2>3. CASE entry \in proxied
        <3>1. UNCHANGED <<entry, created, proxied, layers>>
            BY <1>2, <2>3 DEF SetProxies
        <3>2. NotCreatedYet' /\ LeftTheMap' /\ StartsInOrder'
            BY <2>2, <3>1 DEF InOrder, NotCreatedYet, LeftTheMap, StartsInOrder, Untouched, Gone, StartsItself
        <3>3. EntryInOrder' /\ StopsInOrder' /\ RecordsInOrder'
            BY <2>1, <2>2, <3>1 DEF InOrder, EntryInOrder, InTheMap, StopsInOrder, RecordsInOrder
        <3>4. MapIsWanted'
            BY <2>1, <2>2, <2>3, <3>1 DEF InOrder, MapIsWanted
        <3>5. QED
            BY <3>2, <3>3, <3>4 DEF InOrder
    <2>4. CASE entry = 0
        <3>1. PICK n \in Delivery : n = created + 1 /\ created' = n /\ entry' = n /\ proxied' = proxied \cup {n}
            BY <1>2, <2>4 DEF SetProxies
        <3>2. layers'[n] = "running" /\ \A x \in Delivery : x # n => layers'[x] = layers[x]
            BY <1>2, <2>4, <3>1 DEF SetProxies, StreamPartsTypeOK
        <3>4. Untouched(n)
            BY <3>1 DEF InOrder, NotCreatedYet
        <3>5. \A x \in Delivery : x # n => Same(x)
            BY <2>2, <3>1, <3>2 DEF Same
        <3>6. created' = created + 1 /\ n = created + 1
            BY <3>1
        <3>7. \A x \in Delivery : x > created' => Untouched(x)'
            BY <3>5, <3>6, SameKept DEF InOrder, NotCreatedYet
        <3>8. \A x \in Delivery : x <= created' /\ x # entry' => Gone(x)'
            BY <2>4, <3>1, <3>5, <3>6, SameKept DEF InOrder, LeftTheMap
        <3>9. StartsItself(n)'
            BY <2>2, <3>4 DEF StartsItself, Untouched
        <3>10. StartsInOrder'
            BY <3>5, <3>9, SameKept DEF InOrder, StartsInOrder
        <3>11. EntryInOrder' /\ StopsInOrder'
            BY <2>1, <2>2, <3>1, <3>2, <3>4 DEF EntryInOrder, InTheMap, StopsInOrder, Untouched
        <3>12. MapIsWanted' /\ RecordsInOrder'
            BY <2>1, <2>2, <2>4, <3>1, <3>4, <3>6 DEF InOrder, MapIsWanted, RecordsInOrder, Untouched
        <3>13. QED
            BY <3>7, <3>8, <3>10, <3>11, <3>12 DEF InOrder, NotCreatedYet, LeftTheMap
    <2>5. QED
        BY <2>1, <2>3, <2>4
<1>3. CASE Leave \/ Destroy
    <2>1. stopping = {} /\ entry \notin storing /\ wanted' = "none"
        BY <1>3 DEF Leave, Destroy, StopOverlap
    <2>2. UNCHANGED <<entry, created, proxied, layers, starting, localStored, storing, reconnecting, record>>
        BY <1>3 DEF Leave, Destroy
    <2>3. CASE entry = 0
        <3>1. UNCHANGED <<stopping, aborted, keeping>>
            BY <1>3, <2>3 DEF Leave, Destroy
        <3>2. NotCreatedYet' /\ LeftTheMap' /\ StartsInOrder'
            BY <2>2, <3>1 DEF InOrder, NotCreatedYet, LeftTheMap, StartsInOrder, Untouched, Gone, StartsItself
        <3>3. EntryInOrder' /\ StopsInOrder' /\ RecordsInOrder' /\ MapIsWanted'
            BY <2>1, <2>2, <2>3, <3>1 DEF InOrder, EntryInOrder, StopsInOrder, RecordsInOrder, MapIsWanted
        <3>4. QED
            BY <3>2, <3>3 DEF InOrder
    <2>4. CASE entry # 0
        <3>1. aborted' = aborted \cup {entry} /\ keeping' = keeping \ {entry}
            BY <1>3, <2>4 DEF Leave, Destroy, StopBegins
        <3>2. PICK s : stopping' = {s} /\ s.of = entry /\ s.at = "deleting"
            <4>1. stopping' = {[call |-> partCalls', of |-> entry, at |-> "deleting"]}
                BY <1>3, <2>1, <2>4 DEF Leave, Destroy, StopBegins
            <4>2. PICK s : s = [call |-> partCalls', of |-> entry, at |-> "deleting"]
                OBVIOUS
            <4>3. s.of = entry /\ s.at = "deleting"
                BY <4>2
            <4>4. QED
                BY <4>1, <4>2, <4>3
        <3>3. \A x \in Delivery : x # entry => Same(x)
            BY <2>2, <3>1 DEF Same
        <3>4. NotCreatedYet' /\ LeftTheMap'
            BY <2>2, <3>3, SameKept DEF InOrder, NotCreatedYet, LeftTheMap
        <3>5. StartsInOrder'
            BY <2>2 DEF InOrder, StartsInOrder, StartsItself
        <3>6. EntryInOrder'
            BY <2>1, <2>2, <3>2 DEF InOrder, EntryInOrder, InTheMap
        <3>7. StopsInOrder'
            BY <2>1, <2>2, <3>1, <3>2 DEF StopsInOrder, StopInOrder
        <3>8. MapIsWanted' /\ RecordsInOrder'
            BY <2>2, <3>1, <3>2 DEF InOrder, MapIsWanted, RecordsInOrder
        <3>9. QED
            BY <3>4, <3>5, <3>6, <3>7, <3>8 DEF InOrder
    <2>5. QED
        BY <2>3, <2>4
<1>4. QED
    BY <1>1, <1>2, <1>3

\* stop() goes on and ends: the delivery leaves the map.
LEMMA StopsKeepOrder ==
    ASSUME StreamPartsTypeOK, InOrder, ~overlapped, ~overlapped', NEW s \in stopping, StopContinues(s) \/ StopEnds(s)
    PROVE  InOrder'
<1> USE EntryIsCreated
<1>1. StopInOrder(s) /\ stopping = {s} /\ entry \in Delivery /\ s.of = entry /\ entry <= created
    BY DEF InOrder, StopsInOrder, StopInOrder
<1>2. CASE StopContinues(s)
    <2>1. PICK t : stopping' = {t} /\ t.of = entry /\ t.at = "stopped"
        <3>1. stopping' = {[call |-> s.call, of |-> s.of, at |-> "stopped"]}
            BY <1>1, <1>2 DEF StopContinues
        <3>2. PICK t : t = [call |-> s.call, of |-> s.of, at |-> "stopped"]
            OBVIOUS
        <3>3. t.of = entry /\ t.at = "stopped"
            BY <1>1, <3>2
        <3>4. QED
            BY <3>1, <3>2, <3>3
    <2>2. layers'[entry] # "running" /\ \A x \in Delivery : x # entry => layers'[x] = layers[x]
        BY <1>1, <1>2 DEF StopContinues, StreamPartsTypeOK
    <2>3. record' = (record /\ entry \in proxied)
        BY <1>1, <1>2 DEF StopContinues
    <2>4. UNCHANGED <<entry, created, proxied, starting, aborted, localStored, storing, keeping, reconnecting, wanted>>
        BY <1>2 DEF StopContinues
    <2>5. starting[entry].at \notin {"scheduled", "private mode", "storing"}
        <3>1. starting[entry].at # "scheduled"
            BY <1>1, <1>2 DEF StopContinues, Answered
        <3>2. starting[entry].at # "storing"
            BY <1>1 DEF InOrder, StartsInOrder, StartsItself, StopInOrder
        <3>3. ASSUME starting[entry].at = "private mode" PROVE FALSE
            <4>1. starting[entry].of = entry
                BY <1>1, <3>3 DEF InOrder, StartsInOrder, StartsItself
            <4>2. starting[entry] = StartAt("private mode", entry)
                BY <1>1, <3>3, <4>1 DEF StartAt, StreamPartsTypeOK
            <4>3. QED
                BY <1>1, <1>2, <4>2 DEF StopContinues
        <3>4. QED
            BY <3>1, <3>2, <3>3
    <2>6. starting[entry].at \in {"none", "joining"}
        BY <1>1, <2>5 DEF StreamPartsTypeOK, StartStep
    <2>7. \A x \in Delivery : x # entry => Same(x)
        BY <2>2, <2>4 DEF Same
    <2>8. NotCreatedYet' /\ LeftTheMap' /\ StartsInOrder'
        <3>1. NotCreatedYet' /\ LeftTheMap'
            BY <1>1, <2>4, <2>7, SameKept DEF InOrder, NotCreatedYet, LeftTheMap
        <3>2. StartsInOrder'
            BY <2>4 DEF InOrder, StartsInOrder, StartsItself
        <3>3. QED
            BY <3>1, <3>2
    <2>9. EntryInOrder'
        BY <2>1, <2>4, <2>6 DEF EntryInOrder, InTheMap
    <2>10. ~record'
        BY <1>1, <2>3 DEF InOrder, RecordsInOrder
    <2>11. StopsInOrder'
        BY <1>1, <2>1, <2>2, <2>4, <2>6, <2>10 DEF StopsInOrder, StopInOrder
    <2>12. MapIsWanted' /\ RecordsInOrder'
        BY <2>1, <2>4, <2>10 DEF InOrder, MapIsWanted, RecordsInOrder
    <2>13. QED
        BY <2>8, <2>9, <2>11, <2>12 DEF InOrder
<1>3. CASE StopEnds(s)
    <2>1. stopping' = {} /\ entry' = 0 /\ s.at = "stopped"
        BY <1>1, <1>3 DEF StopEnds
    <2>2. UNCHANGED <<created, proxied, layers, starting, aborted, localStored, storing, keeping,
                     reconnecting, record, wanted>>
        BY <1>3 DEF StopEnds, delivery
    <2>3. Gone(entry)
        BY <1>1, <2>1 DEF StopInOrder, Gone
    <2>4. \A x : Same(x)
        BY <2>2 DEF Same
    <2>5. NotCreatedYet' /\ StartsInOrder'
        BY <2>2, <2>4, SameKept DEF InOrder, NotCreatedYet, StartsInOrder
    <2>6. LeftTheMap'
        BY <2>2, <2>3, <2>4, SameKept DEF InOrder, LeftTheMap
    <2>7. EntryInOrder' /\ StopsInOrder'
        BY <2>1 DEF EntryInOrder, StopsInOrder
    <2>8. ~record /\ wanted = "none"
        BY <1>1, <2>1 DEF StopInOrder
    <2>9. 0 \notin aborted
        BY DEF StreamPartsTypeOK
    <2>10. MapIsWanted' /\ RecordsInOrder'
        BY <2>1, <2>2, <2>8, <2>9 DEF InOrder, MapIsWanted, RecordsInOrder
    <2>11. QED
        BY <2>5, <2>6, <2>7, <2>10 DEF InOrder
<1>4. QED
    BY <1>2, <1>3

\* It holds before the first call.
LEMMA PartsInitially == StreamPartsInit => PartsInv
<1> SUFFICES ASSUME StreamPartsInit PROVE PartsInv
    OBVIOUS
<1> USE StreamPartsAssumption DEF StreamPartsInit
<1>1. {record, privateMode, knownEntryPoints, destroyed, overlapped} \subseteq BOOLEAN
    BY Zenon
<1>2. starting \in [Delivery -> [at : StartStep, of : 0 .. MaxDeliveries]]
    BY DEF StartAt, StartStep
<1>3. StreamPartsTypeOK
    BY <1>1, <1>2 DEF StreamPartsTypeOK, Layer
<1>4. \A d \in Delivery : Untouched(d) /\ StartsItself(d)
    BY DEF Untouched, StartsItself, StartAt
<1>5. \A d \in Delivery : ~(d <= created)
    BY DEF Delivery
<1>6. NotCreatedYet /\ LeftTheMap /\ StartsInOrder
    BY <1>4, <1>5 DEF NotCreatedYet, LeftTheMap, StartsInOrder
<1>7. EntryInOrder /\ StopsInOrder /\ MapIsWanted /\ RecordsInOrder
    BY DEF EntryInOrder, StopsInOrder, MapIsWanted, RecordsInOrder
<1>8. StartsADelivery
    BY DEF StartsADelivery, StartAt
<1>9. QED
    BY <1>3, <1>6, <1>7, <1>8 DEF PartsInv, InOrder

\* Every step keeps it.
LEMMA PartsInductive == PartsInv /\ [StreamPartsNext]_partVars => PartsInv'
<1> SUFFICES ASSUME PartsInv, [StreamPartsNext]_partVars PROVE PartsInv'
    OBVIOUS
<1>1. StreamPartsTypeOK' /\ StartsADelivery'
    BY PartsTypes, StartsTyped DEF PartsInv
<1>2. overlapped => overlapped'
    BY DEF StreamPartsNext, partVars, Join, Leave, SetProxies, Destroy, StopOverlap, StopContinues, StopEnds,
           RecordExpires, StoreLocalNode, KeepLocalNode, AvoidNetworkSplitEnds, StartReadsMap, PrivateModeDisabled,
           StartJoins, ManualRejoin, Reconnect, EntryPointLeaves
<1>3. ASSUME ~overlapped' PROVE InOrder'
    <2>1. StreamPartsTypeOK /\ InOrder /\ ~overlapped
        BY <1>2, <1>3 DEF PartsInv
    <2>2. CASE Join \/ SetProxies \/ Leave \/ Destroy
        BY <1>3, <2>1, <2>2, CallsInOrder
    <2>3. ASSUME NEW s \in stopping, StopContinues(s) \/ StopEnds(s) PROVE InOrder'
        BY <1>3, <2>1, <2>3, StopsKeepOrder
    <2>4. ASSUME UNCHANGED <<entry, created, proxied, stopping, wanted, layers, starting, aborted, localStored, storing,
                             keeping, reconnecting>>, record' => record
          PROVE InOrder'
        <3>1. \A x : Same(x)
            BY <2>4 DEF Same
        <3>2. NotCreatedYet' /\ LeftTheMap' /\ StartsInOrder'
            BY <2>1, <2>4, <3>1, SameKept DEF InOrder, NotCreatedYet, LeftTheMap, StartsInOrder
        <3>3. EntryInOrder' /\ MapIsWanted' /\ RecordsInOrder'
            BY <2>1, <2>4 DEF InOrder, EntryInOrder, InTheMap, MapIsWanted, RecordsInOrder
        <3>4. StopsInOrder'
            BY <2>1, <2>4 DEF InOrder, StopsInOrder, StopInOrder
        <3>5. QED
            BY <3>2, <3>3, <3>4 DEF InOrder
    <2>5. CASE RecordExpires
        BY <2>4, <2>5 DEF RecordExpires, delivery
    <2>6. ASSUME NEW d \in Delivery, AvoidNetworkSplitEnds(d) PROVE InOrder'
        BY <2>4, <2>6 DEF AvoidNetworkSplitEnds
    <2>7. CASE UNCHANGED partVars
        BY <2>4, <2>7 DEF partVars, delivery
    <2>8. QED
        BY <2>1, <2>2, <2>3, <2>5, <2>6, <2>7, DeliveriesInOrder DEF StreamPartsNext
<1>4. QED
    BY <1>1, <1>3 DEF PartsInv

\* The types of a stream part, whatever calls overlap.
THEOREM PartsTypeCorrect == StreamPartsSpec => []StreamPartsTypeOK
<1>1. PartsInv => StreamPartsTypeOK
    BY DEF PartsInv
<1>2. QED
    BY <1>1, PartsInitially, PartsInductive, PTL DEF StreamPartsSpec

\* Once every call and start is over, the part is what the last call asked for, unless a call came while a stop()
\* it knows nothing of was in progress (ContentDeliveryManager.joinStreamPart, leaveStreamPart, setProxies, destroy).
THEOREM LastCallAlwaysWins == StreamPartsSpec => []LastCallWins
<1>1. PartsInv => LastCallWins
    <2> SUFFICES ASSUME PartsInv, Quiet, ~overlapped
                 PROVE  /\ (entry = 0) = (wanted = "none")
                        /\ entry # 0 => (entry \in proxied) = (wanted = "proxied")
                        /\ \A d \in Delivery : (layers[d] = "running") = (d = entry)
                        /\ keeping \subseteq {entry} \ proxied
                        /\ record => entry \in localStored
        BY DEF LastCallWins
    <2> USE EntryIsCreated
    <2>1. StreamPartsTypeOK /\ InOrder
        BY DEF PartsInv
    <2>2. \A d \in Delivery : d # entry => layers[d] # "running" /\ d \notin keeping
        BY <2>1 DEF InOrder, NotCreatedYet, LeftTheMap, Untouched, Gone
    <2>3. entry # 0 => layers[entry] = "running"
        BY <2>1 DEF InOrder, EntryInOrder, InTheMap, Quiet
    <2>4. keeping \subseteq {entry} \ proxied
        BY <2>1, <2>2 DEF InOrder, RecordsInOrder, StreamPartsTypeOK
    <2>5. (entry = 0) = (wanted = "none") /\ (entry # 0 => (entry \in proxied) = (wanted = "proxied"))
        BY <2>1 DEF InOrder, MapIsWanted, Quiet
    <2>6. \A d \in Delivery : (layers[d] = "running") = (d = entry)
        BY <2>1, <2>2, <2>3
    <2>7. record => entry \in localStored
        BY <2>1 DEF InOrder, RecordsInOrder
    <2>8. QED
        BY <2>4, <2>5, <2>6, <2>7
<1>2. QED
    BY <1>1, PartsInitially, PartsInductive, PTL DEF StreamPartsSpec

-----------------------------------------------------------------------------
(* Webrtc: EndOK is about one node, its attempt a and its connections R.   *)

RtcId == {<<>>} \cup (RtcPeer \X Instance)
RtcRecord ==
    [at : {"none", "open", "closed"}, id : RtcId, remoteDescriptionSet : BOOLEAN, described : BOOLEAN,
     early : BOOLEAN, pending : {"none", "waiting", "connected", "closed"}, listened : BOOLEAN]
ChannelRecord == [buffered : 0 .. High, queue : Nat, lowEvent : BOOLEAN, written : Nat]

\* Can the connection still become connected?
StillWaits(c) == c.at = "open" /\ c.pending = "waiting"

\* delFunc() is registered for the very connection of the attempt.
EndOK(a, R) ==
    \A k \in Instance :
        /\ (a = k) <=> StillWaits(R[k])
        /\ R[k].listened <=> StillWaits(R[k])

WebrtcTypes ==
    /\ attempt \in [RtcPeer -> Instance \cup {NoAttempt}] /\ made \in [RtcPeer -> 0 .. MaxAttempts]
    /\ rtc \in [RtcPeer -> [Instance -> RtcRecord]]
    /\ signals \subseteq [to : RtcPeer, kind : {"request", "offer", "answer", "candidate"}, id : RtcId]
    /\ channel \in ChannelRecord

WebrtcInv == WebrtcTypes /\ (\A n \in RtcPeer : EndOK(attempt[n], rtc[n])) /\ QueueIsDrained

\* A connection made for the attempt, one whose state stays, and one that stops waiting.
LEMMA EndKept ==
    ASSUME NEW R \in [Instance -> RtcRecord], NEW a \in Instance \cup {NoAttempt}, EndOK(a, R),
           NEW k \in Instance, NEW c \in RtcRecord, NEW b,
           \/ b = a /\ (StillWaits(c) <=> StillWaits(R[k])) /\ (c.listened <=> R[k].listened)
           \/ a = NoAttempt /\ b = k /\ StillWaits(c) /\ c.listened
           \/ b = (IF R[k].listened THEN NoAttempt ELSE a) /\ ~StillWaits(c) /\ ~c.listened
    PROVE  EndOK(b, [R EXCEPT ![k] = c]) /\ b \in Instance \cup {NoAttempt}
<1> PICK S : S = [R EXCEPT ![k] = c]
    OBVIOUS
<1>1. S[k] = c /\ \A j \in Instance : j # k => S[j] = R[j]
    OBVIOUS
<1>2. \A j \in Instance : j # NoAttempt
    BY DEF Instance, NoAttempt
<1>3. ASSUME NEW j \in Instance
      PROVE  /\ (b = j) <=> StillWaits(S[j])
             /\ S[j].listened <=> StillWaits(S[j])
    <2>1. /\ (a = j) <=> StillWaits(R[j])
          /\ R[j].listened <=> StillWaits(R[j])
          /\ (a = k) <=> StillWaits(R[k])
          /\ R[k].listened <=> StillWaits(R[k])
        BY DEF EndOK
    <2>2. CASE j = k
        BY <1>1, <1>2, <2>1, <2>2
    <2>3. CASE j # k
        BY <1>1, <1>2, <2>1, <2>3
    <2>4. QED
        BY <2>2, <2>3
<1>4. QED
    BY <1>1, <1>3 DEF EndOK

\* One connection of one node changes in one of these ways.
LEMMA OneEndChanges ==
    ASSUME WebrtcInv, NEW n \in RtcPeer, NEW k \in Instance, NEW c \in RtcRecord, NEW b,
           \/ b = attempt[n] /\ (StillWaits(c) <=> StillWaits(rtc[n][k])) /\ (c.listened <=> rtc[n][k].listened)
           \/ attempt[n] = NoAttempt /\ b = k /\ StillWaits(c) /\ c.listened
           \/ b = (IF rtc[n][k].listened THEN NoAttempt ELSE attempt[n]) /\ ~StillWaits(c) /\ ~c.listened,
           attempt' = [attempt EXCEPT ![n] = b], rtc' = [rtc EXCEPT ![n] = [rtc[n] EXCEPT ![k] = c]],
           made' \in [RtcPeer -> 0 .. MaxAttempts],
           signals' \subseteq [to : RtcPeer, kind : {"request", "offer", "answer", "candidate"}, id : RtcId],
           UNCHANGED channel
    PROVE  WebrtcInv'
<1>1. /\ attempt \in [RtcPeer -> Instance \cup {NoAttempt}] /\ rtc \in [RtcPeer -> [Instance -> RtcRecord]]
      /\ channel \in ChannelRecord /\ QueueIsDrained /\ \A m \in RtcPeer : EndOK(attempt[m], rtc[m])
    BY DEF WebrtcInv, WebrtcTypes
<1> PICK S : S = [rtc[n] EXCEPT ![k] = c]
    OBVIOUS
<1>2. EndOK(b, S) /\ b \in Instance \cup {NoAttempt}
    BY <1>1, EndKept
<1>3. S \in [Instance -> RtcRecord]
    BY <1>1
<1>4. attempt' \in [RtcPeer -> Instance \cup {NoAttempt}] /\ rtc' \in [RtcPeer -> [Instance -> RtcRecord]]
    BY <1>1, <1>2, <1>3
<1>5. \A m \in RtcPeer : EndOK(attempt'[m], rtc'[m])
    BY <1>1, <1>2
<1>6. WebrtcTypes'
    BY <1>1, <1>4 DEF WebrtcTypes
<1>7. QueueIsDrained'
    BY <1>1 DEF QueueIsDrained
<1>8. QED
    BY <1>5, <1>6, <1>7 DEF WebrtcInv

\* What the invariant says of one connection.
LEMMA OneEnd ==
    ASSUME WebrtcInv, NEW n \in RtcPeer, NEW k \in Instance
    PROVE  /\ rtc[n][k] \in RtcRecord /\ attempt[n] \in Instance \cup {NoAttempt} /\ made[n] \in 0 .. MaxAttempts
           /\ (attempt[n] = k) <=> StillWaits(rtc[n][k])
           /\ rtc[n][k].listened <=> StillWaits(rtc[n][k])
BY DEF WebrtcInv, WebrtcTypes, EndOK

LEMMA NewIsWaiting ==
    ASSUME NEW n \in RtcPeer, NEW k \in Instance
    PROVE  NewConnection(n, k) \in RtcRecord /\ StillWaits(NewConnection(n, k)) /\ NewConnection(n, k).listened
<1>1. <<n, k>> \in RtcId
    BY DEF RtcId
<1>2. QED
    BY <1>1 DEF NewConnection, RtcRecord, StillWaits

LEMMA DescribedWaits ==
    ASSUME NEW c \in RtcRecord, NEW id \in RtcId, NEW d, d = Described(c, id)
    PROVE  d \in RtcRecord /\ (StillWaits(d) <=> StillWaits(c)) /\ (d.listened <=> c.listened)
<1>1. d \in RtcRecord /\ d.at = c.at /\ d.pending = c.pending /\ d.listened = c.listened
    BY DEF RtcRecord, Described
<1>2. QED
    BY <1>1 DEF StillWaits

LEMMA ClosedRecord ==
    ASSUME NEW c \in RtcRecord, NEW p \in {"none", "waiting", "connected", "closed"}, NEW d,
           d = [c EXCEPT !.at = "closed", !.early = FALSE, !.listened = FALSE, !.pending = p]
    PROVE  d \in RtcRecord /\ d.at = "closed" /\ ~d.listened
BY DEF RtcRecord

\* Closing: the PendingConnection and the attempt go with the connection.
LEMMA CloseKeeps ==
    ASSUME WebrtcInv, NEW n \in RtcPeer, NEW k \in Instance, DoClose(n, k), made' = made,
           signals' \subseteq signals, UNCHANGED channel
    PROVE  WebrtcInv'
<1> PICK p : p = IF rtc[n][k].pending = "waiting" THEN "closed" ELSE rtc[n][k].pending
    OBVIOUS
<1> PICK d : d = [rtc[n][k] EXCEPT !.at = "closed", !.early = FALSE, !.listened = FALSE, !.pending = p]
    OBVIOUS
<1>1. rtc[n][k] \in RtcRecord
    BY OneEnd
<1>2. p \in {"none", "waiting", "connected", "closed"}
    BY <1>1 DEF RtcRecord
<1>3. d \in RtcRecord /\ ~StillWaits(d) /\ ~d.listened
    BY <1>1, <1>2, ClosedRecord DEF StillWaits
<1>4. rtc' = [rtc EXCEPT ![n] = [rtc[n] EXCEPT ![k] = d]]
    BY DEF DoClose
<1> PICK b : b = IF rtc[n][k].listened THEN NoAttempt ELSE attempt[n]
    OBVIOUS
<1>5. attempt \in [RtcPeer -> Instance \cup {NoAttempt}]
    BY DEF WebrtcInv, WebrtcTypes
<1>6. attempt' = [attempt EXCEPT ![n] = b]
    BY <1>5 DEF DoClose, DelFunc
<1>7. made' \in [RtcPeer -> 0 .. MaxAttempts]
      /\ signals' \subseteq [to : RtcPeer, kind : {"request", "offer", "answer", "candidate"}, id : RtcId]
    BY DEF WebrtcInv, WebrtcTypes
<1>8. QED
    BY <1>3, <1>4, <1>6, <1>7, OneEndChanges

LEMMA ConnectKeeps ==
    ASSUME WebrtcInv, NEW n \in RtcPeer, attempt[n] = NoAttempt, Connect(n), UNCHANGED channel,
           signals' \subseteq [to : RtcPeer, kind : {"request", "offer", "answer", "candidate"}, id : RtcId]
    PROVE  WebrtcInv'
<1> PICK k : k = made[n] + 1
    OBVIOUS
<1>1. made \in [RtcPeer -> 0 .. MaxAttempts] /\ MaxAttempts \in Nat /\ made[n] < MaxAttempts
    BY WebrtcAssumption DEF WebrtcInv, WebrtcTypes, Connect
<1>2. k \in Instance
    BY <1>1 DEF Instance
<1>3. made' \in [RtcPeer -> 0 .. MaxAttempts]
    BY <1>1 DEF Connect
<1>4. attempt' = [attempt EXCEPT ![n] = k] /\ rtc' = [rtc EXCEPT ![n] = [rtc[n] EXCEPT ![k] = NewConnection(n, k)]]
    BY DEF Connect
<1>5. QED
    BY <1>2, <1>3, <1>4, NewIsWaiting, OneEndChanges

\* A connection of the attempt, or another, whose waiting does not change.
LEMMA StayKeeps ==
    ASSUME WebrtcInv, NEW n \in RtcPeer, NEW k \in Instance, NEW c \in RtcRecord,
           StillWaits(c) <=> StillWaits(rtc[n][k]), c.listened <=> rtc[n][k].listened,
           rtc' = [rtc EXCEPT ![n] = [rtc[n] EXCEPT ![k] = c]], UNCHANGED <<attempt, made, channel>>,
           signals' \subseteq [to : RtcPeer, kind : {"request", "offer", "answer", "candidate"}, id : RtcId]
    PROVE  WebrtcInv'
<1>1. attempt' = [attempt EXCEPT ![n] = attempt[n]] /\ made' \in [RtcPeer -> 0 .. MaxAttempts]
    BY DEF WebrtcInv, WebrtcTypes
<1> PICK b : b = attempt[n]
    OBVIOUS
<1>2. attempt' = [attempt EXCEPT ![n] = b]
    BY <1>1
<1>3. QED
    BY <1>1, <1>2, OneEndChanges

\* Only signals change.
LEMMA SignalsKeep ==
    ASSUME WebrtcInv, UNCHANGED <<attempt, made, rtc, channel>>,
           signals' \subseteq [to : RtcPeer, kind : {"request", "offer", "answer", "candidate"}, id : RtcId]
    PROVE  WebrtcInv'
BY DEF WebrtcInv, WebrtcTypes, QueueIsDrained

LEMMA SignalMade ==
    ASSUME NEW to \in RtcPeer, NEW kind \in {"request", "offer", "answer", "candidate"}, NEW id \in RtcId
    PROVE  Signal(to, kind, id) \in [to : RtcPeer, kind : {"request", "offer", "answer", "candidate"}, id : RtcId]
BY DEF Signal

LEMMA DescriptionKeeps ==
    ASSUME WebrtcInv, NEW n \in RtcPeer, NEW k \in Instance, LocalDescription(n, k) \/ LocalCandidate(n, k)
    PROVE  WebrtcInv'
<1>1. rtc[n][k] \in RtcRecord /\ Opposite(n) \in RtcPeer
    BY OneEnd DEF Opposite, RtcPeer
<1>2. rtc[n][k].id \in RtcId
    BY <1>1 DEF RtcRecord
<1>3. PICK kind \in {"request", "offer", "answer", "candidate"} :
          signals' = signals \cup {Signal(Opposite(n), kind, rtc[n][k].id)}
    BY DEF LocalDescription, LocalCandidate
<1>4. signals' \subseteq [to : RtcPeer, kind : {"request", "offer", "answer", "candidate"}, id : RtcId]
    BY <1>1, <1>2, <1>3, SignalMade DEF WebrtcInv, WebrtcTypes
<1>5. CASE LocalDescription(n, k)
    <2> PICK d : d = [rtc[n][k] EXCEPT !.described = TRUE]
        OBVIOUS
    <2>1. d \in RtcRecord /\ d.at = rtc[n][k].at /\ d.pending = rtc[n][k].pending /\ d.listened = rtc[n][k].listened
        BY <1>1 DEF RtcRecord
    <2>2. rtc' = [rtc EXCEPT ![n] = [rtc[n] EXCEPT ![k] = d]] /\ UNCHANGED <<attempt, made, channel>>
        BY <1>5 DEF LocalDescription
    <2>3. (StillWaits(d) <=> StillWaits(rtc[n][k])) /\ (d.listened <=> rtc[n][k].listened)
        BY <2>1 DEF StillWaits
    <2>4. QED
        BY <1>4, <2>1, <2>2, <2>3, StayKeeps
<1>6. CASE LocalCandidate(n, k)
    BY <1>4, <1>6, SignalsKeep DEF LocalCandidate
<1>7. QED
    BY <1>5, <1>6

\* What a signal carries.
LEMMA SignalFields ==
    ASSUME WebrtcInv, NEW s \in signals
    PROVE  s.to \in RtcPeer /\ s.id \in RtcId
BY DEF WebrtcInv, WebrtcTypes

\* The offerer's offer: to the connection of the attempt, or to a new one.
LEMMA OfferKeeps ==
    ASSUME WebrtcInv, NEW s \in signals, RtcOffer(s)
    PROVE  WebrtcInv'
<1> PICK n : n = "answerer"
    OBVIOUS
<1> PICK k : k = IF attempt[n] = NoAttempt THEN made[n] + 1 ELSE attempt[n]
    OBVIOUS
<1> PICK c : c = IF attempt[n] = NoAttempt THEN NewConnection(n, k) ELSE rtc[n][k]
    OBVIOUS
<1> PICK d : d = Described(c, s.id)
    OBVIOUS
<1>1. n \in RtcPeer /\ MaxAttempts \in Nat \ {0} /\ s.id \in RtcId
    BY WebrtcAssumption, SignalFields DEF RtcPeer
<1>2. /\ made \in [RtcPeer -> 0 .. MaxAttempts] /\ attempt \in [RtcPeer -> Instance \cup {NoAttempt}]
      /\ signals' \subseteq [to : RtcPeer, kind : {"request", "offer", "answer", "candidate"}, id : RtcId]
    BY DEF WebrtcInv, WebrtcTypes, RtcOffer
<1>3. k <= MaxAttempts /\ attempt' = [attempt EXCEPT ![n] = k] /\ UNCHANGED channel
    BY DEF RtcOffer
<1>4. k \in Instance
    <2>1. attempt[n] \in Instance \cup {NoAttempt} /\ made[n] \in Nat
        BY <1>1, <1>2
    <2>2. QED
        BY <1>1, <1>3, <2>1 DEF Instance
<1>5. rtc' = [rtc EXCEPT ![n] = [rtc[n] EXCEPT ![k] = d]]
    BY DEF RtcOffer
<1>6. made' \in [RtcPeer -> 0 .. MaxAttempts]
    <2>1. made' = [made EXCEPT ![n] = IF k > made[n] THEN k ELSE made[n]]
        BY DEF RtcOffer
    <2>2. k \in 0 .. MaxAttempts /\ made[n] \in 0 .. MaxAttempts
        BY <1>1, <1>2, <1>3, <1>4 DEF Instance
    <2>3. QED
        BY <1>2, <2>1, <2>2
<1>7. CASE attempt[n] = NoAttempt
    <2>1. c \in RtcRecord /\ StillWaits(c) /\ c.listened
        BY <1>1, <1>4, <1>7, NewIsWaiting
    <2>2. d \in RtcRecord /\ StillWaits(d) /\ d.listened
        BY <1>1, <2>1, DescribedWaits
    <2>3. QED
        BY <1>1, <1>2, <1>3, <1>4, <1>5, <1>6, <1>7, <2>2, OneEndChanges
<1>8. CASE attempt[n] # NoAttempt
    <2>1. c = rtc[n][k] /\ c \in RtcRecord /\ k = attempt[n]
        BY <1>1, <1>4, <1>8, OneEnd
    <2>2. d \in RtcRecord /\ (StillWaits(d) <=> StillWaits(c)) /\ (d.listened <=> c.listened)
        BY <1>1, <2>1, DescribedWaits
    <2>3. QED
        <3>1. k = attempt[n] /\ (StillWaits(d) <=> StillWaits(rtc[n][k])) /\ (d.listened <=> rtc[n][k].listened)
            BY <2>1, <2>2
        <3>2. QED
            BY <1>1, <1>2, <1>3, <1>4, <1>5, <1>6, <2>2, <3>1, OneEndChanges
<1>9. QED
    BY <1>7, <1>8

LEMMA SignalKeeps ==
    ASSUME WebrtcInv, NEW s \in signals, RequestConnection(s) \/ RtcAnswer(s) \/ RemoteCandidate(s)
    PROVE  WebrtcInv'
<1>1. s.to \in RtcPeer /\ s.id \in RtcId
    BY SignalFields
<1>2. /\ signals' \subseteq signals /\ UNCHANGED channel
      /\ signals' \subseteq [to : RtcPeer, kind : {"request", "offer", "answer", "candidate"}, id : RtcId]
    BY DEF WebrtcInv, WebrtcTypes, RequestConnection, RtcAnswer, RemoteCandidate
<1>3. attempt[s.to] # NoAttempt => attempt[s.to] \in Instance
    BY <1>1 DEF WebrtcInv, WebrtcTypes
<1>4. CASE RequestConnection(s)
    <2>1. CASE attempt[s.to] # NoAttempt
        BY <1>2, <1>4, <2>1, SignalsKeep DEF RequestConnection
    <2>2. CASE attempt[s.to] = NoAttempt
        <3>1. Connect(s.to)
            BY <1>4, <2>2 DEF RequestConnection
        <3>2. QED
            BY <1>1, <1>2, <2>2, <3>1, ConnectKeeps
    <2>3. QED
        BY <2>1, <2>2
<1>5. CASE RtcAnswer(s)
    <2>1. CASE IsForAttempt(s)
        <3> PICK k : k = attempt[s.to]
            OBVIOUS
        <3> PICK d : d = Described(rtc[s.to][k], s.id)
            OBVIOUS
        <3>1. k \in Instance
            BY <1>3, <2>1 DEF IsForAttempt
        <3>2. rtc[s.to][k] \in RtcRecord
            BY <1>1, <3>1, OneEnd
        <3>3. rtc' = [rtc EXCEPT ![s.to] = [rtc[s.to] EXCEPT ![k] = d]] /\ UNCHANGED <<attempt, made, channel>>
            BY <1>5, <2>1 DEF RtcAnswer
        <3>4. d \in RtcRecord /\ (StillWaits(d) <=> StillWaits(rtc[s.to][k])) /\ (d.listened <=> rtc[s.to][k].listened)
            BY <1>1, <3>2, DescribedWaits
        <3>5. QED
            BY <1>1, <1>2, <3>1, <3>3, <3>4, StayKeeps
    <2>2. CASE ~IsForAttempt(s)
        BY <1>2, <1>5, <2>2, SignalsKeep DEF RtcAnswer
    <2>3. QED
        BY <2>1, <2>2
<1>6. CASE RemoteCandidate(s)
    <2>1. made' = made
        BY <1>6 DEF RemoteCandidate
    <2>2. CASE IsForAttempt(s) /\ ~rtc[s.to][attempt[s.to]].remoteDescriptionSet
        <3>1. DoClose(s.to, attempt[s.to]) /\ attempt[s.to] \in Instance
            BY <1>3, <1>6, <2>2 DEF RemoteCandidate, IsForAttempt
        <3>2. QED
            BY <1>1, <1>2, <2>1, <3>1, CloseKeeps
    <2>3. CASE ~(IsForAttempt(s) /\ ~rtc[s.to][attempt[s.to]].remoteDescriptionSet)
        <3>1. UNCHANGED <<attempt, rtc>>
            BY <1>6, <2>3 DEF RemoteCandidate
        <3>2. QED
            BY <1>2, <2>1, <3>1, SignalsKeep
    <2>4. QED
        BY <2>2, <2>3
<1>7. QED
    BY <1>4, <1>5, <1>6

\* The handshake is completed: the PendingConnection has done its part.
LEMMA CompletedKeeps ==
    ASSUME WebrtcInv, NEW n \in RtcPeer, NEW k \in Instance, HandshakeCompleted(n, k)
    PROVE  WebrtcInv'
<1> PICK d : d = [rtc[n][k] EXCEPT !.pending = "connected", !.listened = FALSE]
    OBVIOUS
<1>1. rtc[n][k] \in RtcRecord
    BY OneEnd
<1>2. d \in RtcRecord /\ d.pending = "connected" /\ ~d.listened
    BY <1>1 DEF RtcRecord
<1>3. ~StillWaits(d)
    BY <1>2 DEF StillWaits
<1>4. rtc' = [rtc EXCEPT ![n] = [rtc[n] EXCEPT ![k] = d]]
    BY DEF HandshakeCompleted
<1> PICK b : b = IF rtc[n][k].listened THEN NoAttempt ELSE attempt[n]
    OBVIOUS
<1>5. attempt \in [RtcPeer -> Instance \cup {NoAttempt}]
    BY DEF WebrtcInv, WebrtcTypes
<1>6. attempt' = [attempt EXCEPT ![n] = b]
    BY <1>5 DEF HandshakeCompleted, DelFunc
<1>7. /\ made' \in [RtcPeer -> 0 .. MaxAttempts] /\ UNCHANGED channel
      /\ signals' \subseteq [to : RtcPeer, kind : {"request", "offer", "answer", "candidate"}, id : RtcId]
    BY DEF WebrtcInv, WebrtcTypes, HandshakeCompleted
<1>8. QED
    BY <1>2, <1>3, <1>4, <1>6, <1>7, OneEndChanges

\* The data channel: the queue is filled above the upper threshold only, and drained at the lower one.
LEMMA ChannelKeeps ==
    ASSUME WebrtcInv, ChannelNext
    PROVE  WebrtcInv'
<1>0. channel \in ChannelRecord
    BY DEF WebrtcInv, WebrtcTypes
<1>1. /\ channel \in ChannelRecord /\ channel.buffered \in 0 .. High /\ channel.queue \in Nat /\ channel.written \in Nat
      /\ channel.lowEvent \in BOOLEAN
      /\ Low \in Nat /\ High \in Nat /\ Low < High /\ (channel.queue > 0 => (channel.buffered > Low \/ channel.lowEvent))
    BY WebrtcAssumption DEF WebrtcInv, WebrtcTypes, QueueIsDrained, ChannelRecord
<1>2. channel' \in ChannelRecord /\ (channel'.queue > 0 => (channel'.buffered > Low \/ channel'.lowEvent))
    <2>1. CASE WriteToChannel
        <3>1. CASE channel.buffered < High
            <4>1. channel' = Channel(channel.buffered + 1, channel.queue, channel.lowEvent, channel.written + 1)
                BY <2>1, <3>1 DEF WriteToChannel
            <4>2. channel.buffered + 1 \in 0 .. High /\ channel.written + 1 \in Nat
                BY <1>1, <3>1
            <4>3. channel' \in ChannelRecord /\ channel'.buffered = channel.buffered + 1
                  /\ channel'.queue = channel.queue /\ (channel'.lowEvent <=> channel.lowEvent)
                BY <1>1, <4>1, <4>2 DEF Channel, ChannelRecord
            <4>4. QED
                BY <1>1, <4>3
        <3>2. CASE ~(channel.buffered < High)
            <4>1. channel' = Channel(channel.buffered, channel.queue + 1, channel.lowEvent, channel.written + 1)
                BY <2>1, <3>2 DEF WriteToChannel
            <4>2. channel.queue + 1 \in Nat /\ channel.written + 1 \in Nat
                BY <1>1
            <4>3. channel' \in ChannelRecord /\ channel'.buffered = channel.buffered
                BY <1>1, <4>1, <4>2 DEF Channel, ChannelRecord
            <4>4. QED
                BY <1>1, <3>2, <4>3
        <3>3. QED
            BY <3>1, <3>2
    <2>2. CASE Transmit
        <3> PICK low \in BOOLEAN : low = (channel.lowEvent \/ channel.buffered = Low + 1)
            OBVIOUS
        <3>0. (channel.lowEvent => low) /\ (channel.buffered = Low + 1 => low)
            BY Zenon
        <3>1. channel.buffered > 0
            BY <2>2 DEF Transmit
        <3>2. channel' = Channel(channel.buffered - 1, channel.queue, low, channel.written)
            BY <2>2 DEF Transmit
        <3>3. channel.buffered - 1 \in 0 .. High
            BY <1>1, <3>1
        <3>4. channel' \in ChannelRecord /\ channel'.buffered = channel.buffered - 1
              /\ channel'.queue = channel.queue /\ (channel'.lowEvent <=> low)
            BY <1>1, <3>2, <3>3 DEF Channel, ChannelRecord
        <3>5. channel.queue > 0 => (channel.buffered - 1 > Low \/ channel.lowEvent \/ channel.buffered = Low + 1)
            BY <1>1, <3>1
        <3>6. channel.queue > 0 => (channel.buffered - 1 > Low \/ low)
            BY <3>0, <3>5, Zenon
        <3>7. QED
            BY <3>4, <3>6
    <2>3. CASE OnBufferedAmountLow
        <3>0. DrainedCount \in Nat /\ DrainedCount <= channel.queue /\ DrainedCount <= High - channel.buffered
              /\ (DrainedCount = channel.queue \/ DrainedCount = High - channel.buffered)
            BY <1>1 DEF DrainedCount
        <3>1. channel' = Channel(channel.buffered + DrainedCount, channel.queue - DrainedCount, FALSE, channel.written)
            BY <2>3 DEF OnBufferedAmountLow
        <3>2. channel.buffered + DrainedCount \in 0 .. High /\ channel.queue - DrainedCount \in Nat
            BY <1>1, <3>0
        <3>3. channel' \in ChannelRecord /\ channel'.buffered = channel.buffered + DrainedCount
              /\ channel'.queue = channel.queue - DrainedCount
            BY <1>1, <3>1, <3>2 DEF Channel, ChannelRecord
        <3>4. QED
            BY <1>1, <3>0, <3>3
    <2>4. QED
        BY <2>1, <2>2, <2>3 DEF ChannelNext
<1>3. UNCHANGED <<attempt, made, rtc, signals>>
    BY DEF ChannelNext, WriteToChannel, Transmit, OnBufferedAmountLow, ChannelOnly
<1>4. QED
    BY <1>2, <1>3 DEF WebrtcInv, WebrtcTypes, QueueIsDrained

LEMMA WebrtcInductive == WebrtcInv /\ [WebrtcNext \/ ChannelNext]_webrtcVars => WebrtcInv'
<1> SUFFICES ASSUME WebrtcInv, [WebrtcNext \/ ChannelNext]_webrtcVars PROVE WebrtcInv'
    OBVIOUS
<1>1. ASSUME NEW n \in RtcPeer, ConnectsByItself(n) PROVE WebrtcInv'
    <2>1. <<>> \in RtcId /\ "offerer" \in RtcPeer
        BY DEF RtcId, RtcPeer
    <2>2. Signal("offerer", "request", <<>>) \in [to : RtcPeer, kind : {"request", "offer", "answer", "candidate"}, id : RtcId]
        BY <2>1, SignalMade
    <2>3. signals' \subseteq [to : RtcPeer, kind : {"request", "offer", "answer", "candidate"}, id : RtcId]
        BY <1>1, <2>2 DEF ConnectsByItself, WebrtcInv, WebrtcTypes
    <2>4. QED
        BY <1>1, <2>3, ConnectKeeps DEF ConnectsByItself
<1>2. ASSUME NEW n \in RtcPeer, Stop(n) PROVE WebrtcInv'
    <2>1. CASE attempt[n] = NoAttempt
        <3>1. UNCHANGED <<attempt, rtc, made, signals, channel>>
            BY <1>2, <2>1 DEF Stop
        <3>2. QED
            BY <3>1 DEF WebrtcInv, WebrtcTypes, QueueIsDrained
    <2>2. CASE attempt[n] # NoAttempt
        <3>1. DoClose(n, attempt[n]) /\ UNCHANGED <<made, signals, channel>>
            BY <1>2, <2>2 DEF Stop
        <3>2. attempt[n] \in Instance
            BY <2>2 DEF WebrtcInv, WebrtcTypes
        <3>3. QED
            BY <3>1, <3>2, CloseKeeps
    <2>3. QED
        BY <2>1, <2>2
<1>3. ASSUME NEW n \in RtcPeer, NEW k \in Instance, EarlyTimeout(n, k) \/ RtcPendingTimeout(n, k) \/ StateFails(n, k)
      PROVE  WebrtcInv'
    <2>1. DoClose(n, k) /\ UNCHANGED <<made, signals, channel>>
        BY <1>3 DEF EarlyTimeout, RtcPendingTimeout, StateFails
    <2>2. QED
        BY <2>1, CloseKeeps
<1>4. CASE UNCHANGED webrtcVars
    BY <1>4 DEF webrtcVars, WebrtcInv, WebrtcTypes, QueueIsDrained
<1>5. CASE WebrtcNext
    BY <1>1, <1>2, <1>3, <1>5, DescriptionKeeps, CompletedKeeps, SignalKeeps, OfferKeeps DEF WebrtcNext
<1>6. QED
    BY <1>4, <1>5, ChannelKeeps

LEMMA WebrtcInitially == WebrtcInit => WebrtcInv
<1> SUFFICES ASSUME WebrtcInit PROVE WebrtcInv
    OBVIOUS
<1>1. NoConnection \in RtcRecord /\ ~StillWaits(NoConnection) /\ ~NoConnection.listened
    BY DEF NoConnection, RtcRecord, RtcId, StillWaits
<1>2. MaxAttempts \in Nat /\ High \in Nat /\ \A k \in Instance : k # NoAttempt
    BY WebrtcAssumption DEF Instance, NoAttempt
<1>3. channel \in ChannelRecord /\ channel.queue = 0
    BY <1>2 DEF WebrtcInit, ChannelRecord, Channel
<1>4. WebrtcTypes
    <2>1. 0 \in 0 .. MaxAttempts
        BY <1>2
    <2>2. rtc \in [RtcPeer -> [Instance -> RtcRecord]]
        BY <1>1 DEF WebrtcInit
    <2>3. QED
        BY <1>3, <2>1, <2>2 DEF WebrtcInit, WebrtcTypes
<1>5. \A n \in RtcPeer : EndOK(attempt[n], rtc[n])
    BY <1>1, <1>2 DEF WebrtcInit, EndOK
<1>6. QED
    BY <1>3, <1>4, <1>5 DEF WebrtcInv, QueueIsDrained

\* A connection being made is not forgotten, and what was queued on an open one is sent.
THEOREM ConnectsAndSendsAlways == WebrtcSpec => []ConnectsAndSends
<1>1. WebrtcInv => ConnectsAndSends
    BY DEF WebrtcInv, EndOK, StillWaits, ConnectsAndSends, AttemptIsAlive
<1>2. QED
    BY <1>1, WebrtcInitially, WebrtcInductive, PTL DEF WebrtcSpec

-----------------------------------------------------------------------------
(* Registries: what holds of a write x, of two writes, of a read x and of  *)
(* the cache k, given the writes W.                                        *)

WriteRecord ==
    [at : {"new", "submit", "mined", "polling", "done", "failed"}, kind : WriteKind, block : Nat, txs : Nat, during : SUBSET Write]
ReadRecord ==
    [at : {"new", "gate", "query", "answer"}, of : Cache \cup {"search"}, need : Nat, pages : Int, val : Nat, during : SUBSET Write]
Snapshot == [last : [Item -> Nat], exists : BOOLEAN]

RegistryTypes ==
    /\ chain \in [head : 0 .. MaxBlock, last : [Item -> Nat], exists : BOOLEAN]
    /\ index \in [block : Nat, was : [0 .. MaxBlock -> Snapshot]]
    /\ client \in [required : Nat, known : Nat, polling : BOOLEAN]
    /\ mapping \in Cache /\ cache \in [val : Int, during : SUBSET Write]
    /\ write \in [Write -> WriteRecord] /\ read \in [Read -> ReadRecord]

\* The Graph is behind the chain, the client behind The Graph; the last block is the chain as it is.
ChainOK ==
    /\ index.block <= chain.head /\ client.known <= index.block
    /\ index.was[chain.head].last = chain.last /\ (index.was[chain.head].exists <=> chain.exists)

InProgress(x) == x.at \notin {"new", "done", "failed"}

\* From its block on the chain holds what x wrote, or something newer; an ENS name may have no stream yet.
\* A query after x waits for that block.
WriteOK(x, item, head, was, required) ==
    /\ x.block <= head
    /\ InProgress(x) \/ x.at = "done" => item \in Changes(x.kind)
    /\ x.at = "polling" => x.kind = "createEns"
    /\ x.at \in {"polling", "done"} => x.block <= required
    /\ x.at \in {"mined", "polling", "done"} =>
          \A b \in x.block .. head : was[b].last[item] >= x.block \/ (x.kind = "createEns" /\ ~was[b].exists)

\* Calls that overlap know of each other.
PairOK(W, v, w) ==
    /\ InProgress(W[w]) /\ InProgress(W[v]) => v \in W[w].during
    /\ W[w].at \in {"mined", "polling"} /\ W[v].at = "done" /\ W[v].block > W[w].block => v \in W[w].during

\* A read that will be cached has got, and will get, only what the calls that ended before it have left.
ReadOK(x, W, m, indexed) ==
    x.at # "new" =>
        /\ x.of \in {m, "search"}
        /\ \A w \in Write : InProgress(W[w]) => w \in x.during
        /\ x.of = m \/ m = "metadataCache" =>
              \A w \in Write : W[w].at = "done" /\ w \notin x.during =>
                 /\ W[w].block <= x.val
                 /\ FromGraph(x.of) => (x.at = "gate" => W[w].block <= x.need) /\ (x.at = "query" => W[w].block <= indexed)

\* updatePermissions() and setPermissions() clear the cache before their transactions, the others after.
CacheOK(k, W, m) ==
    k # None =>
        /\ \A w \in Write :
              W[w].at = "done" /\ ~(m = "permissionCache" /\ W[w].kind \in {"create", "createEns"}) /\ W[w].block > k.val
              => w \in k.during
        /\ \A w \in Write : InProgress(W[w]) /\ W[w].kind = "permissions" => w \in k.during

RegistryInv ==
    /\ RegistryTypes /\ ChainOK
    /\ \A w \in Write : WriteOK(write[w], ItemOf(mapping), chain.head, index.was, client.required)
    /\ \A v, w \in Write : v # w => PairOK(write, v, w)
    /\ \A r \in Read : ReadOK(read[r], write, mapping, index.block)
    /\ CacheOK(cache, write, mapping)

\* What the Mappings and the calls are about.
LEMMA ItemsOfCaches ==
    /\ ItemOf("metadataCache") = "metadata" /\ ItemOf("permissionCache") = "permissions"
    /\ ItemOf("storageNodesCache") = "storageNodes"
    /\ \A m \in Cache : ItemOf(m) \in Item
BY DEF ItemOf, Cache, Item

LEMMA ChangesOfKinds ==
    /\ Changes("create") = {"metadata", "permissions"} /\ Changes("createEns") = {"metadata", "permissions"}
    /\ Changes("setMetadata") = {"metadata"} /\ Changes("delete") = {"metadata", "permissions"}
    /\ Changes("permissions") = {"permissions"} /\ Changes("assign") = {"storageNodes"}
    /\ \A kind \in WriteKind : Changes(kind) \subseteq Item
BY DEF Changes, WriteKind, Item

LEMMA WriteFields ==
    ASSUME NEW x \in WriteRecord
    PROVE  /\ x.at \in {"new", "submit", "mined", "polling", "done", "failed"} /\ x.kind \in WriteKind
           /\ x.block \in Nat /\ x.txs \in Nat /\ x.during \subseteq Write
BY DEF WriteRecord

LEMMA ReadFields ==
    ASSUME NEW x \in ReadRecord
    PROVE  /\ x.at \in {"new", "gate", "query", "answer"} /\ x.of \in Cache \cup {"search"}
           /\ x.need \in Nat /\ x.pages \in Int /\ x.val \in Nat /\ x.during \subseteq Write
BY DEF ReadRecord

\* What the invariant says of one write, and of one read.
LEMMA OneWrite ==
    ASSUME RegistryInv, NEW w \in Write
    PROVE  /\ write \in [Write -> WriteRecord] /\ write[w] \in WriteRecord
           /\ WriteOK(write[w], ItemOf(mapping), chain.head, index.was, client.required)
           /\ mapping \in Cache /\ ItemOf(mapping) \in Item
BY ItemsOfCaches DEF RegistryInv, RegistryTypes

LEMMA OneRead ==
    ASSUME RegistryInv, NEW r \in Read
    PROVE  /\ read \in [Read -> ReadRecord] /\ read[r] \in ReadRecord /\ ReadOK(read[r], write, mapping, index.block)
           /\ mapping \in Cache /\ ItemOf(mapping) \in Item
BY ItemsOfCaches DEF RegistryInv, RegistryTypes

LEMMA ChainFields ==
    ASSUME RegistryInv
    PROVE  /\ MaxBlock \in Nat
           /\ chain \in [head : 0 .. MaxBlock, last : [Item -> Nat], exists : BOOLEAN]
           /\ chain.head \in 0 .. MaxBlock /\ chain.last \in [Item -> Nat] /\ chain.exists \in BOOLEAN
           /\ index \in [block : Nat, was : [0 .. MaxBlock -> Snapshot]]
           /\ index.block \in Nat /\ index.was \in [0 .. MaxBlock -> Snapshot]
           /\ client \in [required : Nat, known : Nat, polling : BOOLEAN]
           /\ client.required \in Nat /\ client.known \in Nat
           /\ index.block <= chain.head /\ client.known <= index.block
           /\ index.was[chain.head].last = chain.last /\ (index.was[chain.head].exists <=> chain.exists)
BY RegistriesAssumption DEF RegistryInv, RegistryTypes, ChainOK

-----------------------------------------------------------------------------
\* One call goes on, ends or fails.
LEMMA OneWriteChanges ==
    ASSUME RegistryInv, NEW w \in Write, NEW x \in WriteRecord, write' = [write EXCEPT ![w] = x],
           InProgress(write[w]),
           InProgress(x) => x.during = write[w].during,
           x.kind = write[w].kind \/ x.at = "failed",
           RegistryTypes', ChainOK', mapping' = mapping, read' = read, index'.block = index.block,
           \A v \in Write : v # w => WriteOK(write[v], ItemOf(mapping), chain'.head, index'.was, client'.required),
           WriteOK(x, ItemOf(mapping), chain'.head, index'.was, client'.required),
           x.at \in {"mined", "polling"} =>
              \A v \in Write : v # w /\ write[v].at = "done" /\ write[v].block > x.block => v \in x.during,
           \/ CacheOK(cache', write', mapping)
           \/ cache' = cache /\ x.at # "done"
    PROVE  RegistryInv'
<1>1. write'[w] = x /\ \A v \in Write : v # w => write'[v] = write[v]
    BY DEF RegistryInv, RegistryTypes
<1>2. \A v \in Write : WriteOK(write'[v], ItemOf(mapping'), chain'.head, index'.was, client'.required)
    BY <1>1
<1>3. ASSUME NEW u \in Write, NEW v \in Write, u # v PROVE PairOK(write', u, v)
    <2>1. PairOK(write, u, v)
        BY <1>3 DEF RegistryInv
    <2>2. CASE u # w /\ v # w
        BY <1>1, <2>1, <2>2 DEF PairOK
    <2>3. CASE v = w
        <3>1. write'[v] = x /\ write'[u] = write[u] /\ InProgress(write[v])
            BY <1>1, <1>3, <2>3
        <3>2. x.at \in {"mined", "polling"} => InProgress(x)
            BY DEF InProgress
        <3>3. QED
            BY <1>3, <2>1, <2>3, <3>1, <3>2 DEF PairOK
    <2>4. CASE u = w
        <3>1. write'[u] = x /\ write'[v] = write[v] /\ InProgress(write[u])
            BY <1>1, <1>3, <2>4
        <3>2. write[v].at \in {"mined", "polling"} => InProgress(write[v])
            BY DEF InProgress
        <3>3. QED
            BY <2>1, <3>1, <3>2 DEF PairOK
    <2>5. QED
        BY <2>2, <2>3, <2>4
<1>4. ASSUME NEW r \in Read PROVE ReadOK(read'[r], write', mapping', index'.block)
    <2>1. ReadOK(read[r], write, mapping, index.block)
        BY OneRead
    <2>2. \A v \in Write : (InProgress(write'[v]) => InProgress(write[v]))
        BY <1>1
    <2>3. \A v \in Write : write'[v].at = "done" => InProgress(write[v]) \/ write'[v] = write[v]
        BY <1>1
    <2>4. QED
        BY <2>1, <2>2, <2>3 DEF ReadOK
<1>5. CacheOK(cache', write', mapping')
    <2>1. CASE CacheOK(cache', write', mapping)
        BY <2>1
    <2>2. CASE cache' = cache /\ x.at # "done"
        <3>1. CacheOK(cache, write, mapping)
            BY DEF RegistryInv
        <3>2. x.kind = "permissions" /\ InProgress(x) => write[w].kind = "permissions"
            BY DEF InProgress
        <3>3. QED
            BY <1>1, <2>2, <3>1, <3>2 DEF CacheOK
    <2>3. QED
        BY <2>1, <2>2
<1>6. QED
    BY <1>2, <1>3, <1>4, <1>5 DEF RegistryInv

\* One read begins, goes on or ends.
LEMMA OneReadChanges ==
    ASSUME RegistryInv, NEW r \in Read, NEW x \in ReadRecord, read' = [read EXCEPT ![r] = x],
           ReadOK(x, write, mapping, index.block), UNCHANGED <<chain, index, mapping, write>>,
           client' \in [required : Nat, known : Nat, polling : BOOLEAN],
           client'.required = client.required, client'.known = client.known,
           cache' \in [val : Int, during : SUBSET Write], CacheOK(cache', write, mapping)
    PROVE  RegistryInv'
<1>1. read \in [Read -> ReadRecord]
    BY DEF RegistryInv, RegistryTypes
<1>2. read' \in [Read -> ReadRecord] /\ \A q \in Read : ReadOK(read'[q], write, mapping, index.block)
    BY <1>1, OneRead
<1>3. RegistryTypes' /\ ChainOK'
    BY <1>2 DEF RegistryInv, RegistryTypes, ChainOK
<1>4. QED
    BY <1>2, <1>3 DEF RegistryInv

\* A block: what was written stays, or something newer is there.
LEMMA BlockKeeps ==
    ASSUME RegistryInv, NEW items \in SUBSET Item, NEW exists \in BOOLEAN, NewBlock(items, exists),
           exists => chain.exists \/ {"metadata", "permissions"} \subseteq items
    PROVE  /\ chain' \in [head : 0 .. MaxBlock, last : [Item -> Nat], exists : BOOLEAN]
           /\ index' \in [block : Nat, was : [0 .. MaxBlock -> Snapshot]]
           /\ index'.block = index.block /\ chain'.head = chain.head + 1 /\ index.block <= chain'.head
           /\ index'.was[chain'.head].last = chain'.last /\ (index'.was[chain'.head].exists <=> chain'.exists)
           /\ \A v \in Write : WriteOK(write[v], ItemOf(mapping), chain'.head, index'.was, client.required)
           /\ \A i \in items : index'.was[chain'.head].last[i] = chain'.head
           /\ index'.was[chain'.head].exists <=> exists
<1> PICK b : b = chain.head + 1
    OBVIOUS
<1> PICK last : last = [i \in Item |-> IF i \in items THEN b ELSE chain.last[i]]
    OBVIOUS
<1> PICK s : s = [last |-> last, exists |-> exists]
    OBVIOUS
<1>1. /\ MaxBlock \in Nat /\ chain.head \in Nat /\ b <= MaxBlock /\ b \in Nat /\ b \in 0 .. MaxBlock
      /\ chain.last \in [Item -> Nat] /\ index.was \in [0 .. MaxBlock -> Snapshot] /\ index.block \in Nat /\ index.block <= chain.head
    BY ChainFields DEF NewBlock
<1>2. last \in [Item -> Nat] /\ s \in Snapshot
    BY <1>1 DEF Snapshot
<1>3. chain' = [head |-> b, last |-> last, exists |-> exists]
    BY DEF NewBlock
<1>4. index' = [index EXCEPT !.was = [index.was EXCEPT ![b] = s]]
    BY DEF NewBlock
<1>5. index'.block = index.block /\ index'.was = [index.was EXCEPT ![b] = s]
    BY <1>4, ChainFields
<1>6. /\ index'.was \in [0 .. MaxBlock -> Snapshot] /\ index'.was[b] = s
      /\ \A c \in 0 .. MaxBlock : c # b => index'.was[c] = index.was[c]
    BY <1>1, <1>2, <1>5
<1>7. index' \in [block : Nat, was : [0 .. MaxBlock -> Snapshot]]
    <2> PICK W : W = [index.was EXCEPT ![b] = s]
        OBVIOUS
    <2>1. W \in [0 .. MaxBlock -> Snapshot]
        BY <1>5, <1>6
    <2>2. index' = [index EXCEPT !.was = W]
        BY <1>4
    <2>3. index \in [block : Nat, was : [0 .. MaxBlock -> Snapshot]]
        BY ChainFields
    <2>4. QED
        BY <2>1, <2>2, <2>3
<1>8. chain' \in [head : 0 .. MaxBlock, last : [Item -> Nat], exists : BOOLEAN]
    BY <1>1, <1>2, <1>3
<1>9. chain'.head = b /\ chain'.last = last /\ (chain'.exists <=> exists) /\ s.last = last /\ (s.exists <=> exists)
    BY <1>3
<1>10. ASSUME NEW v \in Write PROVE WriteOK(write[v], ItemOf(mapping), b, index'.was, client.required)
    <2> PICK x : x = write[v]
        OBVIOUS
    <2> PICK item : item = ItemOf(mapping)
        OBVIOUS
    <2>1. WriteOK(x, item, chain.head, index.was, client.required) /\ x \in WriteRecord /\ item \in Item /\ mapping \in Cache
        BY OneWrite
    <2>2. x.block \in Nat /\ x.block <= chain.head
        BY <2>1, WriteFields DEF WriteOK
    <2>3. ASSUME x.at \in {"mined", "polling", "done"}, NEW c \in x.block .. b
          PROVE  index'.was[c].last[item] >= x.block \/ (x.kind = "createEns" /\ ~index'.was[c].exists)
        <3>1. CASE c # b
            <4>1. c \in x.block .. chain.head /\ c \in 0 .. MaxBlock
                BY <1>1, <2>2, <3>1
            <4>2. QED
                BY <1>6, <2>1, <2>3, <3>1, <4>1 DEF WriteOK
        <3>2. CASE c = b
            <4>1. index'.was[c].last[item] = (IF item \in items THEN b ELSE chain.last[item]) /\ (index'.was[c].exists <=> exists)
                BY <1>6, <1>9, <2>1, <3>2
            <4>2. CASE item \in items
                BY <1>1, <2>2, <4>1, <4>2
            <4>3. CASE item \notin items
                <5>1. chain.head \in x.block .. chain.head
                    BY <1>1, <2>2
                <5>2. chain.last[item] >= x.block \/ (x.kind = "createEns" /\ ~chain.exists)
                    BY <2>1, <2>3, <5>1, ChainFields DEF WriteOK
                <5>3. CASE chain.last[item] >= x.block
                    BY <4>1, <4>3, <5>3
                <5>4. CASE x.kind = "createEns" /\ ~chain.exists
                    <6>1. item \in {"metadata", "permissions"}
                        BY <2>1, <2>3, <5>4, ChangesOfKinds DEF WriteOK, InProgress
                    <6>2. ~exists
                        BY <4>3, <5>4, <6>1
                    <6>3. QED
                        BY <4>1, <5>4, <6>2
                <5>5. QED
                    BY <5>2, <5>3, <5>4
            <4>4. QED
                BY <4>2, <4>3
        <3>3. QED
            BY <3>1, <3>2
    <2>4. x.block <= b
        BY <1>1, <2>2
    <2>5. QED
        BY <2>1, <2>3, <2>4 DEF WriteOK
<1>11. \A i \in items : s.last[i] = b
    BY <1>9
<1>12. index.block <= b
    BY <1>1
<1>13. index'.was[chain'.head] = s
    BY <1>6, <1>9
<1>14. \A v \in Write : WriteOK(write[v], ItemOf(mapping), chain'.head, index'.was, client.required)
    BY <1>9, <1>10
<1>15. QED
    BY <1>5, <1>7, <1>8, <1>9, <1>11, <1>12, <1>13, <1>14

-----------------------------------------------------------------------------
WriteMined(x, block) == [x EXCEPT !.at = "mined", !.block = block]
WriteAgain(x, txs) == [x EXCEPT !.at = "submit", !.txs = txs]
WriteDone(x) == [x EXCEPT !.at = "done", !.during = {}]
FailedWrite == [NoWrite EXCEPT !.at = "failed"]

LEMMA WriteMinedMade ==
    ASSUME NEW x \in WriteRecord, NEW block \in Nat, NEW y, y = WriteMined(x, block)
    PROVE  y \in WriteRecord /\ y.at = "mined" /\ y.block = block /\ y.kind = x.kind /\ y.during = x.during
BY DEF WriteRecord, WriteMined

LEMMA WritePollsMade ==
    ASSUME NEW x \in WriteRecord, NEW y, y = [x EXCEPT !.at = "polling"]
    PROVE  y \in WriteRecord /\ y.at = "polling" /\ y.block = x.block /\ y.kind = x.kind /\ y.during = x.during
BY DEF WriteRecord

LEMMA WriteDoneMade ==
    ASSUME NEW x \in WriteRecord, NEW y, y = WriteDone(x)
    PROVE  y \in WriteRecord /\ y.at = "done" /\ y.kind = x.kind /\ y.block = x.block
BY DEF WriteRecord, WriteDone

LEMMA WriteAgainMade ==
    ASSUME NEW x \in WriteRecord, NEW txs \in Nat, NEW y, y = WriteAgain(x, txs)
    PROVE  y \in WriteRecord /\ y.at = "submit" /\ y.kind = x.kind /\ y.block = x.block /\ y.during = x.during
BY DEF WriteRecord, WriteAgain

LEMMA FailedMade ==
    FailedWrite \in WriteRecord /\ FailedWrite.at = "failed" /\ FailedWrite.block = 0
<1>1. NoWrite \in WriteRecord /\ NoWrite.block = 0
    BY DEF WriteRecord, NoWrite, WriteKind
<1>2. QED
    BY <1>1 DEF FailedWrite, WriteRecord

LEMMA FailKeeps ==
    ASSUME RegistryInv, NEW w \in Write, InProgress(write[w]), Fail(w), UNCHANGED <<mapping, chain, index, client, cache, read>>
    PROVE  RegistryInv'
<1>1. write' = [write EXCEPT ![w] = FailedWrite]
    BY DEF Fail, FailedWrite
<1>2. FailedWrite \in WriteRecord /\ FailedWrite.at = "failed" /\ FailedWrite.block = 0 /\ chain.head \in Nat
    BY FailedMade, ChainFields
<1>3. RegistryTypes' /\ ChainOK'
    <2>1. write' \in [Write -> WriteRecord]
        BY <1>1, <1>2, OneWrite
    <2>2. QED
        BY <2>1 DEF RegistryInv, RegistryTypes, ChainOK
<1>4. WriteOK(FailedWrite, ItemOf(mapping), chain.head, index.was, client.required)
    BY <1>2 DEF WriteOK, InProgress
<1>5. \A v \in Write : WriteOK(write[v], ItemOf(mapping), chain.head, index.was, client.required)
    BY OneWrite
<1>6. ~InProgress(FailedWrite)
    BY <1>2 DEF InProgress
<1>7. QED
    BY <1>1, <1>2, <1>3, <1>4, <1>5, <1>6, OneWriteChanges

\* The transaction is in a block.
LEMMA MinedKeeps ==
    ASSUME RegistryInv, NEW w \in Write, Mined(w)
    PROVE  RegistryInv'
<1> PICK kind : kind = write[w].kind
    OBVIOUS
<1> PICK items : items = IF kind = "createEns" THEN {} ELSE Changes(kind)
    OBVIOUS
<1> PICK exists \in BOOLEAN : exists <=> IF kind = "createEns" THEN chain.exists ELSE kind # "delete"
    OBVIOUS
<1> PICK b \in Nat : b = chain.head + 1
    BY ChainFields
<1> PICK x : x = WriteMined(write[w], b)
    OBVIOUS
<1>1. write[w] \in WriteRecord /\ kind \in WriteKind /\ write[w].at = "submit" /\ Allowed(kind) /\ chain.exists \in BOOLEAN
    BY OneWrite, WriteFields, ChainFields DEF Mined
<1>2. items \in SUBSET Item
    BY <1>1, ChangesOfKinds
<1>3. NewBlock(items, exists)
    <2>1. CASE kind = "createEns"
        <3>1. exists = chain.exists
            BY <1>1, <2>1
        <3>2. QED
            BY <2>1, <3>1 DEF Mined
    <2>2. CASE kind # "createEns"
        <3>1. exists = (kind # "delete")
            BY <2>2
        <3>2. QED
            BY <2>2, <3>1 DEF Mined
    <2>3. QED
        BY <2>1, <2>2
<1>4. exists => chain.exists \/ {"metadata", "permissions"} \subseteq items
    <2>1. CASE kind = "createEns"
        BY <2>1
    <2>2. CASE kind = "create"
        BY <2>2, ChangesOfKinds
    <2>3. CASE kind \notin {"create", "createEns"}
        BY <1>1, <2>3 DEF Allowed
    <2>4. QED
        BY <2>1, <2>2, <2>3
<1>5. x \in WriteRecord /\ x.at = "mined" /\ x.block = b /\ x.kind = kind /\ x.during = write[w].during
    BY <1>1, WriteMinedMade
<1>6. write' = [write EXCEPT ![w] = x] /\ UNCHANGED <<mapping, client, cache, read>>
    BY DEF Mined, WriteMined
<1>7. /\ chain' \in [head : 0 .. MaxBlock, last : [Item -> Nat], exists : BOOLEAN]
      /\ index' \in [block : Nat, was : [0 .. MaxBlock -> Snapshot]]
      /\ index'.block = index.block /\ chain'.head = chain.head + 1 /\ index.block <= chain'.head
      /\ index'.was[chain'.head].last = chain'.last /\ (index'.was[chain'.head].exists <=> chain'.exists)
      /\ \A v \in Write : WriteOK(write[v], ItemOf(mapping), chain'.head, index'.was, client.required)
      /\ \A i \in items : index'.was[chain'.head].last[i] = chain'.head
      /\ index'.was[chain'.head].exists <=> exists
    BY <1>2, <1>3, <1>4, BlockKeeps
<1>8. RegistryTypes' /\ ChainOK'
    <2>1. write' \in [Write -> WriteRecord]
        BY <1>5, <1>6, OneWrite
    <2>2. client.known <= index.block
        BY ChainFields
    <2>3. QED
        BY <1>6, <1>7, <2>1, <2>2 DEF RegistryInv, RegistryTypes, ChainOK
<1>9. WriteOK(x, ItemOf(mapping), chain'.head, index'.was, client'.required)
    <2>1. ItemOf(mapping) \in Changes(kind)
        BY <1>1, OneWrite DEF WriteOK, InProgress
    <2>2. chain'.head = b
        BY <1>7
    <2>3. \A c \in b .. b : c = b
        OBVIOUS
    <2>4. index'.was[b].last[ItemOf(mapping)] >= b \/ (kind = "createEns" /\ ~index'.was[b].exists)
        <3>1. CASE kind = "createEns"
            <4>1. ~exists
                BY <1>1, <3>1 DEF Allowed
            <4>2. QED
                BY <1>7, <2>2, <3>1, <4>1
        <3>2. CASE kind # "createEns"
            <4>1. index'.was[b].last[ItemOf(mapping)] = b
                BY <1>7, <2>1, <2>2, <3>2
            <4>2. QED
                BY <4>1
        <3>3. QED
            BY <3>1, <3>2
    <2>5. QED
        BY <1>5, <2>1, <2>2, <2>3, <2>4 DEF WriteOK
<1>10. ASSUME NEW v \in Write PROVE ~(write[v].block > x.block)
    <2>1. write[v].block \in Nat /\ write[v].block <= chain.head /\ chain.head \in Nat
        BY OneWrite, WriteFields, ChainFields DEF WriteOK
    <2>2. QED
        BY <1>5, <2>1
<1>11. InProgress(write[w])
    BY <1>1 DEF InProgress
<1>12. QED
    BY <1>5, <1>6, <1>7, <1>8, <1>9, <1>10, <1>11, OneWriteChanges

\* The stream of an ENS name is created.
LEMMA EnsCreatesKeeps ==
    ASSUME RegistryInv, NEW w \in Write, EnsCreates(w)
    PROVE  RegistryInv'
<1> PICK items : items = Changes("createEns")
    OBVIOUS
<1> PICK x : x = [write[w] EXCEPT !.txs = 0]
    OBVIOUS
<1>1. write[w] \in WriteRecord /\ write[w].at \in {"mined", "polling"}
    BY OneWrite DEF EnsCreates
<1>2. items \in SUBSET Item /\ {"metadata", "permissions"} \subseteq items /\ NewBlock(items, TRUE)
    BY ChangesOfKinds DEF EnsCreates, Item
<1>3. x \in WriteRecord /\ x.at = write[w].at /\ x.block = write[w].block /\ x.kind = write[w].kind /\ x.during = write[w].during
    BY <1>1 DEF WriteRecord
<1>4. write' = [write EXCEPT ![w] = x] /\ UNCHANGED <<mapping, client, cache, read>>
    BY DEF EnsCreates
<1>5. /\ chain' \in [head : 0 .. MaxBlock, last : [Item -> Nat], exists : BOOLEAN]
      /\ index' \in [block : Nat, was : [0 .. MaxBlock -> Snapshot]]
      /\ index'.block = index.block /\ index.block <= chain'.head
      /\ index'.was[chain'.head].last = chain'.last /\ (index'.was[chain'.head].exists <=> chain'.exists)
      /\ \A v \in Write : WriteOK(write[v], ItemOf(mapping), chain'.head, index'.was, client.required)
    BY <1>2, BlockKeeps
<1>6. RegistryTypes' /\ ChainOK'
    <2>1. write' \in [Write -> WriteRecord]
        BY <1>3, <1>4, OneWrite
    <2>2. client.known <= index.block
        BY ChainFields
    <2>3. QED
        BY <1>4, <1>5, <2>1, <2>2 DEF RegistryInv, RegistryTypes, ChainOK
<1>7. WriteOK(x, ItemOf(mapping), chain'.head, index'.was, client'.required)
    <2>1. WriteOK(write[w], ItemOf(mapping), chain'.head, index'.was, client'.required)
        BY <1>4, <1>5
    <2>2. QED
        BY <1>3, <2>1 DEF WriteOK, InProgress
<1>8. ASSUME NEW v \in Write, v # w, write[v].at = "done", write[v].block > x.block PROVE v \in x.during
    <2>1. PairOK(write, v, w)
        BY <1>8 DEF RegistryInv
    <2>2. QED
        BY <1>1, <1>3, <1>8, <2>1 DEF PairOK
<1>9. InProgress(write[w]) /\ x.at # "done"
    BY <1>1, <1>3 DEF InProgress
<1>10. QED
    BY <1>3, <1>4, <1>5, <1>6, <1>7, <1>8, <1>9, OneWriteChanges

-----------------------------------------------------------------------------
\* The cache once a call is completed: of its own value, cleared, or for permissions as it is.
LEMMA CompletedIsOK ==
    ASSUME RegistryInv, NEW w \in Write, write[w].at \in {"mined", "polling"}, NEW x \in WriteRecord,
           x = WriteDone(write[w]), write' = [write EXCEPT ![w] = x], cache' = Completed(w)
    PROVE  cache' \in [val : Int, during : SUBSET Write] /\ CacheOK(cache', write', mapping)
<1> PICK kind : kind = write[w].kind
    OBVIOUS
<1>1. /\ write \in [Write -> WriteRecord] /\ write[w] \in WriteRecord /\ mapping \in Cache
      /\ kind \in WriteKind /\ ItemOf(mapping) \in Changes(kind) /\ InProgress(write[w])
      /\ write[w].block \in Nat /\ write[w].during \subseteq Write
    BY OneWrite, WriteFields DEF WriteOK, InProgress
<1>2. x.at = "done" /\ x.kind = kind /\ x.block = write[w].block
    BY <1>1, WriteDoneMade
<1>3. write'[w] = x /\ \A v \in Write : v # w => write'[v] = write[v]
    BY <1>1
<1>4. cache \in [val : Int, during : SUBSET Write] /\ CacheOK(cache, write, mapping)
    BY DEF RegistryInv, RegistryTypes
<1>5. None \in [val : Int, during : SUBSET Write] /\ CacheOK(None, write', mapping)
    BY DEF None, CacheOK
<1>6. ~InProgress(x)
    BY <1>2 DEF InProgress
<1>7. CASE kind \in {"create", "createEns", "setMetadata"}
    <2>1. cache' = IF mapping = "metadataCache" THEN [val |-> write[w].block, during |-> write[w].during] ELSE cache
        BY <1>7 DEF Completed
    <2>2. CASE mapping = "metadataCache"
        <3> PICK k : k = [val |-> write[w].block, during |-> write[w].during]
            OBVIOUS
        <3>1. cache' = k /\ k \in [val : Int, during : SUBSET Write] /\ k.val = write[w].block /\ k.during = write[w].during
            BY <1>1, <2>1, <2>2
        <3>2. ASSUME NEW v \in Write, write'[v].at = "done", write'[v].block > k.val PROVE v \in k.during
            <4>1. v # w
                BY <1>1, <1>2, <1>3, <3>1, <3>2
            <4>2. PairOK(write, v, w)
                BY <4>1 DEF RegistryInv
            <4>3. QED
                BY <1>3, <3>1, <3>2, <4>1, <4>2 DEF PairOK
        <3>3. ASSUME NEW v \in Write, InProgress(write'[v]) PROVE v \in k.during
            <4>1. v # w /\ InProgress(write[v])
                BY <1>3, <1>6, <3>3
            <4>2. PairOK(write, v, w)
                BY <4>1 DEF RegistryInv
            <4>3. QED
                BY <1>1, <3>1, <4>1, <4>2 DEF PairOK
        <3>4. QED
            BY <3>1, <3>2, <3>3 DEF CacheOK
    <2>3. CASE mapping # "metadataCache"
        <3>1. mapping = "permissionCache" /\ kind \in {"create", "createEns"}
            BY <1>1, <1>7, <2>3, ItemsOfCaches, ChangesOfKinds DEF Cache
        <3>2. cache' = cache
            BY <2>1, <2>3
        <3>3. QED
            BY <1>2, <1>3, <1>4, <1>6, <3>1, <3>2 DEF CacheOK
    <2>4. QED
        BY <2>2, <2>3
<1>8. CASE kind = "delete"
    <2>1. cache' = Invalidated({"metadataCache"} \cup PermissionCaches)
        BY <1>8 DEF Completed
    <2>2. mapping \in {"metadataCache", "permissionCache"}
        BY <1>1, <1>8, ItemsOfCaches, ChangesOfKinds DEF Cache
    <2>3. cache' = None
        BY <2>1, <2>2 DEF Invalidated, PermissionCaches
    <2>4. QED
        BY <1>5, <2>3
<1>9. CASE kind = "assign"
    <2>1. cache' = Invalidated({"storageNodesCache"})
        BY <1>9 DEF Completed
    <2>2. mapping = "storageNodesCache"
        BY <1>1, <1>9, ItemsOfCaches, ChangesOfKinds DEF Cache
    <2>3. cache' = None
        BY <2>1, <2>2 DEF Invalidated
    <2>4. QED
        BY <1>5, <2>3
<1>10. CASE kind = "permissions"
    <2>1. cache' = cache
        BY <1>10 DEF Completed
    <2>2. cache # None => w \in cache.during
        BY <1>1, <1>4, <1>10 DEF CacheOK
    <2>3. QED
        BY <1>3, <1>4, <1>6, <2>1, <2>2 DEF CacheOK
<1>11. QED
    BY <1>1, <1>7, <1>8, <1>9, <1>10 DEF WriteKind

\* The call returns.
LEMMA SucceedKeeps ==
    ASSUME RegistryInv, NEW w \in Write, write[w].at \in {"mined", "polling"}, Succeed(w), cache' = Completed(w),
           UNCHANGED <<mapping, chain, index, read>>, client' \in [required : Nat, known : Nat, polling : BOOLEAN],
           client'.required >= client.required, client'.known = client.known, write[w].block <= client'.required
    PROVE  RegistryInv'
<1> PICK x : x = WriteDone(write[w])
    OBVIOUS
<1>1. write[w] \in WriteRecord
    BY OneWrite
<1>2. x \in WriteRecord /\ x.at = "done" /\ x.kind = write[w].kind /\ x.block = write[w].block
    BY <1>1, WriteDoneMade
<1>3. write' = [write EXCEPT ![w] = x]
    BY DEF Succeed, WriteDone
<1>4. cache' \in [val : Int, during : SUBSET Write] /\ CacheOK(cache', write', mapping)
    BY <1>2, <1>3, CompletedIsOK
<1>5. RegistryTypes' /\ ChainOK'
    <2>1. write' \in [Write -> WriteRecord]
        BY <1>2, <1>3, OneWrite
    <2>2. QED
        BY <1>4, <2>1 DEF RegistryInv, RegistryTypes, ChainOK
<1>6. ASSUME NEW v \in Write PROVE WriteOK(write[v], ItemOf(mapping), chain'.head, index'.was, client'.required)
    <2>1. WriteOK(write[v], ItemOf(mapping), chain.head, index.was, client.required)
        BY OneWrite
    <2>2. write[v].block \in Nat /\ client.required \in Nat /\ client'.required \in Nat
        BY OneWrite, WriteFields, ChainFields
    <2>3. QED
        BY <2>1, <2>2 DEF WriteOK
<1>7. WriteOK(x, ItemOf(mapping), chain'.head, index'.was, client'.required)
    <2>1. WriteOK(write[w], ItemOf(mapping), chain'.head, index'.was, client'.required)
        BY <1>6
    <2>2. QED
        BY <1>2, <2>1 DEF WriteOK, InProgress
<1>8. InProgress(write[w]) /\ ~InProgress(x) /\ x.at \notin {"mined", "polling"}
    BY <1>2 DEF InProgress
<1>9. QED
    BY <1>2, <1>3, <1>4, <1>5, <1>6, <1>7, <1>8, OneWriteChanges

LEMMA MaxOfTwo ==
    ASSUME NEW a \in Nat, NEW b \in Nat
    PROVE  Max({a, b}) = IF a >= b THEN a ELSE b
BY DEF Max

LEMMA ConfirmedKeeps ==
    ASSUME RegistryInv, NEW w \in Write, Confirmed(w)
    PROVE  RegistryInv'
<1> PICK req : req = RequiredAfter(write[w].block)
    OBVIOUS
<1>1. /\ write[w] \in WriteRecord /\ write[w].at = "mined" /\ write[w].block \in Nat /\ client.required \in Nat
      /\ client \in [required : Nat, known : Nat, polling : BOOLEAN] /\ write[w].txs \in Nat
    BY OneWrite, WriteFields, ChainFields DEF Confirmed
<1>2. req \in Nat /\ req >= client.required /\ write[w].block <= req
    <2>1. req = Max({client.required, write[w].block})
        BY DEF RequiredAfter
    <2>2. req = IF client.required >= write[w].block THEN client.required ELSE write[w].block
        BY <1>1, <2>1, MaxOfTwo
    <2>3. QED
        BY <1>1, <2>2
<1>3. client' = [client EXCEPT !.required = req]
    BY DEF Confirmed
<1>4. client' \in [required : Nat, known : Nat, polling : BOOLEAN] /\ client'.required = req /\ client'.known = client.known
    BY <1>1, <1>2, <1>3
<1>5. UNCHANGED <<mapping, chain, index, read>>
    BY DEF Confirmed
<1>6. ASSUME NEW v \in Write PROVE WriteOK(write[v], ItemOf(mapping), chain'.head, index'.was, client'.required)
    <2>1. WriteOK(write[v], ItemOf(mapping), chain.head, index.was, client.required)
        BY OneWrite
    <2>2. write[v].block \in Nat
        BY OneWrite, WriteFields
    <2>3. QED
        BY <1>1, <1>2, <1>4, <1>5, <2>1, <2>2 DEF WriteOK
<1>7. ASSUME NEW x \in WriteRecord, write' = [write EXCEPT ![w] = x], UNCHANGED cache,
             x.at \in {"submit", "polling"}, x.at = "polling" => x.kind = "createEns",
             x.kind = write[w].kind, x.block = write[w].block, x.during = write[w].during
      PROVE  RegistryInv'
    <2>1. RegistryTypes' /\ ChainOK'
        <3>1. write' \in [Write -> WriteRecord]
            BY <1>7, OneWrite
        <3>2. QED
            BY <1>4, <1>5, <1>7, <3>1 DEF RegistryInv, RegistryTypes, ChainOK
    <2>2. WriteOK(x, ItemOf(mapping), chain'.head, index'.was, client'.required)
        BY <1>1, <1>2, <1>4, <1>6, <1>7 DEF WriteOK, InProgress
    <2>3. InProgress(write[w]) /\ InProgress(x) /\ x.at # "done"
        BY <1>1, <1>7 DEF InProgress
    <2>4. ASSUME NEW v \in Write, v # w, write[v].at = "done", write[v].block > x.block PROVE v \in x.during
        <3>1. PairOK(write, v, w)
            BY <2>4 DEF RegistryInv
        <3>2. QED
            BY <1>1, <1>7, <2>4, <3>1 DEF PairOK
    <2>5. QED
        BY <1>5, <1>6, <1>7, <2>1, <2>2, <2>3, <2>4, OneWriteChanges
<1>8. CASE write[w].txs > 1
    <2> PICK txs \in Nat : txs = write[w].txs - 1
        BY <1>1, <1>8
    <2> PICK x : x = WriteAgain(write[w], txs)
        OBVIOUS
    <2>1. x \in WriteRecord /\ x.at = "submit" /\ x.kind = write[w].kind /\ x.block = write[w].block /\ x.during = write[w].during
        <3>1. write[w] \in WriteRecord
            BY <1>1
        <3>2. QED
            BY <3>1, WriteAgainMade
    <2>2. write' = [write EXCEPT ![w] = x] /\ UNCHANGED cache
        BY <1>8 DEF Confirmed, WriteAgain
    <2>3. QED
        BY <1>7, <2>1, <2>2
<1>9. CASE ~(write[w].txs > 1) /\ write[w].kind = "createEns"
    <2> PICK x : x = [write[w] EXCEPT !.at = "polling"]
        OBVIOUS
    <2>1. x \in WriteRecord /\ x.at = "polling" /\ x.kind = write[w].kind /\ x.block = write[w].block /\ x.during = write[w].during
        BY <1>1, WritePollsMade
    <2>2. write' = [write EXCEPT ![w] = x] /\ UNCHANGED cache
        BY <1>9 DEF Confirmed
    <2>3. QED
        BY <1>7, <1>9, <2>1, <2>2
<1>10. CASE ~(write[w].txs > 1) /\ write[w].kind # "createEns"
    <2>1. Succeed(w) /\ cache' = Completed(w)
        BY <1>10 DEF Confirmed
    <2>2. QED
        BY <1>1, <1>2, <1>4, <1>5, <2>1, SucceedKeeps
<1>11. QED
    BY <1>8, <1>9, <1>10

LEMMA EnsPolledKeeps ==
    ASSUME RegistryInv, NEW w \in Write, EnsPolled(w)
    PROVE  RegistryInv'
<1>1. write[w].at = "polling" /\ UNCHANGED <<mapping, chain, index, client, read>> /\ InProgress(write[w])
    BY DEF EnsPolled, InProgress
<1>2. CASE Succeed(w) /\ cache' = Completed(w)
    <2>1. /\ client \in [required : Nat, known : Nat, polling : BOOLEAN] /\ client.required \in Nat
          /\ write[w].block <= client.required
        BY <1>1, OneWrite, ChainFields DEF WriteOK
    <2>2. QED
        BY <1>1, <1>2, <2>1, SucceedKeeps
<1>3. CASE Fail(w) /\ UNCHANGED cache
    BY <1>1, <1>3, FailKeeps
<1>4. QED
    BY <1>2, <1>3 DEF EnsPolled

-----------------------------------------------------------------------------
WriteOverlaps(x, w) == [x EXCEPT !.during = x.during \cup {w}]
ReadOverlaps(x, w) == [x EXCEPT !.during = x.during \cup {w}]

LEMMA WriteOverlapsMade ==
    ASSUME NEW x \in WriteRecord, NEW w \in Write, NEW y, y = WriteOverlaps(x, w)
    PROVE  y \in WriteRecord /\ y.at = x.at /\ y.kind = x.kind /\ y.block = x.block /\ y.during = x.during \cup {w}
BY DEF WriteRecord, WriteOverlaps

LEMMA ReadOverlapsMade ==
    ASSUME NEW x \in ReadRecord, NEW w \in Write, NEW y, y = ReadOverlaps(x, w)
    PROVE  y \in ReadRecord /\ y.at = x.at /\ y.of = x.of /\ y.need = x.need /\ y.val = x.val /\ y.during = x.during \cup {w}
BY DEF ReadRecord, ReadOverlaps

\* A call begins: the calls and reads in progress overlap it.
LEMMA BeginKeeps ==
    ASSUME RegistryInv, NEW w \in Write, NEW kind \in WriteKind, NEW txs \in Nat, write[w].at = "new",
           BeginWrite(w, kind, txs), UNCHANGED <<mapping, chain, index, client>>,
           (cache' = cache /\ kind # "permissions") \/ cache' = None
    PROVE  RegistryInv'
<1> PICK N : N = [at |-> "submit", kind |-> kind, block |-> 0, txs |-> txs, during |-> Writing]
    OBVIOUS
<1>1. /\ write \in [Write -> WriteRecord] /\ mapping \in Cache /\ chain.head \in Nat /\ read \in [Read -> ReadRecord]
      /\ ItemOf(mapping) \in Changes(kind)
    BY ChainFields DEF RegistryInv, RegistryTypes, BeginWrite
<1>2. Writing = {v \in Write : InProgress(write[v])} /\ ~InProgress(write[w])
    BY DEF Writing, InProgress
<1>3. N \in WriteRecord /\ N.at = "submit" /\ N.kind = kind /\ N.block = 0 /\ N.during = Writing /\ InProgress(N)
    BY <1>2 DEF WriteRecord, InProgress
<1>4. write' = [v \in Write |-> IF v = w THEN N ELSE IF v \in Writing THEN WriteOverlaps(write[v], w) ELSE write[v]]
    BY DEF BeginWrite, WriteOverlaps
<1>5. read' = [r \in Read |-> IF r \in Reading THEN ReadOverlaps(read[r], w) ELSE read[r]]
    BY DEF BeginWrite, ReadOverlaps
<1>6. write'[w] = N
    BY <1>4
<1>7. ASSUME NEW v \in Write, v # w
      PROVE  /\ write'[v] \in WriteRecord /\ write'[v].at = write[v].at /\ write'[v].kind = write[v].kind
             /\ write'[v].block = write[v].block /\ write[v].during \subseteq write'[v].during
             /\ InProgress(write[v]) => w \in write'[v].during
    <2>1. write[v] \in WriteRecord
        BY <1>1
    <2>2. CASE InProgress(write[v])
        <3>1. write'[v] = WriteOverlaps(write[v], w)
            BY <1>2, <1>4, <1>7, <2>2
        <3>2. write'[v] \in WriteRecord /\ write'[v].at = write[v].at /\ write'[v].kind = write[v].kind
              /\ write'[v].block = write[v].block /\ write'[v].during = write[v].during \cup {w}
            BY <2>1, <3>1, WriteOverlapsMade
        <3>3. QED
            BY <3>2
    <2>3. CASE ~InProgress(write[v])
        <3>1. write'[v] = write[v]
            BY <1>2, <1>4, <1>7, <2>3
        <3>2. QED
            BY <2>1, <2>3, <3>1
    <2>4. QED
        BY <2>2, <2>3
<1>8. ASSUME NEW r \in Read
      PROVE  /\ read'[r] \in ReadRecord /\ read'[r].at = read[r].at /\ read'[r].of = read[r].of
             /\ read'[r].need = read[r].need /\ read'[r].val = read[r].val /\ read[r].during \subseteq read'[r].during
             /\ read[r].at # "new" => w \in read'[r].during
    <2>1. read[r] \in ReadRecord /\ (r \in Reading <=> read[r].at # "new")
        BY <1>1, ReadFields DEF Reading
    <2>2. CASE r \in Reading
        <3>1. read'[r] = ReadOverlaps(read[r], w)
            BY <1>5, <2>2
        <3>2. read'[r] \in ReadRecord /\ read'[r].at = read[r].at /\ read'[r].of = read[r].of
              /\ read'[r].need = read[r].need /\ read'[r].val = read[r].val /\ read'[r].during = read[r].during \cup {w}
            BY <2>1, <3>1, ReadOverlapsMade
        <3>3. QED
            BY <3>2
    <2>3. CASE r \notin Reading
        <3>1. read'[r] = read[r]
            BY <1>5, <2>3
        <3>2. QED
            BY <2>1, <2>3, <3>1
    <2>4. QED
        BY <2>2, <2>3
<1>9. \A v \in Write : v # w => (InProgress(write'[v]) <=> InProgress(write[v]))
    BY <1>7 DEF InProgress
<1>10. ASSUME NEW v \in Write PROVE WriteOK(write'[v], ItemOf(mapping), chain.head, index.was, client.required)
    <2>1. CASE v = w
        BY <1>1, <1>3, <1>6, <2>1 DEF WriteOK
    <2>2. CASE v # w
        <3>1. WriteOK(write[v], ItemOf(mapping), chain.head, index.was, client.required)
            BY OneWrite
        <3>2. QED
            BY <1>7, <1>9, <2>2, <3>1 DEF WriteOK
    <2>3. QED
        BY <2>1, <2>2
<1>11. ASSUME NEW u \in Write, NEW v \in Write, u # v PROVE PairOK(write', u, v)
    <2>1. PairOK(write, u, v)
        BY <1>11 DEF RegistryInv
    <2>2. CASE v = w
        <3>1. InProgress(write'[u]) => u \in Writing
            BY <1>2, <1>9, <1>11, <2>2
        <3>2. QED
            BY <1>3, <1>6, <2>2, <3>1 DEF PairOK
    <2>3. CASE u = w
        BY <1>3, <1>6, <1>7, <1>9, <1>11, <2>3 DEF PairOK
    <2>4. CASE u # w /\ v # w
        BY <1>7, <1>9, <2>1, <2>4 DEF PairOK
    <2>5. QED
        BY <2>2, <2>3, <2>4
<1>12. ASSUME NEW r \in Read PROVE ReadOK(read'[r], write', mapping, index.block)
    <2>1. ReadOK(read[r], write, mapping, index.block)
        BY OneRead
    <2>2. ASSUME read[r].at # "new", NEW v \in Write, InProgress(write'[v]) PROVE v \in read'[r].during
        <3>1. CASE v = w
            BY <1>8, <2>2, <3>1
        <3>2. CASE v # w
            BY <1>8, <1>9, <2>1, <2>2, <3>2 DEF ReadOK
        <3>3. QED
            BY <3>1, <3>2
    <2>3. ASSUME NEW v \in Write, write'[v].at = "done", v \notin read'[r].during
          PROVE  write[v].at = "done" /\ v \notin read[r].during /\ write'[v].block = write[v].block
        <3>1. v # w
            BY <1>3, <1>6, <2>3
        <3>2. QED
            BY <1>7, <1>8, <2>3, <3>1
    <2>4. QED
        BY <1>8, <2>1, <2>2, <2>3 DEF ReadOK
<1>13. CacheOK(cache', write', mapping) /\ cache' \in [val : Int, during : SUBSET Write]
    <2>1. CASE cache' = None
        BY <2>1 DEF CacheOK, None
    <2>2. CASE cache' = cache /\ kind # "permissions"
        <3>1. CacheOK(cache, write, mapping) /\ cache \in [val : Int, during : SUBSET Write]
            BY DEF RegistryInv, RegistryTypes
        <3>2. N.at # "done" /\ N.kind # "permissions"
            BY <1>3, <2>2
        <3>3. QED
            BY <1>6, <1>7, <1>9, <2>2, <3>1, <3>2 DEF CacheOK
    <2>3. QED
        BY <2>1, <2>2
<1>14. write' \in [Write -> WriteRecord] /\ read' \in [Read -> ReadRecord]
    <2>1. \A v \in Write : write'[v] \in WriteRecord
        BY <1>3, <1>6, <1>7
    <2>2. QED
        BY <1>4, <1>5, <1>8, <2>1
<1>15. RegistryTypes' /\ ChainOK'
    BY <1>13, <1>14 DEF RegistryInv, RegistryTypes, ChainOK
<1>16. QED
    BY <1>10, <1>11, <1>12, <1>13, <1>15 DEF RegistryInv

LEMMA CallBegins ==
    ASSUME RegistryInv, NEW w \in Write,
           \/ UpdatePermissions(w) \/ SetPermissions(w) \/ CreateStream(w)
           \/ SetStreamMetadata(w) \/ DeleteStream(w) \/ AssignStorageNode(w)
    PROVE  RegistryInv'
<1>1. write[w].at = "new" /\ UNCHANGED <<mapping, chain, index, client>>
    BY DEF UpdatePermissions, SetPermissions, CreateStream, SetStreamMetadata, DeleteStream, AssignStorageNode
<1>2. CASE UpdatePermissions(w) \/ SetPermissions(w)
    <2>1. PICK txs \in Nat : BeginWrite(w, "permissions", txs)
        BY <1>2 DEF UpdatePermissions, SetPermissions
    <2>2. mapping \in Cache /\ ItemOf(mapping) \in Changes("permissions")
        BY <2>1 DEF BeginWrite, RegistryInv, RegistryTypes
    <2>3. mapping = "permissionCache"
        BY <2>2, ItemsOfCaches, ChangesOfKinds DEF Cache
    <2>4. cache' = None
        BY <1>2, <2>3 DEF UpdatePermissions, SetPermissions, Invalidated, PermissionCaches
    <2>5. "permissions" \in WriteKind
        BY DEF WriteKind
    <2>6. QED
        BY <1>1, <2>1, <2>4, <2>5, BeginKeeps
<1>3. CASE CreateStream(w) \/ SetStreamMetadata(w) \/ DeleteStream(w) \/ AssignStorageNode(w)
    <2>1. PICK kind \in {"create", "createEns", "setMetadata", "delete", "assign"} : BeginWrite(w, kind, 1) /\ cache' = cache
        BY <1>3 DEF CreateStream, SetStreamMetadata, DeleteStream, AssignStorageNode
    <2>2. kind \in WriteKind /\ kind # "permissions" /\ 1 \in Nat
        BY DEF WriteKind
    <2>3. QED
        BY <1>1, <2>1, <2>2, BeginKeeps
<1>4. QED
    BY <1>2, <1>3

-----------------------------------------------------------------------------
ReadWith(x, val, pages, at) == [x EXCEPT !.val = val, !.pages = pages, !.at = at]
GateOpened(x) == [x EXCEPT !.at = "query", !.need = 0]

LEMMA ReadWithMade ==
    ASSUME NEW x \in ReadRecord, NEW val \in Nat, NEW pages, NEW at, NEW y, pages \in Int, at \in {"answer", "query"}, y = ReadWith(x, val, pages, at)
    PROVE  y \in ReadRecord /\ y.at = at /\ y.of = x.of /\ y.val = val /\ y.during = x.during
BY DEF ReadRecord, ReadWith

LEMMA GateOpenedMade ==
    ASSUME NEW x \in ReadRecord, NEW y, y = GateOpened(x)
    PROVE  y \in ReadRecord /\ y.at = "query" /\ y.of = x.of /\ y.val = x.val /\ y.during = x.during
BY DEF ReadRecord, GateOpened

LEMMA NoReadMade ==
    NoRead \in ReadRecord /\ NoRead.at = "new" /\ \A W, m, i : ReadOK(NoRead, W, m, i)
BY DEF ReadRecord, NoRead, ReadOK

\* A read ends without a value.
LEMMA NoReadKeeps ==
    ASSUME RegistryInv, NEW r \in Read, read' = [read EXCEPT ![r] = NoRead], UNCHANGED <<chain, index, mapping, write, client>>,
           cache' \in [val : Int, during : SUBSET Write], CacheOK(cache', write, mapping)
    PROVE  RegistryInv'
<1>1. client' \in [required : Nat, known : Nat, polling : BOOLEAN] /\ client' = client
    BY ChainFields
<1>2. QED
    BY <1>1, NoReadMade, OneReadChanges

LEMMA CacheStays ==
    ASSUME RegistryInv
    PROVE  cache \in [val : Int, during : SUBSET Write] /\ CacheOK(cache, write, mapping)
BY DEF RegistryInv, RegistryTypes

\* A query waits for the calls that ended before it, unless The Graph is known to have their blocks.
LEMMA BeginReadKeeps ==
    ASSUME RegistryInv, NEW r \in Read, BeginRead(r)
    PROVE  RegistryInv'
<1>1. PICK of \in {mapping, "search"} :
          /\ \E pages \in 1 .. (IF of = "storageNodesCache" THEN MaxPages ELSE 1) :
               read' = [read EXCEPT ![r] = [at |-> IF FromGraph(of) /\ client.required > client.known THEN "gate" ELSE "query", of |-> of,
                                            need |-> IF FromGraph(of) /\ client.required > client.known THEN client.required ELSE 0,
                                            pages |-> pages, val |-> MaxBlock, during |-> Writing]]
          /\ client' = [client EXCEPT !.polling = @ \/ (FromGraph(of) /\ client.required > client.known)]
    BY DEF BeginRead
<1> PICK gate : gate = (FromGraph(of) /\ client.required > client.known)
    OBVIOUS
<1>0. PICK pages \in 1 .. (IF of = "storageNodesCache" THEN MaxPages ELSE 1) :
         read' = [read EXCEPT ![r] = [at |-> IF gate THEN "gate" ELSE "query", of |-> of, need |-> IF gate THEN client.required ELSE 0,
                                          pages |-> pages, val |-> MaxBlock, during |-> Writing]]
    BY <1>1
<1> PICK at : at = IF gate THEN "gate" ELSE "query"
    OBVIOUS
<1> PICK need : need = IF gate THEN client.required ELSE 0
    OBVIOUS
<1> PICK x : x = [at |-> at, of |-> of, need |-> need, pages |-> pages, val |-> MaxBlock, during |-> Writing]
    OBVIOUS
<1>2. read' = [read EXCEPT ![r] = x]
    BY <1>0
<1>3. UNCHANGED <<mapping, chain, index, cache, write>>
    BY DEF BeginRead
<1>4. /\ mapping \in Cache /\ MaxBlock \in Nat /\ client.required \in Nat /\ client.known \in Nat /\ index.block \in Nat
      /\ client.known <= index.block /\ chain.head \in 0 .. MaxBlock
    BY ChainFields DEF RegistryInv, RegistryTypes
<1>13. pages \in Int
    BY RegistriesAssumption
<1>5. at \in {"gate", "query"} /\ need \in Nat /\ Writing \subseteq Write /\ of \in Cache \cup {"search"}
    BY <1>4 DEF Writing
<1>6. x \in ReadRecord
    BY <1>4, <1>5, <1>13 DEF ReadRecord
<1>7. ASSUME NEW w \in Write, write[w].at = "done"
      PROVE  /\ write[w].block <= MaxBlock
             /\ FromGraph(of) => (at = "gate" => write[w].block <= need) /\ (at = "query" => write[w].block <= index.block)
    <2>1. write[w].block \in Nat /\ write[w].block <= chain.head /\ write[w].block <= client.required
        BY <1>7, OneWrite, WriteFields DEF WriteOK
    <2>2. CASE gate
        BY <1>4, <2>1, <2>2
    <2>3. CASE ~gate
        <3>1. FromGraph(of) => ~(client.required > client.known)
            BY <2>3, Zenon
        <3>2. FromGraph(of) => write[w].block <= index.block
            BY <1>4, <2>1, <3>1
        <3>3. QED
            BY <1>4, <2>1, <2>3, <3>2
    <2>4. QED
        BY <2>2, <2>3
<1>8. x.at = at /\ x.of = of /\ x.need = need /\ x.val = MaxBlock /\ x.during = Writing
    OBVIOUS
<1>9. \A w \in Write : InProgress(write[w]) => w \in Writing
    BY DEF Writing, InProgress
<1>10. ReadOK(x, write, mapping, index.block)
    BY <1>7, <1>8, <1>9 DEF ReadOK
<1>11. /\ client' \in [required : Nat, known : Nat, polling : BOOLEAN]
       /\ client'.required = client.required /\ client'.known = client.known
    <2> PICK polling : polling = (client.polling \/ gate)
        OBVIOUS
    <2>1. polling \in BOOLEAN /\ client' = [client EXCEPT !.polling = polling]
        BY <1>1
    <2>2. client \in [required : Nat, known : Nat, polling : BOOLEAN]
        BY ChainFields
    <2>3. QED
        BY <2>1, <2>2
<1>12. QED
    BY <1>2, <1>3, <1>6, <1>10, <1>11, CacheStays, OneReadChanges

LEMMA MinOfTwo ==
    ASSUME NEW a \in Nat, NEW b \in Nat
    PROVE  Min({a, b}) = IF a <= b THEN a ELSE b
BY DEF Min

\* What a page or the contract answers is not older than the calls before the read.
LEMMA ReadAnsweredKeeps ==
    ASSUME RegistryInv, NEW r \in Read, ReadAnswered(r)
    PROVE  RegistryInv'
<1> PICK of : of = read[r].of
    OBVIOUS
<1> PICK seen : seen = IF FromGraph(of) THEN index.was[index.block] ELSE OnChain
    OBVIOUS
<1> PICK item : item = ItemRead(of)
    OBVIOUS
<1>1. /\ read[r] \in ReadRecord /\ ReadOK(read[r], write, mapping, index.block) /\ mapping \in Cache /\ read[r].at = "query"
      /\ ItemOf(mapping) \in Item
    BY OneRead DEF ReadAnswered
<1>2. /\ MaxBlock \in Nat /\ chain.head \in 0 .. MaxBlock /\ index.block \in Nat /\ index.block <= chain.head
      /\ index.was \in [0 .. MaxBlock -> Snapshot] /\ chain.last \in [Item -> Nat] /\ chain.exists \in BOOLEAN
    BY ChainFields
<1>3. of \in {mapping, "search"} /\ read[r].val \in Nat /\ read[r].pages \in Int
    BY <1>1, ReadFields DEF ReadOK
<1>4. item \in Item
    BY <1>1, <1>3 DEF ItemRead, Item
<1>5. seen.last \in [Item -> Nat]
    <2>1. index.was[index.block] \in Snapshot
        BY <1>2
    <2>2. QED
        BY <1>2, <2>1 DEF Snapshot, OnChain
<1>6. UNCHANGED <<mapping, chain, index, client, cache, write>>
    BY DEF ReadAnswered
<1>7. CASE NotFound(of, seen.exists)
    <2>1. read' = [read EXCEPT ![r] = NoRead]
        BY <1>7 DEF ReadAnswered
    <2>2. QED
        BY <1>6, <2>1, CacheStays, NoReadKeeps
<1>8. CASE ~NotFound(of, seen.exists)
    <2>9. PICK seenVal \in Nat : seenVal = seen.last[item]
        BY <1>4, <1>5
    <2>10. PICK val \in Nat : val = IF read[r].val <= seenVal THEN read[r].val ELSE seenVal
        BY <1>3
    <2>11. PICK pages : pages = read[r].pages - 1
        OBVIOUS
    <2>12. PICK at : at = IF read[r].pages = 1 THEN "answer" ELSE "query"
        OBVIOUS
    <2>13. PICK x : x = ReadWith(read[r], val, pages, at)
        OBVIOUS
    <2>1. Min({read[r].val, seen.last[item]}) = val
        BY <1>3, <2>9, <2>10, MinOfTwo
    <2>2. read' = [read EXCEPT ![r] = [read[r] EXCEPT !.val = Min({read[r].val, seen.last[item]}), !.pages = read[r].pages - 1,
                                                      !.at = IF read[r].pages = 1 THEN "answer" ELSE "query"]]
        BY <1>8 DEF ReadAnswered
    <2>3. read' = [read EXCEPT ![r] = x]
        BY <2>1, <2>2, <2>11, <2>12, <2>13 DEF ReadWith
    <2>4. x \in ReadRecord /\ x.at = at /\ x.of = of /\ x.val = val /\ x.during = read[r].during
        <3>1. read[r] \in ReadRecord
            BY <1>1
        <3>4. pages \in Int /\ at \in {"answer", "query"}
            BY <1>3, <2>11, <2>12
        <3>2. x \in ReadRecord /\ x.at = at /\ x.of = read[r].of /\ x.val = val /\ x.during = read[r].during
            BY <2>13, <3>1, <3>4, ReadWithMade
        <3>3. QED
            BY <3>2
    <2>5. ASSUME of = mapping \/ mapping = "metadataCache", NEW w \in Write, write[w].at = "done", w \notin read[r].during
          PROVE  write[w].block <= val /\ (FromGraph(of) => write[w].block <= index.block)
        <3>1. /\ write[w].block <= read[r].val /\ (FromGraph(of) => write[w].block <= index.block)
              /\ write[w].block \in Nat /\ write[w].block <= chain.head
            BY <1>1, <2>5, OneWrite, WriteFields DEF ReadOK, WriteOK
        <3>2. item = ItemOf(mapping) /\ item \in Changes(write[w].kind) /\ write[w].kind \in WriteKind
            <4>1. item = ItemOf(mapping)
                <5>1. CASE of = "search"
                    <6>1. mapping = "metadataCache"
                        BY <1>1, <2>5, <5>1 DEF Cache
                    <6>2. QED
                        BY <5>1, <6>1, ItemsOfCaches DEF ItemRead
                <5>2. CASE of # "search"
                    BY <1>3, <5>2 DEF ItemRead
                <5>3. QED
                    BY <5>1, <5>2
            <4>2. WriteOK(write[w], ItemOf(mapping), chain.head, index.was, client.required) /\ write[w] \in WriteRecord
                BY OneWrite
            <4>3. ItemOf(mapping) \in Changes(write[w].kind)
                BY <2>5, <4>2 DEF WriteOK
            <4>4. QED
                BY <4>1, <4>2, <4>3, WriteFields
        <3>3. \A b \in write[w].block .. chain.head :
                 index.was[b].last[item] >= write[w].block \/ (write[w].kind = "createEns" /\ ~index.was[b].exists)
            BY <2>5, <3>2, OneWrite DEF WriteOK
        <3>4. seen.last[item] >= write[w].block \/ (write[w].kind = "createEns" /\ ~seen.exists)
            <4>1. CASE FromGraph(of)
                <5>1. index.block \in write[w].block .. chain.head
                    BY <1>2, <3>1, <4>1
                <5>2. QED
                    BY <3>3, <4>1, <5>1
            <4>2. CASE ~FromGraph(of)
                <5>1. chain.head \in write[w].block .. chain.head
                    <6>1. chain.head \in Nat
                        BY <1>2
                    <6>2. QED
                        BY <3>1, <6>1
                <5>2. chain.last[item] >= write[w].block \/ (write[w].kind = "createEns" /\ ~chain.exists)
                    BY <3>3, <5>1, ChainFields
                <5>3. seen.last = chain.last /\ (seen.exists <=> chain.exists)
                    BY <1>2, <4>2 DEF OnChain
                <5>4. QED
                    BY <5>2, <5>3
            <4>3. QED
                BY <4>1, <4>2
        <3>5. ~(write[w].kind = "createEns" /\ ~seen.exists)
            <4>1. write[w].kind = "createEns" => of \in {"metadataCache", "permissionCache", "search"}
                BY <1>1, <1>3, <3>2, ItemsOfCaches, ChangesOfKinds DEF Cache
            <4>2. QED
                BY <1>8, <4>1 DEF NotFound
        <3>6. QED
            BY <1>3, <2>9, <2>10, <3>1, <3>4, <3>5
    <2>6. ReadOK(x, write, mapping, index.block)
        <3>1. x.at \in {"answer", "query"} /\ x.of \in {mapping, "search"}
            BY <1>3, <2>4, <2>12
        <3>2. \A w \in Write : InProgress(write[w]) => w \in x.during
            BY <1>1, <2>4 DEF ReadOK
        <3>3. QED
            BY <2>4, <2>5, <3>1, <3>2 DEF ReadOK
    <2>7. client \in [required : Nat, known : Nat, polling : BOOLEAN]
        BY ChainFields
    <2>8. QED
        BY <1>6, <2>3, <2>4, <2>6, <2>7, CacheStays, OneReadChanges
<1>9. QED
    BY <1>7, <1>8

\* The value of a read is cached.
LEMMA LandsKeeps ==
    ASSUME RegistryInv, NEW r \in Read, Lands(r)
    PROVE  RegistryInv'
<1>1. read[r] \in ReadRecord /\ ReadOK(read[r], write, mapping, index.block) /\ read[r].at = "answer"
    BY OneRead DEF Lands
<1>2. read[r].val \in Nat /\ read[r].during \subseteq Write
    BY <1>1, ReadFields
<1>3. read' = [read EXCEPT ![r] = NoRead] /\ UNCHANGED <<chain, index, mapping, write, client>>
    BY DEF Lands
<1>4. CASE read[r].of = mapping \/ mapping = "metadataCache"
    <2>1. PICK k : k = [val |-> read[r].val, during |-> read[r].during]
        OBVIOUS
    <2>2. k \in [val : Int, during : SUBSET Write] /\ k.val = read[r].val /\ k.during = read[r].during
        BY <1>2, <2>1
    <2>3. cache' = k
        BY <1>4, <2>1 DEF Lands
    <2>4. ASSUME NEW w \in Write, write[w].at = "done", write[w].block > k.val PROVE w \in k.during
        <3>1. write[w].block \in Nat
            BY OneWrite, WriteFields
        <3>2. w \notin read[r].during => write[w].block <= read[r].val
            BY <1>1, <1>4, <2>4 DEF ReadOK
        <3>3. QED
            BY <1>2, <2>2, <2>4, <3>1, <3>2
    <2>5. \A w \in Write : InProgress(write[w]) => w \in k.during
        BY <1>1, <2>2 DEF ReadOK
    <2>6. CacheOK(k, write, mapping)
        BY <2>4, <2>5 DEF CacheOK
    <2>7. QED
        BY <1>3, <2>2, <2>3, <2>6, NoReadKeeps
<1>5. CASE ~(read[r].of = mapping \/ mapping = "metadataCache")
    <2>1. cache' = cache
        BY <1>5 DEF Lands
    <2>2. QED
        BY <1>3, <2>1, CacheStays, NoReadKeeps
<1>6. QED
    BY <1>4, <1>5

ClientPolled(x, block, polling) == [x EXCEPT !.known = block, !.polling = polling]

LEMMA ClientPolledMade ==
    ASSUME NEW x \in [required : Nat, known : Nat, polling : BOOLEAN], NEW block \in Nat, NEW polling \in BOOLEAN,
           NEW y, y = ClientPolled(x, block, polling)
    PROVE  y \in [required : Nat, known : Nat, polling : BOOLEAN] /\ y.required = x.required /\ y.known = block
BY DEF ClientPolled

\* A poll opens the gates of the reads whose block The Graph has.
LEMMA PollAnsweredKeeps ==
    ASSUME RegistryInv, PollAnswered
    PROVE  RegistryInv'
<1>1. PICK block \in 0 .. index.block :
         /\ read' = [r \in Read |-> IF r \in {q \in Waiters : block # client.known /\ GateOpens(q, block)}
                                    THEN [read[r] EXCEPT !.at = "query", !.need = 0] ELSE read[r]]
         /\ client' = [client EXCEPT !.known = block,
                         !.polling = Waiters \ {q \in Waiters : block # client.known /\ GateOpens(q, block)} # {}]
    BY DEF PollAnswered
<1>2. PICK open : open = {q \in Waiters : block # client.known /\ GateOpens(q, block)}
    OBVIOUS
<1>3. read' = [r \in Read |-> IF r \in open THEN GateOpened(read[r]) ELSE read[r]]
    BY <1>1, <1>2 DEF GateOpened
<1>4. UNCHANGED <<chain, index, mapping, cache, write>>
    BY DEF PollAnswered
<1>5. /\ index.block \in Nat /\ block \in Nat /\ block <= index.block /\ index.block <= chain.head
      /\ client \in [required : Nat, known : Nat, polling : BOOLEAN]
    BY ChainFields
<1>6. /\ client' \in [required : Nat, known : Nat, polling : BOOLEAN]
      /\ client'.required = client.required /\ client'.known = block
    <2>1. PICK polling \in BOOLEAN : client' = ClientPolled(client, block, polling)
        BY <1>1 DEF ClientPolled
    <2>2. QED
        BY <1>5, <2>1, ClientPolledMade
<1>7. read \in [Read -> ReadRecord] /\ index.block \in Nat
    BY <1>5 DEF RegistryInv, RegistryTypes
<1>8. ASSUME NEW r \in Read PROVE read'[r] \in ReadRecord /\ ReadOK(read'[r], write, mapping, index.block)
    <2>1. read[r] \in ReadRecord /\ ReadOK(read[r], write, mapping, index.block)
        BY OneRead
    <2>2. CASE r \notin open
        BY <1>3, <2>1, <2>2
    <2>3. CASE r \in open
        <3>1. read'[r] = GateOpened(read[r])
            BY <1>3, <2>3
        <3>2. read[r] \in ReadRecord
            BY <2>1
        <3>3. /\ read'[r] \in ReadRecord /\ read'[r].at = "query" /\ read'[r].of = read[r].of
              /\ read'[r].val = read[r].val /\ read'[r].during = read[r].during
            BY <3>1, <3>2, GateOpenedMade
        <3>4. read[r].at = "gate" /\ read[r].need <= block /\ read[r].need \in Nat
            BY <1>2, <2>1, <2>3, ReadFields DEF Waiters, GateOpens
        <3>5. \A w \in Write : write[w].block \in Nat
            BY OneWrite, WriteFields
        <3>6. \A w \in Write : write[w].block <= read[r].need => write[w].block <= index.block
            BY <1>5, <3>4, <3>5
        <3>7. QED
            BY <2>1, <3>3, <3>4, <3>6 DEF ReadOK
    <2>4. QED
        BY <2>2, <2>3
<1>9. read' \in [Read -> ReadRecord]
    BY <1>3, <1>8
<1>10. RegistryTypes' /\ ChainOK'
    BY <1>4, <1>5, <1>6, <1>9 DEF RegistryInv, RegistryTypes, ChainOK
<1>11. QED
    BY <1>4, <1>6, <1>8, <1>10 DEF RegistryInv

\* The Graph indexes a block.
LEMMA IndexesKeeps ==
    ASSUME RegistryInv, Indexes
    PROVE  RegistryInv'
<1>1. /\ index \in [block : Nat, was : [0 .. MaxBlock -> Snapshot]] /\ index.block \in Nat /\ client.known \in Nat
      /\ chain.head \in 0 .. MaxBlock /\ client.known <= index.block /\ index.block < chain.head
    BY ChainFields DEF Indexes
<1>2. PICK b \in Nat : b = index.block + 1
    BY <1>1
<1>3. index' = [index EXCEPT !.block = b] /\ UNCHANGED <<mapping, chain, client, cache, write, read>>
    BY <1>2 DEF Indexes
<1>4. /\ index' \in [block : Nat, was : [0 .. MaxBlock -> Snapshot]] /\ index'.block = b /\ index'.was = index.was
    BY <1>1, <1>3
<1>5. b <= chain.head /\ client.known <= b
    BY <1>1, <1>2
<1>6. RegistryTypes' /\ ChainOK'
    BY <1>3, <1>4, <1>5 DEF RegistryInv, RegistryTypes, ChainOK
<1>7. ASSUME NEW r \in Read PROVE ReadOK(read[r], write, mapping, b)
    <2>1. ReadOK(read[r], write, mapping, index.block)
        BY OneRead
    <2>2. \A w \in Write : write[w].block \in Nat
        BY OneWrite, WriteFields
    <2>3. \A w \in Write : write[w].block <= index.block => write[w].block <= b
        BY <1>1, <1>2, <2>2
    <2>4. QED
        BY <2>1, <2>3 DEF ReadOK
<1>8. QED
    BY <1>3, <1>4, <1>6, <1>7 DEF RegistryInv

LEMMA EvictKeeps ==
    ASSUME RegistryInv, Evict
    PROVE  RegistryInv'
<1>1. cache' = None /\ UNCHANGED <<mapping, chain, index, client, write, read>>
    BY DEF Evict
<1>2. None \in [val : Int, during : SUBSET Write] /\ CacheOK(None, write, mapping)
    BY DEF None, CacheOK
<1>3. RegistryTypes' /\ ChainOK'
    BY <1>1, <1>2 DEF RegistryInv, RegistryTypes, ChainOK
<1>4. QED
    BY <1>1, <1>2, <1>3 DEF RegistryInv

LEMMA RegistryInitially ==
    ASSUME RegistriesInit
    PROVE  RegistryInv
<1>1. PICK e \in BOOLEAN :
         /\ chain = [head |-> 0, last |-> [i \in Item |-> 0], exists |-> e]
         /\ index = [block |-> 0, was |-> [b \in 0 .. MaxBlock |-> [last |-> [i \in Item |-> 0], exists |-> e]]]
    BY DEF RegistriesInit
<1>2. PICK none : none = [i \in Item |-> 0]
    OBVIOUS
<1>3. PICK s : s = [last |-> none, exists |-> e]
    OBVIOUS
<1>4. MaxBlock \in Nat /\ 0 \in 0 .. MaxBlock /\ none \in [Item -> Nat] /\ s \in Snapshot
    BY <1>2, <1>3, RegistriesAssumption DEF Snapshot
<1>5. chain = [head |-> 0, last |-> none, exists |-> e] /\ index = [block |-> 0, was |-> [b \in 0 .. MaxBlock |-> s]]
    BY <1>1, <1>2, <1>3
<1>6. chain \in [head : 0 .. MaxBlock, last : [Item -> Nat], exists : BOOLEAN]
    BY <1>4, <1>5
<1>7. index \in [block : Nat, was : [0 .. MaxBlock -> Snapshot]]
    BY <1>4, <1>5
<1>8. client = [required |-> 0, known |-> 0, polling |-> FALSE] /\ client \in [required : Nat, known : Nat, polling : BOOLEAN]
    BY DEF RegistriesInit, NewGraphClient
<1>9. mapping \in Cache /\ cache = None /\ cache \in [val : Int, during : SUBSET Write]
    BY DEF RegistriesInit, None
<1>10. NoWrite \in WriteRecord /\ NoWrite.at = "new" /\ NoWrite.block = 0 /\ ~InProgress(NoWrite)
    BY DEF NoWrite, WriteRecord, WriteKind, InProgress
<1>11. write = [w \in Write |-> NoWrite] /\ read = [r \in Read |-> NoRead]
    BY DEF RegistriesInit
<1>12. RegistryTypes
    <2>1. write \in [Write -> WriteRecord] /\ read \in [Read -> ReadRecord]
        BY <1>10, <1>11, NoReadMade
    <2>2. QED
        BY <1>6, <1>7, <1>8, <1>9, <2>1 DEF RegistryTypes
<1>13. ChainOK
    <2>1. index.was[0] = s /\ s.last = none /\ (s.exists <=> e) /\ index.block = 0
        BY <1>3, <1>4, <1>5
    <2>2. chain.head = 0 /\ chain.last = none /\ (chain.exists <=> e) /\ client.known = 0
        BY <1>5, <1>8
    <2>3. QED
        BY <2>1, <2>2 DEF ChainOK
<1>14. ASSUME NEW w \in Write PROVE WriteOK(write[w], ItemOf(mapping), chain.head, index.was, client.required)
    <2>1. write[w] = NoWrite /\ chain.head = 0
        BY <1>5, <1>11
    <2>2. QED
        BY <1>10, <2>1 DEF WriteOK
<1>15. \A v, w \in Write : PairOK(write, v, w)
    BY <1>10, <1>11 DEF PairOK
<1>16. \A r \in Read : ReadOK(read[r], write, mapping, index.block)
    BY <1>11, NoReadMade
<1>17. CacheOK(cache, write, mapping)
    BY <1>9 DEF CacheOK
<1>18. QED
    BY <1>12, <1>13, <1>14, <1>15, <1>16, <1>17 DEF RegistryInv

LEMMA RegistryInductive ==
    RegistryInv /\ [RegistriesNext]_registryVars => RegistryInv'
<1> SUFFICES ASSUME RegistryInv, [RegistriesNext]_registryVars PROVE RegistryInv'
    OBVIOUS
<1>1. CASE UNCHANGED registryVars
    <2>1. UNCHANGED <<chain, index, client, mapping, cache, write, read>>
        BY <1>1 DEF registryVars
    <2>2. RegistryTypes' /\ ChainOK'
        BY <2>1 DEF RegistryInv, RegistryTypes, ChainOK
    <2>3. QED
        BY <2>1, <2>2 DEF RegistryInv
<1>2. ASSUME NEW w \in Write,
             \/ UpdatePermissions(w) \/ SetPermissions(w) \/ CreateStream(w)
             \/ SetStreamMetadata(w) \/ DeleteStream(w) \/ AssignStorageNode(w)
      PROVE  RegistryInv'
    BY <1>2, CallBegins
<1>3. ASSUME NEW w \in Write, RejectedAtOnce(w) PROVE RegistryInv'
    BY <1>1, <1>3 DEF RejectedAtOnce
<1>4. ASSUME NEW w \in Write, Refused(w) \/ TransactionFails(w) PROVE RegistryInv'
    <2>1. InProgress(write[w]) /\ Fail(w) /\ UNCHANGED <<mapping, chain, index, client, cache, read>>
        BY <1>4 DEF Refused, TransactionFails, InProgress
    <2>2. QED
        BY <2>1, FailKeeps
<1>5. ASSUME NEW w \in Write, Mined(w) \/ Confirmed(w) \/ EnsCreates(w) \/ EnsPolled(w) PROVE RegistryInv'
    BY <1>5, MinedKeeps, ConfirmedKeeps, EnsCreatesKeeps, EnsPolledKeeps
<1>6. ASSUME NEW r \in Read, GateTimesOut(r) \/ ReadFails(r) PROVE RegistryInv'
    <2>1. read' = [read EXCEPT ![r] = NoRead] /\ UNCHANGED <<chain, index, mapping, write, client>> /\ cache' = cache
        BY <1>6 DEF GateTimesOut, ReadFails
    <2>2. QED
        BY <2>1, CacheStays, NoReadKeeps
<1>7. ASSUME NEW r \in Read, BeginRead(r) \/ ReadAnswered(r) \/ Lands(r) PROVE RegistryInv'
    BY <1>7, BeginReadKeeps, ReadAnsweredKeeps, LandsKeeps
<1>8. CASE PollAnswered \/ Indexes \/ Evict
    BY <1>8, PollAnsweredKeeps, IndexesKeeps, EvictKeeps
<1>9. QED
    BY <1>1, <1>2, <1>3, <1>4, <1>5, <1>6, <1>7, <1>8 DEF RegistriesNext

\* A client reads its own writes (StreamRegistry, StreamStorageRegistry, waitUntilIndexed(), Mapping), for
\* any number of calls, reads, blocks, pages and faults.
THEOREM OwnWritesAreReadAlways ==
    RegistriesSpec => []OwnWritesAreRead
<1>1. RegistryInv => OwnWritesAreRead
    BY DEF RegistryInv, CacheOK, OwnWritesAreRead
<1>2. QED
    BY <1>1, RegistryInitially, RegistryInductive, PTL DEF RegistriesSpec

-----------------------------------------------------------------------------
(* ProxyClient: what is on its way between the client and a proxy: W to    *)
(* the proxy, R to the client; s is what the proxy serves.                 *)

ProxyMessage == [kind : {"request", "leave", "accepted"}, id : Nat, direction : Direction \cup {NoDirection}]
AttemptRecord == [id : Nat, node : Proxy, direction : Direction, version : Nat]
ProxyDefinition == [nodes : SUBSET Proxy, direction : Direction \cup {NoDirection}, count : Nat, version : Nat]

ProxyTypes ==
    /\ definition \in ProxyDefinition
    /\ connections \in [Proxy -> Direction \cup {NoDirection}] /\ served \in [Proxy -> Direction \cup {NoDirection}]
    /\ proxyLocks \in SUBSET Proxy /\ outdated \in SUBSET Proxy
    /\ pendingAttempts \in SUBSET AttemptRecord /\ attemptCount \in Nat
    /\ toProxy \in [Proxy -> Seq(ProxyMessage)] /\ toClient \in [Proxy -> Seq(ProxyMessage)]

\* A message of an attempt in P goes to or comes from its proxy, and asks for its direction.
WireOK(W, n, P, count) ==
    \A i \in 1 .. Len(W) :
        /\ W[i].id <= count
        /\ W[i].kind # "leave" =>
             \A a \in P : a.id = W[i].id => a.node = n /\ (W[i].kind = "request" => a.direction = W[i].direction)

\* From i on W asks for direction d.
AsksFor(W, i, d) == \A k \in 1 .. Len(W) : k >= i => W[k].kind = "request" /\ W[k].direction = d

\* Unless it says otherwise after j, the proxy serves d once it has got what is on its way.
WillServe(W, R, s, d, j) ==
    /\ AsksFor(W, 1, d)
    /\ Len(W) > 0 \/ s = d \/ \E k \in 1 .. Len(R) : k >= j /\ R[k].kind = "leave"

\* An attempt that nothing has overtaken, when it is accepted, leads to the connection that the definition asks for.
AttemptOK(a, def, W, R, s) ==
    a.version = def.version =>
        /\ a.node \in def.nodes /\ a.direction = def.direction
        /\ \A i \in 1 .. Len(W) : W[i].kind = "request" /\ W[i].id = a.id => AsksFor(W, i + 1, def.direction)
        /\ \A j \in 1 .. Len(R) : R[j].kind = "accepted" /\ R[j].id = a.id => WillServe(W, R, s, def.direction, j + 1)

ConnectionOK(n, def, c, lock, old, W, R, s) ==
    /\ lock <=> c # NoDirection
    /\ c # NoDirection /\ ~old => n \in def.nodes /\ c = def.direction /\ WillServe(W, R, s, def.direction, 1)

AttemptsOK(P, def, count) ==
    /\ \A a, b \in P : a.id = b.id => a = b
    /\ \A a \in P : a.id <= count /\ a.version <= def.version

\* No attempt or connection before there is a definition or after the stop.
ProxyIdle ==
    /\ definition.version = 0 \/ clientStopped => pendingAttempts = {} /\ \A n \in Proxy : connections[n] = NoDirection
    /\ definition.version # 0 => definition.direction \in Direction

ProxyInv ==
    /\ ProxyTypes /\ ProxyIdle /\ AttemptsOK(pendingAttempts, definition, attemptCount)
    /\ \A n \in Proxy :
         /\ WireOK(toProxy[n], n, pendingAttempts, attemptCount) /\ WireOK(toClient[n], n, pendingAttempts, attemptCount)
         /\ ConnectionOK(n, definition, connections[n], n \in proxyLocks, n \in outdated, toProxy[n], toClient[n], served[n])
    /\ \A a \in pendingAttempts : AttemptOK(a, definition, toProxy[a.node], toClient[a.node], served[a.node])

LEMMA ProxyConstants ==
    IsFiniteSet(Proxy) /\ NoDirection \notin Direction
BY ProxyAssumption DEF NoDirection

LEMMA MessageFields ==
    ASSUME NEW m \in ProxyMessage
    PROVE  m.kind \in {"request", "leave", "accepted"} /\ m.id \in Nat /\ m.direction \in Direction \cup {NoDirection}
BY DEF ProxyMessage

LEMMA AttemptFields ==
    ASSUME NEW a \in AttemptRecord
    PROVE  a.id \in Nat /\ a.node \in Proxy /\ a.direction \in Direction /\ a.version \in Nat
BY DEF AttemptRecord

LEMMA MessagesMade ==
    /\ ProxyLeaveNotice \in ProxyMessage /\ ProxyLeaveNotice.kind = "leave" /\ ProxyLeaveNotice.id = 0
    /\ \A id \in Nat, d \in Direction :
         /\ ConnectionRequest(id, d) \in ProxyMessage /\ ConnectionRequest(id, d).kind = "request"
         /\ ConnectionRequest(id, d).id = id /\ ConnectionRequest(id, d).direction = d
    /\ \A id \in Nat : Accepted(id) \in ProxyMessage /\ Accepted(id).kind = "accepted" /\ Accepted(id).id = id
BY DEF ProxyLeaveNotice, ConnectionRequest, Accepted, ProxyMessage

\* What a message more at the end, or one less at the head, changes.
LEMMA AppendedMessage ==
    ASSUME NEW W \in Seq(ProxyMessage), NEW m \in ProxyMessage
    PROVE  /\ Append(W, m) \in Seq(ProxyMessage) /\ Len(Append(W, m)) = Len(W) + 1 /\ Len(W) \in Nat
           /\ \A i \in 1 .. Len(W) : Append(W, m)[i] = W[i] /\ W[i] \in ProxyMessage
           /\ Append(W, m)[Len(W) + 1] = m
OBVIOUS

LEMMA TakenMessage ==
    ASSUME NEW W \in Seq(ProxyMessage), W # <<>>
    PROVE  /\ Tail(W) \in Seq(ProxyMessage) /\ Len(W) \in Nat /\ Len(W) >= 1 /\ Len(Tail(W)) = Len(W) - 1
           /\ \A i \in 1 .. Len(Tail(W)) : i + 1 \in 1 .. Len(W) /\ Tail(W)[i] = W[i + 1]
           /\ Head(W) = W[1] /\ 1 \in 1 .. Len(W) /\ Head(W) \in ProxyMessage
           /\ \A k \in 1 .. Len(W) : k = 1 \/ (k - 1 \in 1 .. Len(Tail(W)) /\ Tail(W)[k - 1] = W[k])
OBVIOUS

LEMMA WireGrows ==
    ASSUME NEW W \in Seq(ProxyMessage), NEW m \in ProxyMessage, NEW n, NEW P, NEW count \in Nat, WireOK(W, n, P, count), m.id <= count,
           m.kind # "leave" => \A a \in P : a.id = m.id => a.node = n /\ (m.kind = "request" => a.direction = m.direction)
    PROVE  WireOK(Append(W, m), n, P, count)
<1> PICK X : X = Append(W, m)
    OBVIOUS
<1>1. /\ Len(X) = Len(W) + 1 /\ Len(W) \in Nat /\ X[Len(W) + 1] = m
      /\ \A i \in 1 .. Len(W) : X[i] = W[i]
    BY AppendedMessage
<1>2. ASSUME NEW i \in 1 .. Len(X)
      PROVE  /\ X[i].id <= count
             /\ X[i].kind # "leave" => \A a \in P : a.id = X[i].id => a.node = n /\ (X[i].kind = "request" => a.direction = X[i].direction)
    <2>1. CASE i \in 1 .. Len(W)
        BY <1>1, <2>1 DEF WireOK
    <2>2. CASE i = Len(W) + 1
        BY <1>1, <2>2
    <2>3. QED
        BY <1>1, <2>1, <2>2
<1>3. QED
    BY <1>2 DEF WireOK

LEMMA WireShrinks ==
    ASSUME NEW W \in Seq(ProxyMessage), W # <<>>, NEW n, NEW P, NEW count, WireOK(W, n, P, count)
    PROVE  WireOK(Tail(W), n, P, count)
BY TakenMessage DEF WireOK

\* Fewer attempts, attempts that are overtaken, and a higher count.
LEMMA WireKeeps ==
    ASSUME NEW W \in Seq(ProxyMessage), NEW n, NEW P, NEW Q, NEW count \in Nat, NEW higher \in Nat, WireOK(W, n, P, count), count <= higher,
           \A b \in Q : (\E a \in P : b.id = a.id /\ b.node = a.node /\ b.direction = a.direction) \/ (b.id \in Nat /\ b.id > count)
    PROVE  WireOK(W, n, Q, higher)
<1>1. ASSUME NEW i \in 1 .. Len(W)
      PROVE  /\ W[i].id <= higher
             /\ W[i].kind # "leave" => \A b \in Q : b.id = W[i].id => b.node = n /\ (W[i].kind = "request" => b.direction = W[i].direction)
    <2>1. W[i] \in ProxyMessage
        OBVIOUS
    <2>2. W[i].id \in Nat /\ W[i].id <= count
        BY <2>1, MessageFields DEF WireOK
    <2>3. W[i].id <= higher
        BY <2>2
    <2>4. ASSUME NEW b \in Q, b.id = W[i].id, W[i].kind # "leave" PROVE b.node = n /\ (W[i].kind = "request" => b.direction = W[i].direction)
        <3>1. ~(b.id \in Nat /\ b.id > count)
            BY <2>2, <2>4
        <3>2. PICK a \in P : b.id = a.id /\ b.node = a.node /\ b.direction = a.direction
            BY <3>1
        <3>3. a.id = W[i].id
            BY <2>4, <3>2
        <3>4. a.node = n /\ (W[i].kind = "request" => a.direction = W[i].direction)
            BY <2>4, <3>3 DEF WireOK
        <3>5. QED
            BY <3>2, <3>4
    <2>5. QED
        BY <2>3, <2>4
<1>2. QED
    BY <1>1 DEF WireOK

LEMMA AsksForMore ==
    ASSUME NEW W \in Seq(ProxyMessage), NEW m \in ProxyMessage, NEW i \in Nat, NEW d, AsksFor(W, i, d), m.kind = "request", m.direction = d
    PROVE  AsksFor(Append(W, m), i, d)
<1> PICK X : X = Append(W, m)
    OBVIOUS
<1>1. /\ Len(X) = Len(W) + 1 /\ Len(W) \in Nat /\ X[Len(W) + 1] = m
      /\ \A k \in 1 .. Len(W) : X[k] = W[k]
    BY AppendedMessage
<1>2. \A k \in 1 .. Len(X) : k \in 1 .. Len(W) \/ k = Len(W) + 1
    BY <1>1
<1>3. QED
    BY <1>1, <1>2 DEF AsksFor

LEMMA AsksForRest ==
    ASSUME NEW W \in Seq(ProxyMessage), W # <<>>, NEW i \in Nat, NEW d, AsksFor(W, i + 1, d)
    PROVE  AsksFor(Tail(W), i, d)
<1> PICK X : X = Tail(W)
    OBVIOUS
<1>1. \A k \in 1 .. Len(X) : k + 1 \in 1 .. Len(W) /\ X[k] = W[k + 1]
    BY TakenMessage
<1>2. ASSUME NEW k \in 1 .. Len(X), k >= i PROVE X[k].kind = "request" /\ X[k].direction = d
    <2>1. k + 1 >= i + 1 /\ k + 1 \in 1 .. Len(W)
        BY <1>1, <1>2
    <2>2. W[k + 1].kind = "request" /\ W[k + 1].direction = d
        BY <2>1 DEF AsksFor
    <2>3. QED
        BY <1>1, <2>2
<1>3. QED
    BY <1>2 DEF AsksFor

-----------------------------------------------------------------------------
\* What the proxy will serve, after each step of the wires.
LEMMA ClientTakes ==
    ASSUME NEW W, NEW R \in Seq(ProxyMessage), R # <<>>, NEW s, NEW d, NEW j \in Nat, j >= 1,
           WillServe(W, R, s, d, j + 1) \/ (j = 1 /\ WillServe(W, R, s, d, 1) /\ Head(R).kind # "leave")
    PROVE  WillServe(W, Tail(R), s, d, j)
<1> PICK X : X = Tail(R)
    OBVIOUS
<1>1. Len(R) \in Nat /\ Head(R) = R[1] /\ \A k \in 1 .. Len(R) : k = 1 \/ (k - 1 \in 1 .. Len(X) /\ X[k - 1] = R[k])
    BY TakenMessage
<1>2. AsksFor(W, 1, d)
    BY DEF WillServe
<1>3. ASSUME NEW k \in 1 .. Len(R), R[k].kind = "leave", k >= j + 1 \/ (j = 1 /\ Head(R).kind # "leave")
      PROVE  \E i \in 1 .. Len(X) : i >= j /\ X[i].kind = "leave"
    <2>1. k # 1 /\ k >= j + 1
        BY <1>1, <1>3
    <2>2. k - 1 \in 1 .. Len(X) /\ X[k - 1] = R[k] /\ k - 1 >= j
        BY <1>1, <2>1
    <2>3. QED
        BY <1>3, <2>2
<1>4. QED
    BY <1>2, <1>3 DEF WillServe

LEMMA AttemptAfterTake ==
    ASSUME NEW a, NEW def, NEW W, NEW R \in Seq(ProxyMessage), R # <<>>, NEW s, AttemptOK(a, def, W, R, s)
    PROVE  AttemptOK(a, def, W, Tail(R), s)
<1> PICK X : X = Tail(R)
    OBVIOUS
<1>1. \A j \in 1 .. Len(X) : j + 1 \in 1 .. Len(R) /\ X[j] = R[j + 1]
    BY TakenMessage
<1>2. ASSUME a.version = def.version, NEW j \in 1 .. Len(X), X[j].kind = "accepted", X[j].id = a.id
      PROVE  WillServe(W, X, s, def.direction, j + 1)
    <2>1. WillServe(W, R, s, def.direction, (j + 1) + 1)
        BY <1>1, <1>2 DEF AttemptOK
    <2>2. j + 1 \in Nat /\ j + 1 >= 1
        OBVIOUS
    <2>3. QED
        BY <2>1, <2>2, ClientTakes
<1>3. QED
    BY <1>2 DEF AttemptOK

LEMMA AttemptAfterRequest ==
    ASSUME NEW a, NEW def, NEW W \in Seq(ProxyMessage), NEW R \in Seq(ProxyMessage), NEW s, AttemptOK(a, def, W, R, s),
           NEW m \in ProxyMessage, m.kind = "request", m.direction = def.direction
    PROVE  AttemptOK(a, def, Append(W, m), R, s)
<1> PICK X : X = Append(W, m)
    OBVIOUS
<1>1. /\ Len(X) = Len(W) + 1 /\ Len(W) \in Nat /\ X[Len(W) + 1] = m
      /\ \A k \in 1 .. Len(W) : X[k] = W[k]
    BY AppendedMessage
<1>2. ASSUME a.version = def.version, NEW i \in 1 .. Len(X), X[i].kind = "request", X[i].id = a.id
      PROVE  AsksFor(X, i + 1, def.direction)
    <2>1. CASE i \in 1 .. Len(W)
        <3>1. AsksFor(W, i + 1, def.direction)
            BY <1>1, <1>2, <2>1 DEF AttemptOK
        <3>2. i + 1 \in Nat
            OBVIOUS
        <3>3. QED
            BY <3>1, <3>2, AsksForMore
    <2>2. CASE i = Len(W) + 1
        BY <1>1, <2>2 DEF AsksFor
    <2>3. QED
        BY <1>1, <2>1, <2>2
<1>3. ASSUME a.version = def.version, NEW j \in 1 .. Len(R), R[j].kind = "accepted", R[j].id = a.id
      PROVE  WillServe(X, R, s, def.direction, j + 1)
    <2>1. AsksFor(W, 1, def.direction)
        BY <1>3 DEF AttemptOK, WillServe
    <2>2. AsksFor(X, 1, def.direction)
        BY <2>1, AsksForMore
    <2>3. Len(X) > 0
        BY <1>1
    <2>4. QED
        BY <2>2, <2>3 DEF WillServe
<1>4. QED
    BY <1>2, <1>3 DEF AttemptOK

\* A new attempt: its request is the last message, and nothing answers it yet.
LEMMA NewAttemptOK ==
    ASSUME NEW a \in AttemptRecord, NEW def, NEW W \in Seq(ProxyMessage), NEW R \in Seq(ProxyMessage), NEW s, NEW m \in ProxyMessage,
           NEW n, NEW P, NEW count \in Nat, WireOK(W, n, P, count), WireOK(R, n, P, count), a.id > count,
           a.node \in def.nodes, a.direction = def.direction
    PROVE  AttemptOK(a, def, Append(W, m), R, s)
<1> PICK X : X = Append(W, m)
    OBVIOUS
<1>1. /\ Len(X) = Len(W) + 1 /\ Len(W) \in Nat /\ X[Len(W) + 1] = m
      /\ \A k \in 1 .. Len(W) : X[k] = W[k] /\ W[k] \in ProxyMessage
    BY AppendedMessage
<1>2. a.id \in Nat
    BY AttemptFields
<1>3. ASSUME NEW i \in 1 .. Len(X), X[i].id = a.id PROVE i = Len(W) + 1
    <2>1. ASSUME i \in 1 .. Len(W) PROVE FALSE
        <3>1. X[i] = W[i] /\ W[i].id \in Nat /\ W[i].id <= count
            BY <1>1, <2>1, MessageFields DEF WireOK
        <3>2. QED
            BY <1>2, <1>3, <3>1
    <2>2. QED
        BY <1>1, <2>1
<1>4. ASSUME NEW i \in 1 .. Len(X), X[i].id = a.id PROVE AsksFor(X, i + 1, def.direction)
    BY <1>1, <1>3, <1>4 DEF AsksFor
<1>5. ASSUME NEW j \in 1 .. Len(R), R[j].id = a.id PROVE FALSE
    <2>1. R[j] \in ProxyMessage
        OBVIOUS
    <2>2. R[j].id \in Nat /\ R[j].id <= count
        BY <2>1, MessageFields DEF WireOK
    <2>3. QED
        BY <1>2, <1>5, <2>2
<1>6. QED
    BY <1>4, <1>5 DEF AttemptOK

\* The proxy handles a request, which it accepts.
LEMMA RequestServed ==
    ASSUME NEW W \in Seq(ProxyMessage), W # <<>>, NEW R \in Seq(ProxyMessage), NEW s, NEW d, NEW j \in Nat, NEW m \in ProxyMessage,
           Head(W).kind = "request", WillServe(W, R, s, d, j)
    PROVE  WillServe(Tail(W), Append(R, m), Head(W).direction, d, j)
<1>1. AsksFor(W, 1, d) /\ 1 + 1 \in Nat /\ 0 + 1 = 1
    BY DEF WillServe
<1>2. Head(W).direction = d
    BY <1>1, TakenMessage DEF AsksFor
<1>3. AsksFor(W, 1 + 1, d)
    BY <1>1 DEF AsksFor
<1>4. AsksFor(Tail(W), 1, d)
    BY <1>3, AsksForRest
<1>5. QED
    BY <1>2, <1>4 DEF WillServe

LEMMA AttemptAfterServe ==
    ASSUME NEW a, NEW def, NEW W \in Seq(ProxyMessage), W # <<>>, NEW R \in Seq(ProxyMessage), NEW s, AttemptOK(a, def, W, R, s),
           Head(W).kind = "request", Head(W).id = a.id => Head(W).direction = a.direction, NEW m \in ProxyMessage, m.id = Head(W).id
    PROVE  AttemptOK(a, def, Tail(W), Append(R, m), Head(W).direction)
<1> PICK X : X = Tail(W)
    OBVIOUS
<1> PICK Y : Y = Append(R, m)
    OBVIOUS
<1>1. /\ Len(Y) = Len(R) + 1 /\ Len(R) \in Nat /\ Y[Len(R) + 1] = m
      /\ \A k \in 1 .. Len(R) : Y[k] = R[k]
    BY AppendedMessage
<1>2. /\ \A k \in 1 .. Len(X) : k + 1 \in 1 .. Len(W) /\ X[k] = W[k + 1]
      /\ Head(W) = W[1] /\ 1 \in 1 .. Len(W)
    BY TakenMessage
<1>3. ASSUME a.version = def.version, NEW i \in 1 .. Len(X), X[i].kind = "request", X[i].id = a.id
      PROVE  AsksFor(X, i + 1, def.direction)
    <2>1. AsksFor(W, (i + 1) + 1, def.direction)
        BY <1>2, <1>3 DEF AttemptOK
    <2>2. i + 1 \in Nat
        OBVIOUS
    <2>3. QED
        BY <2>1, <2>2, AsksForRest
<1>4. ASSUME a.version = def.version, NEW j \in 1 .. Len(Y), Y[j].kind = "accepted", Y[j].id = a.id
      PROVE  WillServe(X, Y, Head(W).direction, def.direction, j + 1)
    <2>1. CASE j \in 1 .. Len(R)
        <3>1. WillServe(W, R, s, def.direction, j + 1)
            BY <1>1, <1>4, <2>1 DEF AttemptOK
        <3>2. j + 1 \in Nat
            OBVIOUS
        <3>3. QED
            BY <3>1, <3>2, RequestServed
    <2>2. CASE j = Len(R) + 1
        <3>1. W[1].id = a.id /\ W[1].kind = "request" /\ W[1].direction = a.direction
            BY <1>1, <1>2, <1>4, <2>2
        <3>2. AsksFor(W, 1 + 1, def.direction) /\ a.direction = def.direction
            BY <1>2, <1>4, <3>1 DEF AttemptOK
        <3>3. 1 \in Nat
            OBVIOUS
        <3>4. AsksFor(X, 1, def.direction)
            BY <3>2, <3>3, AsksForRest
        <3>5. QED
            BY <1>2, <3>1, <3>2, <3>4 DEF WillServe
    <2>3. QED
        BY <1>1, <2>1, <2>2
<1>5. QED
    BY <1>3, <1>4 DEF AttemptOK

\* The proxy handles a leave notice: nobody relies on it.
LEMMA NoLeaveAhead ==
    ASSUME NEW W \in Seq(ProxyMessage), W # <<>>, Head(W).kind # "request", NEW R, NEW s, NEW d, NEW j
    PROVE  ~WillServe(W, R, s, d, j)
BY TakenMessage DEF WillServe, AsksFor

LEMMA AttemptAfterLeave ==
    ASSUME NEW a, NEW def, NEW W \in Seq(ProxyMessage), W # <<>>, NEW R, NEW s, NEW t, AttemptOK(a, def, W, R, s), Head(W).kind # "request"
    PROVE  AttemptOK(a, def, Tail(W), R, t)
<1> PICK X : X = Tail(W)
    OBVIOUS
<1>1. \A k \in 1 .. Len(X) : k + 1 \in 1 .. Len(W) /\ X[k] = W[k + 1]
    BY TakenMessage
<1>2. ASSUME a.version = def.version, NEW i \in 1 .. Len(X), X[i].kind = "request", X[i].id = a.id
      PROVE  AsksFor(X, i + 1, def.direction)
    <2>1. AsksFor(W, (i + 1) + 1, def.direction)
        BY <1>1, <1>2 DEF AttemptOK
    <2>2. i + 1 \in Nat
        OBVIOUS
    <2>3. QED
        BY <2>1, <2>2, AsksForRest
<1>3. ASSUME a.version = def.version, NEW j \in 1 .. Len(R), R[j].kind = "accepted", R[j].id = a.id PROVE FALSE
    BY <1>3, NoLeaveAhead DEF AttemptOK
<1>4. QED
    BY <1>2, <1>3 DEF AttemptOK

\* The proxy stops, and says so.
LEMMA StopIsTold ==
    ASSUME NEW W, NEW R \in Seq(ProxyMessage), NEW s, NEW t, NEW d, NEW j \in Nat, NEW m \in ProxyMessage, m.kind = "leave",
           j <= Len(R) + 1, WillServe(W, R, s, d, j)
    PROVE  WillServe(W, Append(R, m), t, d, j)
<1> PICK Y : Y = Append(R, m)
    OBVIOUS
<1>1. Len(Y) = Len(R) + 1 /\ Len(R) \in Nat /\ Y[Len(R) + 1] = m
    BY AppendedMessage
<1>2. Len(R) + 1 \in 1 .. Len(Y) /\ Len(R) + 1 >= j
    BY <1>1
<1>3. QED
    BY <1>1, <1>2 DEF WillServe

LEMMA AttemptAfterStop ==
    ASSUME NEW a, NEW def, NEW W, NEW R \in Seq(ProxyMessage), NEW s, NEW t, AttemptOK(a, def, W, R, s), NEW m \in ProxyMessage, m.kind = "leave"
    PROVE  AttemptOK(a, def, W, Append(R, m), t)
<1> PICK Y : Y = Append(R, m)
    OBVIOUS
<1>1. /\ Len(Y) = Len(R) + 1 /\ Len(R) \in Nat /\ Y[Len(R) + 1] = m
      /\ \A k \in 1 .. Len(R) : Y[k] = R[k]
    BY AppendedMessage
<1>2. ASSUME a.version = def.version, NEW j \in 1 .. Len(Y), Y[j].kind = "accepted", Y[j].id = a.id
      PROVE  WillServe(W, Y, t, def.direction, j + 1)
    <2>1. j \in 1 .. Len(R)
        BY <1>1, <1>2
    <2>2. WillServe(W, R, s, def.direction, j + 1)
        BY <1>1, <1>2, <2>1 DEF AttemptOK
    <2>3. j + 1 \in Nat /\ j + 1 <= Len(R) + 1
        BY <1>1, <2>1
    <2>4. QED
        BY <2>2, <2>3, StopIsTold
<1>3. QED
    BY <1>2 DEF AttemptOK

-----------------------------------------------------------------------------
\* What the invariant says of one proxy and of one attempt.
LEMMA OneProxy ==
    ASSUME ProxyInv, NEW n \in Proxy
    PROVE  /\ toProxy \in [Proxy -> Seq(ProxyMessage)] /\ toClient \in [Proxy -> Seq(ProxyMessage)]
           /\ toProxy[n] \in Seq(ProxyMessage) /\ toClient[n] \in Seq(ProxyMessage)
           /\ WireOK(toProxy[n], n, pendingAttempts, attemptCount) /\ WireOK(toClient[n], n, pendingAttempts, attemptCount)
           /\ connections \in [Proxy -> Direction \cup {NoDirection}] /\ served \in [Proxy -> Direction \cup {NoDirection}]
           /\ ConnectionOK(n, definition, connections[n], n \in proxyLocks, n \in outdated, toProxy[n], toClient[n], served[n])
BY DEF ProxyInv, ProxyTypes

LEMMA OneAttempt ==
    ASSUME ProxyInv
    PROVE  /\ attemptCount \in Nat /\ definition \in ProxyDefinition /\ definition.version \in Nat
           /\ AttemptsOK(pendingAttempts, definition, attemptCount) /\ pendingAttempts \subseteq AttemptRecord
           /\ \A a \in pendingAttempts : AttemptOK(a, definition, toProxy[a.node], toClient[a.node], served[a.node])
BY DEF ProxyInv, ProxyTypes, ProxyDefinition

OvertakenAttempt(a) == [a EXCEPT !.version = 0]
AttemptTo(id, n, def) == [id |-> id, node |-> n, direction |-> def.direction, version |-> def.version]

LEMMA AttemptsMade ==
    /\ \A a \in AttemptRecord :
         /\ OvertakenAttempt(a) \in AttemptRecord /\ OvertakenAttempt(a).id = a.id /\ OvertakenAttempt(a).node = a.node
         /\ OvertakenAttempt(a).direction = a.direction /\ OvertakenAttempt(a).version = 0
    /\ \A id \in Nat, n \in Proxy, def \in ProxyDefinition : def.direction \in Direction =>
         /\ AttemptTo(id, n, def) \in AttemptRecord /\ AttemptTo(id, n, def).id = id /\ AttemptTo(id, n, def).node = n
         /\ AttemptTo(id, n, def).direction = def.direction /\ AttemptTo(id, n, def).version = def.version
<1>1. ASSUME NEW a \in AttemptRecord
      PROVE  /\ OvertakenAttempt(a) \in AttemptRecord /\ OvertakenAttempt(a).id = a.id /\ OvertakenAttempt(a).node = a.node
             /\ OvertakenAttempt(a).direction = a.direction /\ OvertakenAttempt(a).version = 0
    BY DEF AttemptRecord, OvertakenAttempt
<1>2. ASSUME NEW id \in Nat, NEW n \in Proxy, NEW def \in ProxyDefinition, def.direction \in Direction
      PROVE  /\ AttemptTo(id, n, def) \in AttemptRecord /\ AttemptTo(id, n, def).id = id /\ AttemptTo(id, n, def).node = n
             /\ AttemptTo(id, n, def).direction = def.direction /\ AttemptTo(id, n, def).version = def.version
    BY <1>2 DEF AttemptRecord, AttemptTo, ProxyDefinition
<1>3. QED
    BY <1>1, <1>2

\* updateConnections(): what it closes and opens.
Updated(def, conns, locks, wires, closed, opened, id) ==
    /\ \A n \in closed : conns[n] # NoDirection
    /\ \A n \in Proxy \ closed : conns[n] # NoDirection => n \in def.nodes /\ conns[n] = def.direction /\ n \notin opened
    /\ opened \subseteq def.nodes
    /\ \A n \in opened : id[n] > attemptCount /\ id[n] <= attemptCount'
    /\ \A n, p \in opened : n # p => id[n] # id[p]
    /\ attemptCount' \in Nat /\ attemptCount <= attemptCount'
    /\ connections' = [n \in Proxy |-> IF n \in closed THEN NoDirection ELSE conns[n]]
    /\ proxyLocks' = locks \ closed /\ outdated' = outdated \ closed
    /\ pendingAttempts' = {IF a.node \in closed THEN OvertakenAttempt(a) ELSE a : a \in pendingAttempts}
                          \cup {AttemptTo(id[n], n, def) : n \in opened}
    /\ toProxy' = [n \in Proxy |->
           wires[n] \o (IF n \in closed THEN <<ProxyLeaveNotice>> ELSE <<>>)
                   \o (IF n \in opened THEN <<ConnectionRequest(id[n], def.direction)>> ELSE <<>>)]

LEMMA UpdateMeans ==
    ASSUME NEW def \in ProxyDefinition, NEW conns, NEW locks, NEW wires, UpdateConnections(def, conns, locks, wires), attemptCount \in Nat
    PROVE  \E closed, opened \in SUBSET Proxy : \E id \in [opened -> Nat] : Updated(def, conns, locks, wires, closed, opened, id)
<1> DEFINE invalid == InvalidConnections(def, conns)
<1> DEFINE open == {n \in Proxy : conns[n] # NoDirection} \ invalid
<1>1. PICK opened \in SUBSET (def.nodes \ open), surplus \in SUBSET open :
         /\ Cardinality(opened) = IF def.count - Cardinality(open) <= 0 THEN 0 ELSE Min({def.count - Cardinality(open), Cardinality(def.nodes \ open)})
         /\ Cardinality(surplus) = IF def.count - Cardinality(open) < 0 THEN Cardinality(open) - def.count ELSE 0
         /\ attemptCount + Cardinality(opened) <= MaxProxyAttempts
         /\ connections' = [n \in Proxy |-> IF n \in invalid \cup surplus THEN NoDirection ELSE conns[n]]
         /\ proxyLocks' = locks \ (invalid \cup surplus)
         /\ \E id \in [opened -> attemptCount + 1 .. attemptCount + Cardinality(opened)] :
              /\ \A n, p \in opened : n # p => id[n] # id[p]
              /\ pendingAttempts' = Overtaken(invalid \cup surplus) \cup {AttemptTo(id[n], n, def) : n \in opened}
              /\ toProxy' = [n \in Proxy |->
                    wires[n] \o (IF n \in invalid \cup surplus THEN <<ProxyLeaveNotice>> ELSE <<>>)
                            \o (IF n \in opened THEN <<ConnectionRequest(id[n], def.direction)>> ELSE <<>>)]
         /\ attemptCount' = attemptCount + Cardinality(opened)
         /\ outdated' = outdated \ (invalid \cup surplus)
    BY Zenon DEF UpdateConnections, AttemptTo
<1>2. PICK id \in [opened -> attemptCount + 1 .. attemptCount + Cardinality(opened)] :
         /\ \A n, p \in opened : n # p => id[n] # id[p]
         /\ pendingAttempts' = Overtaken(invalid \cup surplus) \cup {AttemptTo(id[n], n, def) : n \in opened}
         /\ toProxy' = [n \in Proxy |->
               wires[n] \o (IF n \in invalid \cup surplus THEN <<ProxyLeaveNotice>> ELSE <<>>)
                       \o (IF n \in opened THEN <<ConnectionRequest(id[n], def.direction)>> ELSE <<>>)]
    BY <1>1
<1>3. PICK closed : closed = invalid \cup surplus
    OBVIOUS
<1>4. def.nodes \subseteq Proxy
    BY DEF ProxyDefinition
<1>5. closed \in SUBSET Proxy /\ \A n \in closed : conns[n] # NoDirection
    BY <1>3 DEF InvalidConnections
<1>6. \A n \in Proxy \ closed : conns[n] # NoDirection => n \in def.nodes /\ conns[n] = def.direction /\ n \notin opened
    BY <1>3 DEF InvalidConnections
<1>7. opened \in SUBSET Proxy /\ opened \subseteq def.nodes
    BY <1>4
<1>8. Cardinality(opened) \in Nat
    BY <1>7, ProxyConstants, FS_Subset, FS_CardinalityType
<1>9. PICK c \in Nat : c = Cardinality(opened)
    BY <1>8
<1>10. attemptCount' = attemptCount + c /\ attemptCount' \in Nat /\ attemptCount <= attemptCount'
    BY <1>1, <1>9
<1>11. \A n \in opened : id[n] \in attemptCount + 1 .. attemptCount + c
    BY <1>9
<1>12. id \in [opened -> Nat] /\ \A n \in opened : id[n] > attemptCount /\ id[n] <= attemptCount'
    <2>1. \A n \in opened : id[n] \in Nat /\ id[n] > attemptCount /\ id[n] <= attemptCount'
        BY <1>10, <1>11
    <2>2. QED
        BY <2>1
<1>13. Overtaken(closed) = {IF a.node \in closed THEN OvertakenAttempt(a) ELSE a : a \in pendingAttempts}
    BY DEF Overtaken, OvertakenAttempt
<1>14. /\ connections' = [n \in Proxy |-> IF n \in closed THEN NoDirection ELSE conns[n]]
       /\ proxyLocks' = locks \ closed /\ outdated' = outdated \ closed
    BY <1>1, <1>3
<1>15. /\ pendingAttempts' = {IF a.node \in closed THEN OvertakenAttempt(a) ELSE a : a \in pendingAttempts}
                             \cup {AttemptTo(id[n], n, def) : n \in opened}
       /\ toProxy' = [n \in Proxy |->
               wires[n] \o (IF n \in closed THEN <<ProxyLeaveNotice>> ELSE <<>>)
                       \o (IF n \in opened THEN <<ConnectionRequest(id[n], def.direction)>> ELSE <<>>)]
    BY <1>2, <1>3, <1>13
<1> HIDE DEF invalid, open
<1>16. \A n, p \in opened : n # p => id[n] # id[p]
    BY <1>2
<1>17. closed \in SUBSET Proxy /\ opened \in SUBSET Proxy /\ id \in [opened -> Nat]
    BY <1>5, <1>7, <1>12
<1> USE <1>17
<1> WITNESS closed \in SUBSET Proxy, opened \in SUBSET Proxy
<1> WITNESS id \in [opened -> Nat]
<1>18. QED
    BY <1>5, <1>6, <1>7, <1>10, <1>12, <1>14, <1>15, <1>16, Zenon DEF Updated

\* updateConnections() with the definition, connections and wires that a handler leaves it.
LEMMA UpdateKeeps ==
    ASSUME NEW def \in ProxyDefinition, NEW conns \in [Proxy -> Direction \cup {NoDirection}], NEW locks \in SUBSET Proxy,
           NEW wires \in [Proxy -> Seq(ProxyMessage)], UpdateConnections(def, conns, locks, wires),
           ProxyInv, definition' = def, def.version > 0, def.direction \in Direction, definition.version <= def.version,
           toClient' \in [Proxy -> Seq(ProxyMessage)], served' = served, clientStopped' = FALSE,
           \A n \in Proxy :
              /\ WireOK(wires[n], n, pendingAttempts, attemptCount) /\ WireOK(toClient'[n], n, pendingAttempts, attemptCount)
              /\ n \in locks <=> conns[n] # NoDirection
              /\ conns[n] # NoDirection /\ n \notin outdated /\ n \in def.nodes /\ conns[n] = def.direction
                 => WillServe(wires[n], toClient'[n], served[n], def.direction, 1),
           \A a \in pendingAttempts : AttemptOK(a, def, wires[a.node], toClient'[a.node], served[a.node])
    PROVE  ProxyInv'
<1>1. /\ attemptCount \in Nat /\ pendingAttempts \subseteq AttemptRecord /\ def.version \in Nat /\ definition.version \in Nat
      /\ AttemptsOK(pendingAttempts, definition, attemptCount)
    BY OneAttempt DEF ProxyDefinition
<1>2. PICK closed, opened \in SUBSET Proxy : \E id \in [opened -> Nat] : Updated(def, conns, locks, wires, closed, opened, id)
    BY <1>1, UpdateMeans
<1>0. PICK id \in [opened -> Nat] : Updated(def, conns, locks, wires, closed, opened, id)
    BY <1>2
<1>3. /\ \A n \in closed : conns[n] # NoDirection
      /\ \A n \in Proxy \ closed : conns[n] # NoDirection => n \in def.nodes /\ conns[n] = def.direction /\ n \notin opened
      /\ opened \subseteq def.nodes
      /\ \A n \in opened : id[n] > attemptCount /\ id[n] <= attemptCount'
      /\ \A n, p \in opened : n # p => id[n] # id[p]
      /\ attemptCount' \in Nat /\ attemptCount <= attemptCount'
      /\ connections' = [n \in Proxy |-> IF n \in closed THEN NoDirection ELSE conns[n]]
      /\ proxyLocks' = locks \ closed /\ outdated' = outdated \ closed
      /\ pendingAttempts' = {IF a.node \in closed THEN OvertakenAttempt(a) ELSE a : a \in pendingAttempts}
                            \cup {AttemptTo(id[n], n, def) : n \in opened}
      /\ toProxy' = [n \in Proxy |->
             wires[n] \o (IF n \in closed THEN <<ProxyLeaveNotice>> ELSE <<>>)
                     \o (IF n \in opened THEN <<ConnectionRequest(id[n], def.direction)>> ELSE <<>>)]
    BY <1>0 DEF Updated
<1>4. \A n \in opened : id[n] \in Nat
    OBVIOUS
\* The attempts: those before, overtaken or not, and the new ones.
<1>5. ASSUME NEW b \in pendingAttempts'
      PROVE  \/ \E a \in pendingAttempts : b = OvertakenAttempt(a) /\ a.node \in closed
             \/ b \in pendingAttempts /\ b.node \notin closed
             \/ \E n \in opened : b = AttemptTo(id[n], n, def)
    BY <1>3, Zenon
<1>6. \A a \in pendingAttempts :
         /\ a \in AttemptRecord /\ OvertakenAttempt(a) \in AttemptRecord /\ OvertakenAttempt(a).id = a.id /\ OvertakenAttempt(a).node = a.node
         /\ OvertakenAttempt(a).direction = a.direction /\ OvertakenAttempt(a).version = 0
         /\ a.id \in Nat /\ a.version \in Nat /\ a.id <= attemptCount /\ a.version <= definition.version
    BY <1>1, AttemptsMade, AttemptFields DEF AttemptsOK
<1>7. \A n \in opened :
         /\ AttemptTo(id[n], n, def) \in AttemptRecord /\ AttemptTo(id[n], n, def).id = id[n] /\ AttemptTo(id[n], n, def).node = n
         /\ AttemptTo(id[n], n, def).direction = def.direction /\ AttemptTo(id[n], n, def).version = def.version
    BY <1>4, AttemptsMade
<1>8. pendingAttempts' \subseteq AttemptRecord
    BY <1>5, <1>6, <1>7
<1>9. \A b \in pendingAttempts' :
        \/ \E a \in pendingAttempts : b.id = a.id /\ b.node = a.node /\ b.direction = a.direction
        \/ b.id \in Nat /\ b.id > attemptCount
    <2> SUFFICES ASSUME NEW b \in pendingAttempts'
                 PROVE  \/ \E a \in pendingAttempts : b.id = a.id /\ b.node = a.node /\ b.direction = a.direction
                        \/ b.id \in Nat /\ b.id > attemptCount
        OBVIOUS
    <2>1. CASE \E a \in pendingAttempts : b = OvertakenAttempt(a) /\ a.node \in closed
        BY <1>6, <2>1
    <2>2. CASE b \in pendingAttempts /\ b.node \notin closed
        BY <2>2
    <2>3. CASE \E n \in opened : b = AttemptTo(id[n], n, def)
        BY <1>3, <1>4, <1>7, <2>3
    <2>4. QED
        BY <1>5, <2>1, <2>2, <2>3
<1>10. AttemptsOK(pendingAttempts', def, attemptCount')
    <2>1. ASSUME NEW b \in pendingAttempts' PROVE b.id <= attemptCount' /\ b.version <= def.version
        <3>1. CASE \E a \in pendingAttempts : b = OvertakenAttempt(a) /\ a.node \in closed
            <4>1. PICK a \in pendingAttempts : b = OvertakenAttempt(a)
                BY <3>1
            <4>2. b.id = a.id /\ b.version = 0 /\ a.id \in Nat /\ a.id <= attemptCount
                BY <1>6, <4>1
            <4>3. QED
                BY <1>1, <1>3, <4>2
        <3>2. CASE b \in pendingAttempts /\ b.node \notin closed
            BY <1>1, <1>3, <1>6, <3>2
        <3>3. CASE \E n \in opened : b = AttemptTo(id[n], n, def)
            BY <1>1, <1>3, <1>4, <1>7, <3>3
        <3>4. QED
            BY <1>5, <3>1, <3>2, <3>3
    <2>4. ASSUME NEW a \in pendingAttempts PROVE ~(a.id > attemptCount) /\ ~(OvertakenAttempt(a).id > attemptCount)
        BY <1>1, <1>6
    <2>2. ASSUME NEW b \in pendingAttempts', NEW c \in pendingAttempts', b.id = c.id PROVE b = c
        <3>1. ASSUME NEW n \in opened, b = AttemptTo(id[n], n, def) PROVE b = c
            <4>1. c.id > attemptCount /\ c.id \in Nat
                BY <1>3, <1>4, <1>7, <2>2, <3>1
            <4>2. PICK p \in opened : c = AttemptTo(id[p], p, def)
                BY <1>5, <2>4, <4>1
            <4>3. id[n] = id[p]
                BY <1>7, <2>2, <3>1, <4>2
            <4>4. n = p
                BY <1>3, <4>3
            <4>5. QED
                BY <3>1, <4>2, <4>4
        <3>2. ASSUME NEW n \in opened, c = AttemptTo(id[n], n, def) PROVE b = c
            <4>1. b.id > attemptCount /\ b.id \in Nat
                BY <1>3, <1>4, <1>7, <2>2, <3>2
            <4>2. \E p \in opened : b = AttemptTo(id[p], p, def)
                BY <1>5, <2>4, <4>1
            <4>3. QED
                BY <3>1, <4>2
        <3>3. ASSUME NEW a \in pendingAttempts, b = OvertakenAttempt(a), a.node \in closed PROVE b = c
            <4>1. CASE \E e \in pendingAttempts : c = OvertakenAttempt(e) /\ e.node \in closed
                <5>1. PICK e \in pendingAttempts : c = OvertakenAttempt(e)
                    BY <4>1
                <5>2. a.id = e.id
                    BY <1>6, <2>2, <3>3, <5>1
                <5>3. a = e
                    BY <1>1, <5>2 DEF AttemptsOK
                <5>4. QED
                    BY <3>3, <5>1, <5>3
            <4>2. CASE c \in pendingAttempts /\ c.node \notin closed
                <5>1. a.id = c.id
                    BY <1>6, <2>2, <3>3
                <5>2. a = c
                    BY <1>1, <4>2, <5>1 DEF AttemptsOK
                <5>3. QED
                    BY <3>3, <4>2, <5>2
            <4>3. QED
                BY <1>5, <3>2, <4>1, <4>2
        <3>4. CASE b \in pendingAttempts /\ b.node \notin closed
            <4>1. CASE \E e \in pendingAttempts : c = OvertakenAttempt(e) /\ e.node \in closed
                <5>1. PICK e \in pendingAttempts : c = OvertakenAttempt(e) /\ e.node \in closed
                    BY <4>1
                <5>2. b.id = e.id
                    BY <1>6, <2>2, <5>1
                <5>3. b = e
                    BY <1>1, <3>4, <5>2 DEF AttemptsOK
                <5>4. QED
                    BY <3>4, <5>1, <5>3
            <4>2. CASE c \in pendingAttempts /\ c.node \notin closed
                BY <1>1, <2>2, <3>4, <4>2 DEF AttemptsOK
            <4>3. QED
                BY <1>5, <3>2, <4>1, <4>2
        <3>5. QED
            BY <1>5, <3>1, <3>3, <3>4
    <2>3. QED
        BY <2>1, <2>2 DEF AttemptsOK
\* The wires.
<1>11. ASSUME NEW n \in Proxy
       PROVE  LET W == IF n \in closed THEN Append(wires[n], ProxyLeaveNotice) ELSE wires[n]
              IN  toProxy'[n] = IF n \in opened THEN Append(W, ConnectionRequest(id[n], def.direction)) ELSE W
    <2>1. wires[n] \in Seq(ProxyMessage) /\ ProxyLeaveNotice \in ProxyMessage
        BY MessagesMade
    <2>2. PICK W : W = IF n \in closed THEN Append(wires[n], ProxyLeaveNotice) ELSE wires[n]
        OBVIOUS
    <2>8. W \in Seq(ProxyMessage) /\ W = wires[n] \o (IF n \in closed THEN <<ProxyLeaveNotice>> ELSE <<>>)
        <3>1. PICK s \in Seq(ProxyMessage) : s = wires[n]
            BY <2>1
        <3>2. Append(s, ProxyLeaveNotice) \in Seq(ProxyMessage) /\ Append(s, ProxyLeaveNotice) = s \o <<ProxyLeaveNotice>> /\ s = s \o <<>>
            BY <2>1
        <3>3. QED
            BY <2>2, <3>1, <3>2
    <2>4. toProxy'[n] = W \o (IF n \in opened THEN <<ConnectionRequest(id[n], def.direction)>> ELSE <<>>)
        BY <1>3, <2>8
    <2>5. n \in opened => ConnectionRequest(id[n], def.direction) \in ProxyMessage
        BY <1>4, MessagesMade
    <2>6. toProxy'[n] = IF n \in opened THEN Append(W, ConnectionRequest(id[n], def.direction)) ELSE W
        <3>1. CASE n \in opened
            <4>1. PICK m \in ProxyMessage : m = ConnectionRequest(id[n], def.direction)
                BY <2>5, <3>1
            <4>2. PICK s \in Seq(ProxyMessage) : s = W
                BY <2>8
            <4>3. s \o <<m>> = Append(s, m)
                OBVIOUS
            <4>4. QED
                BY <2>4, <3>1, <4>1, <4>2, <4>3
        <3>2. CASE n \notin opened
            <4>1. PICK s \in Seq(ProxyMessage) : s = W
                BY <2>8
            <4>2. s \o <<>> = s
                OBVIOUS
            <4>3. QED
                BY <2>4, <3>2, <4>1, <4>2
        <3>3. QED
            BY <3>1, <3>2
    <2>7. QED
        BY <2>2, <2>6
<1>12. ASSUME NEW n \in Proxy PROVE toProxy'[n] \in Seq(ProxyMessage) /\ WireOK(toProxy'[n], n, pendingAttempts', attemptCount')
    <2>1. PICK W : W = IF n \in closed THEN Append(wires[n], ProxyLeaveNotice) ELSE wires[n]
        OBVIOUS
    <2>2. wires[n] \in Seq(ProxyMessage) /\ WireOK(wires[n], n, pendingAttempts', attemptCount')
        BY <1>1, <1>3, <1>9, WireKeeps
    <2>3. W \in Seq(ProxyMessage) /\ WireOK(W, n, pendingAttempts', attemptCount')
        <3>1. CASE n \in closed
            <4>1. ProxyLeaveNotice \in ProxyMessage /\ ProxyLeaveNotice.kind = "leave" /\ ProxyLeaveNotice.id <= attemptCount'
                BY <1>3, MessagesMade
            <4>2. Append(wires[n], ProxyLeaveNotice) \in Seq(ProxyMessage)
                BY <2>2, <4>1
            <4>3. attemptCount' \in Nat
                BY <1>3
            <4>4. WireOK(Append(wires[n], ProxyLeaveNotice), n, pendingAttempts', attemptCount')
                BY <2>2, <4>1, <4>3, WireGrows
            <4>5. QED
                BY <2>1, <3>1, <4>2, <4>4
        <3>2. CASE n \notin closed
            BY <2>1, <2>2, <3>2
        <3>3. QED
            BY <3>1, <3>2
    <2>4. CASE n \in opened
        <3>1. PICK m : m = ConnectionRequest(id[n], def.direction)
            OBVIOUS
        <3>2. m \in ProxyMessage /\ m.kind = "request" /\ m.id = id[n] /\ m.direction = def.direction
            BY <1>4, <2>4, <3>1, MessagesMade
        <3>3. attemptCount' \in Nat /\ m.id <= attemptCount'
            BY <1>3, <2>4, <3>2
        <3>4. ASSUME NEW b \in pendingAttempts', b.id = m.id PROVE b.node = n /\ b.direction = m.direction
            <4>1. AttemptTo(id[n], n, def) \in pendingAttempts'
                BY <1>3, <2>4
            <4>2. b = AttemptTo(id[n], n, def)
                BY <1>7, <1>10, <2>4, <3>2, <3>4, <4>1 DEF AttemptsOK
            <4>3. QED
                BY <1>7, <2>4, <3>2, <4>2
        <3>5. WireOK(Append(W, m), n, pendingAttempts', attemptCount')
            BY <2>3, <3>2, <3>3, <3>4, WireGrows
        <3>6. Append(W, m) \in Seq(ProxyMessage)
            BY <2>3, <3>2
        <3>7. toProxy'[n] = Append(W, m)
            BY <1>11, <2>1, <2>4, <3>1
        <3>8. QED
            BY <3>5, <3>6, <3>7
    <2>5. CASE n \notin opened
        BY <1>11, <2>1, <2>3, <2>5
    <2>6. QED
        BY <2>4, <2>5
<1>13. \A n \in Proxy : WireOK(toClient'[n], n, pendingAttempts', attemptCount')
    BY <1>1, <1>3, <1>9, WireKeeps
<1>14. ASSUME NEW b \in pendingAttempts' PROVE AttemptOK(b, def, toProxy'[b.node], toClient'[b.node], served'[b.node])
    <2>1. CASE \E a \in pendingAttempts : b = OvertakenAttempt(a) /\ a.node \in closed
        <3>1. b.version # def.version
            BY <1>1, <1>6, <2>1
        <3>2. QED
            BY <3>1 DEF AttemptOK
    <2>2. CASE b \in pendingAttempts /\ b.node \notin closed
        <3>1. PICK n \in Proxy : n = b.node
            BY <1>8, AttemptFields
        <3>2. AttemptOK(b, def, wires[n], toClient'[n], served[n])
            BY <2>2, <3>1
        <3>3. CASE n \notin opened
            BY <1>11, <2>2, <3>1, <3>2, <3>3
        <3>4. CASE n \in opened
            <4>1. PICK m : m = ConnectionRequest(id[n], def.direction)
                OBVIOUS
            <4>2. m \in ProxyMessage /\ m.kind = "request" /\ m.direction = def.direction
                BY <1>4, <3>4, <4>1, MessagesMade
            <4>3. wires[n] \in Seq(ProxyMessage) /\ toClient'[n] \in Seq(ProxyMessage)
                OBVIOUS
            <4>4. AttemptOK(b, def, Append(wires[n], m), toClient'[n], served[n])
                BY <3>2, <4>2, <4>3, AttemptAfterRequest
            <4>5. toProxy'[n] = Append(wires[n], m)
                BY <1>11, <2>2, <3>1, <3>4, <4>1
            <4>6. QED
                BY <3>1, <4>4, <4>5
        <3>5. QED
            BY <3>3, <3>4
    <2>3. CASE \E n \in opened : b = AttemptTo(id[n], n, def)
        <3>1. PICK n \in opened : b = AttemptTo(id[n], n, def)
            BY <2>3
        <3>2. b \in AttemptRecord /\ b.id = id[n] /\ b.node = n /\ b.direction = def.direction /\ b.id > attemptCount /\ n \in def.nodes
            BY <1>3, <1>7, <3>1
        <3>3. PICK W : W = IF n \in closed THEN Append(wires[n], ProxyLeaveNotice) ELSE wires[n]
            OBVIOUS
        <3>4. PICK m : m = ConnectionRequest(id[n], def.direction)
            OBVIOUS
        <3>5. wires[n] \in Seq(ProxyMessage) /\ toClient'[n] \in Seq(ProxyMessage)
            OBVIOUS
        <3>6. /\ ProxyLeaveNotice \in ProxyMessage /\ ProxyLeaveNotice.kind = "leave" /\ ProxyLeaveNotice.id <= attemptCount
              /\ m \in ProxyMessage
            BY <1>1, <1>4, <3>4, MessagesMade
        <3>7. WireOK(wires[n], n, pendingAttempts, attemptCount) /\ WireOK(toClient'[n], n, pendingAttempts, attemptCount)
            OBVIOUS
        <3>8. W \in Seq(ProxyMessage) /\ WireOK(W, n, pendingAttempts, attemptCount)
            <4>1. WireOK(Append(wires[n], ProxyLeaveNotice), n, pendingAttempts, attemptCount)
                BY <1>1, <3>5, <3>6, <3>7, WireGrows
            <4>2. Append(wires[n], ProxyLeaveNotice) \in Seq(ProxyMessage)
                BY <3>5, <3>6
            <4>3. QED
                BY <3>3, <3>5, <3>7, <4>1, <4>2
        <3>9. AttemptOK(b, def, Append(W, m), toClient'[n], served'[n])
            BY <1>1, <3>2, <3>5, <3>6, <3>7, <3>8, NewAttemptOK
        <3>10. toProxy'[n] = Append(W, m)
            BY <1>11, <3>3, <3>4
        <3>11. QED
            BY <3>2, <3>9, <3>10
    <2>4. QED
        BY <1>5, <2>1, <2>2, <2>3
\* The connections.
<1>15. ASSUME NEW n \in Proxy
       PROVE  ConnectionOK(n, def, connections'[n], n \in proxyLocks', n \in outdated', toProxy'[n], toClient'[n], served'[n])
    <2>1. CASE n \in closed
        BY <1>3, <2>1 DEF ConnectionOK
    <2>2. CASE n \notin closed
        <3>1. /\ connections'[n] = conns[n] /\ (n \in proxyLocks' <=> n \in locks) /\ (n \in outdated' <=> n \in outdated)
              /\ conns[n] # NoDirection => n \in def.nodes /\ conns[n] = def.direction /\ n \notin opened
            BY <1>3, <2>2
        <3>2. conns[n] # NoDirection => toProxy'[n] = wires[n]
            BY <1>11, <2>2, <3>1
        <3>3. QED
            BY <3>1, <3>2 DEF ConnectionOK
    <2>3. QED
        BY <2>1, <2>2
<1>16. ProxyTypes'
    <2>1. connections' \in [Proxy -> Direction \cup {NoDirection}]
        BY <1>3
    <2>2. toProxy' \in [Proxy -> Seq(ProxyMessage)]
        BY <1>3, <1>12
    <2>3. proxyLocks' \in SUBSET Proxy /\ outdated' \in SUBSET Proxy /\ attemptCount' \in Nat
        BY <1>3 DEF ProxyInv, ProxyTypes
    <2>4. served' \in [Proxy -> Direction \cup {NoDirection}]
        BY DEF ProxyInv, ProxyTypes
    <2>5. QED
        BY <1>8, <2>1, <2>2, <2>3, <2>4 DEF ProxyTypes
<1>17. ProxyIdle'
    BY <1>1 DEF ProxyIdle
<1>18. QED
    BY <1>10, <1>12, <1>13, <1>14, <1>15, <1>16, <1>17 DEF ProxyInv

-----------------------------------------------------------------------------
\* Steps that leave the definition, the connections and the count of attempts as they are: the wires of one proxy
\* change, and attempts may be given up.
LEMMA WiresChange ==
    ASSUME ProxyInv, NEW n \in Proxy, NEW W \in Seq(ProxyMessage), NEW R \in Seq(ProxyMessage), NEW s \in Direction \cup {NoDirection},
           toProxy' = [toProxy EXCEPT ![n] = W], toClient' = [toClient EXCEPT ![n] = R], served' = [served EXCEPT ![n] = s],
           UNCHANGED <<definition, connections, proxyLocks, pendingAttempts, attemptCount, outdated, clientStopped>>,
           WireOK(W, n, pendingAttempts, attemptCount), WireOK(R, n, pendingAttempts, attemptCount),
           connections[n] # NoDirection /\ n \notin outdated => WillServe(W, R, s, definition.direction, 1),
           \A a \in pendingAttempts : a.node = n => AttemptOK(a, definition, W, R, s)
    PROVE  ProxyInv'
<1>1. /\ toProxy'[n] = W /\ toClient'[n] = R /\ served'[n] = s
      /\ \A p \in Proxy : p # n => toProxy'[p] = toProxy[p] /\ toClient'[p] = toClient[p] /\ served'[p] = served[p]
    BY OneProxy
<1>2. ProxyTypes' /\ ProxyIdle'
    <2>1. toProxy' \in [Proxy -> Seq(ProxyMessage)] /\ toClient' \in [Proxy -> Seq(ProxyMessage)] /\ served' \in [Proxy -> Direction \cup {NoDirection}]
        BY OneProxy
    <2>2. QED
        BY <2>1 DEF ProxyInv, ProxyTypes, ProxyIdle
<1>3. ASSUME NEW p \in Proxy
      PROVE  /\ WireOK(toProxy'[p], p, pendingAttempts, attemptCount) /\ WireOK(toClient'[p], p, pendingAttempts, attemptCount)
             /\ ConnectionOK(p, definition, connections[p], p \in proxyLocks, p \in outdated, toProxy'[p], toClient'[p], served'[p])
    <2>1. CASE p # n
        BY <1>1, <2>1, OneProxy
    <2>2. CASE p = n
        <3>1. ConnectionOK(n, definition, connections[n], n \in proxyLocks, n \in outdated, toProxy[n], toClient[n], served[n])
            BY OneProxy
        <3>2. ConnectionOK(n, definition, connections[n], n \in proxyLocks, n \in outdated, W, R, s)
            BY <3>1 DEF ConnectionOK
        <3>3. QED
            BY <1>1, <2>2, <3>2
    <2>3. QED
        BY <2>1, <2>2
<1>4. ASSUME NEW a \in pendingAttempts PROVE AttemptOK(a, definition, toProxy'[a.node], toClient'[a.node], served'[a.node])
    <2>1. a.node \in Proxy /\ AttemptOK(a, definition, toProxy[a.node], toClient[a.node], served[a.node])
        BY OneAttempt, AttemptFields
    <2>2. QED
        BY <1>1, <2>1
<1>5. QED
    BY <1>2, <1>3, <1>4, OneAttempt DEF ProxyInv

LEMMA ProxyHandlesKeeps ==
    ASSUME ProxyInv, NEW n \in Proxy, ProxyHandles(n)
    PROVE  ProxyInv'
<1>1. PICK W \in Seq(ProxyMessage) : W = toProxy[n] /\ W # <<>>
    BY OneProxy DEF ProxyHandles
<1>2. PICK R \in Seq(ProxyMessage) : R = toClient[n]
    BY OneProxy
<1>3. PICK m : m = Head(W)
    OBVIOUS
<1>4. /\ Tail(W) \in Seq(ProxyMessage) /\ m \in ProxyMessage /\ m = W[1] /\ 1 \in 1 .. Len(W)
    BY <1>1, <1>3, TakenMessage
<1>5. m.kind \in {"request", "leave", "accepted"} /\ m.id \in Nat /\ m.direction \in Direction \cup {NoDirection}
    BY <1>4, MessageFields
<1>6. /\ toProxy' = [toProxy EXCEPT ![n] = Tail(W)]
      /\ UNCHANGED <<definition, connections, proxyLocks, pendingAttempts, attemptCount, outdated, clientStopped>>
    BY <1>1 DEF ProxyHandles
<1>7. /\ WireOK(W, n, pendingAttempts, attemptCount) /\ WireOK(R, n, pendingAttempts, attemptCount)
      /\ ConnectionOK(n, definition, connections[n], n \in proxyLocks, n \in outdated, W, R, served[n])
      /\ attemptCount \in Nat
    BY <1>1, <1>2, OneProxy, OneAttempt
<1>8. WireOK(Tail(W), n, pendingAttempts, attemptCount)
    BY <1>1, <1>7, WireShrinks
<1>9. \A a \in pendingAttempts : a.node = n => AttemptOK(a, definition, W, R, served[n])
    BY <1>1, <1>2, OneAttempt
<1>10. CASE m.kind = "request"
    <2>1. PICK k : k = Accepted(m.id)
        OBVIOUS
    <2>2. k \in ProxyMessage /\ k.kind = "accepted" /\ k.id = m.id
        BY <1>5, <2>1, MessagesMade
    <2>3. PICK Y \in Seq(ProxyMessage) : Y = Append(R, k)
        BY <2>2, AppendedMessage
    <2>4. served' = [served EXCEPT ![n] = m.direction] /\ toClient' = [toClient EXCEPT ![n] = Y]
        BY <1>1, <1>2, <1>3, <1>10, <2>1, <2>3 DEF ProxyHandles
    <2>5. /\ m.id <= attemptCount
          /\ \A a \in pendingAttempts : a.id = m.id => a.node = n /\ a.direction = m.direction
        BY <1>4, <1>7, <1>10 DEF WireOK
    <2>6. WireOK(Append(R, k), n, pendingAttempts, attemptCount)
        BY <1>7, <2>2, <2>5, WireGrows
    <2>7. ASSUME connections[n] # NoDirection, n \notin outdated PROVE WillServe(Tail(W), Y, m.direction, definition.direction, 1)
        <3>1. WillServe(W, R, served[n], definition.direction, 1) /\ 1 \in Nat
            BY <1>7, <2>7 DEF ConnectionOK
        <3>2. QED
            BY <1>1, <1>3, <1>10, <2>2, <2>3, <3>1, RequestServed
    <2>8. ASSUME NEW a \in pendingAttempts, a.node = n PROVE AttemptOK(a, definition, Tail(W), Y, m.direction)
        <3>1. AttemptOK(a, definition, W, R, served[n]) /\ (m.id = a.id => m.direction = a.direction)
            BY <1>9, <2>5, <2>8
        <3>2. QED
            BY <1>1, <1>3, <1>10, <2>2, <2>3, <3>1, AttemptAfterServe
    <2>9. QED
        BY <1>4, <1>5, <1>6, <1>8, <2>3, <2>4, <2>6, <2>7, <2>8, WiresChange
<1>11. CASE m.kind # "request"
    <2>1. served' = [served EXCEPT ![n] = NoDirection] /\ toClient' = toClient
        BY <1>1, <1>3, <1>11 DEF ProxyHandles
    <2>2. toClient' = [toClient EXCEPT ![n] = R]
        BY <1>2, <2>1, OneProxy
    <2>3. ~(connections[n] # NoDirection /\ n \notin outdated)
        BY <1>1, <1>3, <1>7, <1>11, NoLeaveAhead DEF ConnectionOK
    <2>4. \A a \in pendingAttempts : a.node = n => AttemptOK(a, definition, Tail(W), R, NoDirection)
        BY <1>1, <1>3, <1>9, <1>11, AttemptAfterLeave
    <2>5. QED
        BY <1>4, <1>6, <1>7, <1>8, <2>1, <2>2, <2>3, <2>4, WiresChange
<1>12. QED
    BY <1>10, <1>11

LEMMA ProxyStopsKeeps ==
    ASSUME ProxyInv, NEW n \in Proxy, ProxyStops(n)
    PROVE  ProxyInv'
<1>1. PICK W \in Seq(ProxyMessage) : W = toProxy[n]
    BY OneProxy
<1>2. PICK R \in Seq(ProxyMessage) : R = toClient[n]
    BY OneProxy
<1>3. PICK m : m = ProxyLeaveNotice
    OBVIOUS
<1>4. m \in ProxyMessage /\ m.kind = "leave" /\ m.id = 0
    BY <1>3, MessagesMade
<1>5. PICK Y \in Seq(ProxyMessage) : Y = Append(R, m)
    BY <1>4, AppendedMessage
<1>6. /\ served' = [served EXCEPT ![n] = NoDirection] /\ toClient' = [toClient EXCEPT ![n] = Y] /\ toProxy' = toProxy
      /\ UNCHANGED <<definition, connections, proxyLocks, pendingAttempts, attemptCount, outdated, clientStopped>>
    BY <1>2, <1>3, <1>5 DEF ProxyStops
<1>7. toProxy' = [toProxy EXCEPT ![n] = W]
    BY <1>1, <1>6, OneProxy
<1>8. /\ WireOK(W, n, pendingAttempts, attemptCount) /\ WireOK(R, n, pendingAttempts, attemptCount)
      /\ ConnectionOK(n, definition, connections[n], n \in proxyLocks, n \in outdated, W, R, served[n])
      /\ attemptCount \in Nat
    BY <1>1, <1>2, OneProxy, OneAttempt
<1>9. WireOK(Append(R, m), n, pendingAttempts, attemptCount)
    <2>1. m.id <= attemptCount
        BY <1>4, <1>8
    <2>2. QED
        BY <1>4, <1>8, <2>1, WireGrows
<1>10. ASSUME connections[n] # NoDirection, n \notin outdated PROVE WillServe(W, Y, NoDirection, definition.direction, 1)
    <2>1. WillServe(W, R, served[n], definition.direction, 1) /\ 1 \in Nat /\ 1 <= Len(R) + 1
        BY <1>8, <1>10 DEF ConnectionOK
    <2>2. QED
        BY <1>4, <1>5, <2>1, StopIsTold
<1>11. ASSUME NEW a \in pendingAttempts, a.node = n PROVE AttemptOK(a, definition, W, Y, NoDirection)
    <2>1. AttemptOK(a, definition, W, R, served[n])
        BY <1>1, <1>2, <1>11, OneAttempt
    <2>2. QED
        BY <1>4, <1>5, <2>1, AttemptAfterStop
<1>12. QED
    BY <1>5, <1>6, <1>7, <1>8, <1>9, <1>10, <1>11, WiresChange

\* Attempts that are given up leave no obligation.
LEMMA FewerAttempts ==
    ASSUME ProxyInv, NEW P \in SUBSET pendingAttempts, pendingAttempts' = P,
           toClient' = toClient, toProxy' = toProxy, served' = served,
           UNCHANGED <<definition, connections, proxyLocks, attemptCount, outdated, clientStopped>>
    PROVE  ProxyInv'
<1>1. AttemptsOK(P, definition, attemptCount) /\ P \in SUBSET AttemptRecord /\ attemptCount \in Nat
    BY OneAttempt DEF AttemptsOK
<1>2. ASSUME NEW n \in Proxy PROVE WireOK(toProxy[n], n, P, attemptCount) /\ WireOK(toClient[n], n, P, attemptCount)
    BY OneProxy DEF WireOK
<1>3. \A a \in P : AttemptOK(a, definition, toProxy[a.node], toClient[a.node], served[a.node])
    BY OneAttempt
<1>4. ProxyTypes' /\ ProxyIdle'
    BY <1>1 DEF ProxyInv, ProxyTypes, ProxyIdle
<1>5. \A n \in Proxy : ConnectionOK(n, definition, connections[n], n \in proxyLocks, n \in outdated, toProxy[n], toClient[n], served[n])
    BY OneProxy
<1>6. QED
    BY <1>1, <1>2, <1>3, <1>4, <1>5 DEF ProxyInv

\* The client takes a message that changes nothing else.
LEMMA ClientIgnores ==
    ASSUME ProxyInv, NEW n \in Proxy, toClient[n] # <<>>, toClient' = [toClient EXCEPT ![n] = Tail(toClient[n])],
           connections[n] = NoDirection \/ Head(toClient[n]).kind # "leave", toProxy' = toProxy, served' = served,
           UNCHANGED <<definition, connections, proxyLocks, pendingAttempts, attemptCount, outdated, clientStopped>>
    PROVE  ProxyInv'
<1>1. PICK W \in Seq(ProxyMessage) : W = toProxy[n]
    BY OneProxy
<1>2. PICK R \in Seq(ProxyMessage) : R = toClient[n] /\ R # <<>>
    BY OneProxy
<1>3. PICK X \in Seq(ProxyMessage) : X = Tail(R)
    BY <1>2, TakenMessage
<1>4. PICK s \in Direction \cup {NoDirection} : s = served[n]
    BY OneProxy
<1>5. toProxy' = [toProxy EXCEPT ![n] = W] /\ toClient' = [toClient EXCEPT ![n] = X] /\ served' = [served EXCEPT ![n] = s]
    BY <1>1, <1>2, <1>3, <1>4, OneProxy
<1>6. /\ WireOK(W, n, pendingAttempts, attemptCount) /\ WireOK(R, n, pendingAttempts, attemptCount)
      /\ ConnectionOK(n, definition, connections[n], n \in proxyLocks, n \in outdated, W, R, s)
    BY <1>1, <1>2, <1>4, OneProxy
<1>7. WireOK(X, n, pendingAttempts, attemptCount)
    BY <1>2, <1>3, <1>6, WireShrinks
<1>8. ASSUME connections[n] # NoDirection, n \notin outdated PROVE WillServe(W, X, s, definition.direction, 1)
    <2>1. WillServe(W, R, s, definition.direction, 1) /\ 1 \in Nat /\ 1 >= 1 /\ Head(R).kind # "leave"
        BY <1>2, <1>6, <1>8 DEF ConnectionOK
    <2>2. QED
        BY <1>2, <1>3, <2>1, ClientTakes
<1>9. ASSUME NEW a \in pendingAttempts, a.node = n PROVE AttemptOK(a, definition, W, X, s)
    <2>1. AttemptOK(a, definition, W, R, s)
        BY <1>1, <1>2, <1>4, <1>9, OneAttempt
    <2>2. QED
        BY <1>2, <1>3, <2>1, AttemptAfterTake
<1>10. QED
    BY <1>5, <1>6, <1>7, <1>8, <1>9, WiresChange

LEMMA AttemptAcceptedKeeps ==
    ASSUME ProxyInv, NEW n \in Proxy, AttemptAccepted(n)
    PROVE  ProxyInv'
<1>1. PICK R \in Seq(ProxyMessage) : R = toClient[n] /\ R # <<>>
    BY OneProxy DEF AttemptAccepted
<1>2. PICK m : m = Head(R)
    OBVIOUS
<1>3. m.kind = "accepted" /\ m = R[1] /\ 1 \in 1 .. Len(R)
    BY <1>1, <1>2, TakenMessage DEF AttemptAccepted
<1>4. /\ toClient' = [toClient EXCEPT ![n] = Tail(R)] /\ toProxy' = toProxy /\ served' = served
      /\ UNCHANGED <<definition, attemptCount, clientStopped>>
    BY <1>1 DEF AttemptAccepted
<1>5. CASE ~\E x \in pendingAttempts : x.id = m.id
    <2>1. UNCHANGED <<pendingAttempts, connections, proxyLocks, outdated>>
        BY <1>1, <1>2, <1>5 DEF AttemptAccepted
    <2>2. toClient[n] # <<>> /\ Head(toClient[n]).kind # "leave" /\ toClient' = [toClient EXCEPT ![n] = Tail(toClient[n])]
        BY <1>1, <1>2, <1>3, <1>4
    <2>3. QED
        BY <1>4, <2>1, <2>2, ClientIgnores
<1>6. CASE \E x \in pendingAttempts : x.id = m.id
    <2>1. PICK a : a = CHOOSE x \in pendingAttempts : x.id = m.id
        OBVIOUS
    <2>2. a \in pendingAttempts /\ a.id = m.id
        BY <1>6, <2>1
    <2>3. /\ pendingAttempts' = pendingAttempts \ {a} /\ connections' = [connections EXCEPT ![n] = a.direction]
          /\ proxyLocks' = proxyLocks \cup {n}
          /\ outdated' = IF a.version = definition.version THEN outdated \ {n} ELSE outdated \cup {n}
        BY <1>1, <1>2, <1>6, <2>1 DEF AttemptAccepted
    <2>4. PICK W \in Seq(ProxyMessage) : W = toProxy[n]
        BY OneProxy
    <2>5. PICK X \in Seq(ProxyMessage) : X = Tail(R)
        BY <1>1, TakenMessage
    <2>6. PICK s \in Direction \cup {NoDirection} : s = served[n]
        BY OneProxy
    <2>7. /\ WireOK(W, n, pendingAttempts, attemptCount) /\ WireOK(R, n, pendingAttempts, attemptCount)
          /\ toClient \in [Proxy -> Seq(ProxyMessage)] /\ connections \in [Proxy -> Direction \cup {NoDirection}]
          /\ attemptCount \in Nat /\ AttemptsOK(pendingAttempts, definition, attemptCount) /\ pendingAttempts \subseteq AttemptRecord
        BY <1>1, <2>4, OneProxy, OneAttempt
    <2>8. a \in AttemptRecord /\ a.node = n /\ a.direction \in Direction /\ AttemptOK(a, definition, W, R, s)
        <3>1. a \in AttemptRecord /\ a.node = n
            BY <1>3, <2>2, <2>7 DEF WireOK
        <3>2. AttemptOK(a, definition, toProxy[a.node], toClient[a.node], served[a.node])
            BY <2>2, OneAttempt
        <3>3. QED
            BY <1>1, <2>4, <2>6, <3>1, <3>2, AttemptFields
    <2>9. /\ toClient'[n] = X /\ connections'[n] = a.direction /\ toProxy'[n] = W /\ served'[n] = s
          /\ \A p \in Proxy : p # n =>
               /\ toClient'[p] = toClient[p] /\ connections'[p] = connections[p]
               /\ (p \in proxyLocks' <=> p \in proxyLocks) /\ (p \in outdated' <=> p \in outdated)
        BY <1>4, <2>3, <2>4, <2>5, <2>6, <2>7
    <2>10. ConnectionOK(n, definition, a.direction, n \in proxyLocks', n \in outdated', W, X, s)
        <3>1. n \in proxyLocks' /\ a.direction # NoDirection
            BY <2>3, <2>8, ProxyConstants
        <3>2. ASSUME n \notin outdated' PROVE n \in definition.nodes /\ a.direction = definition.direction /\ WillServe(W, X, s, definition.direction, 1)
            <4>1. a.version = definition.version
                BY <2>3, <3>2
            <4>2. n \in definition.nodes /\ a.direction = definition.direction /\ WillServe(W, R, s, definition.direction, 1 + 1)
                BY <1>3, <2>2, <2>8, <4>1 DEF AttemptOK
            <4>3. 1 \in Nat /\ 1 >= 1
                OBVIOUS
            <4>4. WillServe(W, X, s, definition.direction, 1)
                BY <1>1, <2>5, <4>2, <4>3, ClientTakes
            <4>5. QED
                BY <4>2, <4>4
        <3>3. QED
            BY <3>1, <3>2 DEF ConnectionOK
    <2>11. ASSUME NEW p \in Proxy
           PROVE  ConnectionOK(p, definition, connections'[p], p \in proxyLocks', p \in outdated', toProxy'[p], toClient'[p], served'[p])
        <3>1. CASE p = n
            BY <2>9, <2>10, <3>1
        <3>2. CASE p # n
            <4>1. ConnectionOK(p, definition, connections[p], p \in proxyLocks, p \in outdated, toProxy[p], toClient[p], served[p])
                BY OneProxy
            <4>2. QED
                BY <1>4, <2>9, <3>2, <4>1 DEF ConnectionOK
        <3>3. QED
            BY <3>1, <3>2
    <2>12. ASSUME NEW p \in Proxy
           PROVE  WireOK(toProxy'[p], p, pendingAttempts', attemptCount) /\ WireOK(toClient'[p], p, pendingAttempts', attemptCount)
        <3>1. WireOK(toProxy[p], p, pendingAttempts, attemptCount) /\ WireOK(toClient'[p], p, pendingAttempts, attemptCount)
            <4>1. WireOK(X, n, pendingAttempts, attemptCount)
                BY <1>1, <2>5, <2>7, WireShrinks
            <4>2. QED
                BY <2>9, <4>1, OneProxy
        <3>2. QED
            BY <1>4, <2>3, <3>1 DEF WireOK
    <2>13. ASSUME NEW b \in pendingAttempts' PROVE AttemptOK(b, definition, toProxy'[b.node], toClient'[b.node], served'[b.node])
        <3>1. b \in pendingAttempts /\ b.node \in Proxy /\ AttemptOK(b, definition, toProxy[b.node], toClient[b.node], served[b.node])
            BY <2>3, <2>7, OneAttempt, AttemptFields
        <3>2. CASE b.node = n
            <4>1. AttemptOK(b, definition, W, R, s)
                BY <1>1, <2>4, <2>6, <3>1, <3>2
            <4>2. AttemptOK(b, definition, W, X, s)
                BY <1>1, <2>5, <4>1, AttemptAfterTake
            <4>3. QED
                BY <2>9, <3>2, <4>2
        <3>3. CASE b.node # n
            BY <1>4, <2>9, <3>1, <3>3
        <3>4. QED
            BY <3>2, <3>3
    <2>14. AttemptsOK(pendingAttempts', definition, attemptCount)
        BY <2>3, <2>7 DEF AttemptsOK
    <2>15. ProxyTypes'
        <3>1. toClient' \in [Proxy -> Seq(ProxyMessage)]
            BY <1>4, <2>5, <2>7
        <3>2. connections' \in [Proxy -> Direction \cup {NoDirection}]
            BY <2>3, <2>7, <2>8
        <3>3. pendingAttempts' \in SUBSET AttemptRecord /\ proxyLocks' \in SUBSET Proxy /\ outdated' \in SUBSET Proxy
            BY <2>3, <2>7 DEF ProxyInv, ProxyTypes
        <3>4. QED
            BY <1>4, <3>1, <3>2, <3>3 DEF ProxyInv, ProxyTypes
    <2>16. ProxyIdle'
        BY <1>4, <2>2 DEF ProxyInv, ProxyIdle
    <2>17. QED
        BY <1>4, <2>11, <2>12, <2>13, <2>14, <2>15, <2>16 DEF ProxyInv
<1>7. QED
    BY <1>5, <1>6

LEMMA EmptyWire ==
    \E E \in Seq(ProxyMessage) : E = <<>> /\ Len(E) = 0
<1>1. <<>> \in Seq(ProxyMessage)
    OBVIOUS
<1>2. Len(<<>>) = 0
    OBVIOUS
<1>3. QED
    BY <1>1, <1>2, Zenon

\* A connection ends while the definition stays; X is what is still on its way to the client.
LEMMA DisconnectedKeeps ==
    ASSUME ProxyInv, NEW n \in Proxy, ~clientStopped, clientStopped' = clientStopped, served' = served, definition' = definition,
           NEW W \in Seq(ProxyMessage), NEW X \in Seq(ProxyMessage), toClient' = [toClient EXCEPT ![n] = X],
           OnNodeDisconnected(n, [toProxy EXCEPT ![n] = W]),
           WireOK(W, n, pendingAttempts, attemptCount), WireOK(X, n, pendingAttempts, attemptCount),
           \A a \in pendingAttempts : a.node = n => AttemptOK(a, definition, W, X, served[n])
    PROVE  ProxyInv'
<1>1. PICK wires : wires = [toProxy EXCEPT ![n] = W]
    OBVIOUS
<1>2. /\ wires \in [Proxy -> Seq(ProxyMessage)] /\ wires[n] = W /\ \A p \in Proxy : p # n => wires[p] = toProxy[p]
      /\ toClient' \in [Proxy -> Seq(ProxyMessage)] /\ toClient'[n] = X /\ \A p \in Proxy : p # n => toClient'[p] = toClient[p]
      /\ connections \in [Proxy -> Direction \cup {NoDirection}]
    BY <1>1, OneProxy
<1>3. CASE connections[n] = NoDirection
    <2>1. toProxy' = wires /\ UNCHANGED <<connections, proxyLocks, pendingAttempts, attemptCount, outdated>>
        BY <1>1, <1>3 DEF OnNodeDisconnected
    <2>2. PICK s \in Direction \cup {NoDirection} : s = served[n] /\ served' = [served EXCEPT ![n] = s]
        BY OneProxy
    <2>3. QED
        BY <1>1, <1>3, <2>1, <2>2, WiresChange
<1>4. CASE connections[n] # NoDirection
    <2>1. PICK conns : conns = [connections EXCEPT ![n] = NoDirection]
        OBVIOUS
    <2>2. UpdateConnections(definition, conns, proxyLocks \ {n}, wires)
        BY <1>1, <1>4, <2>1 DEF OnNodeDisconnected
    <2>3. conns \in [Proxy -> Direction \cup {NoDirection}] /\ conns[n] = NoDirection /\ \A p \in Proxy : p # n => conns[p] = connections[p]
        BY <1>2, <2>1
    <2>4. definition \in ProxyDefinition /\ definition.version \in Nat
        BY OneAttempt
    <2>5. definition.version # 0 /\ definition.direction \in Direction
        BY <1>4 DEF ProxyInv, ProxyIdle
    <2>6. definition.version > 0 /\ definition.version <= definition.version
        BY <2>4, <2>5
    <2>7. PICK locks \in SUBSET Proxy : locks = proxyLocks \ {n}
        BY DEF ProxyInv, ProxyTypes
    <2>8. ASSUME NEW p \in Proxy
          PROVE  /\ WireOK(wires[p], p, pendingAttempts, attemptCount) /\ WireOK(toClient'[p], p, pendingAttempts, attemptCount)
                 /\ p \in locks <=> conns[p] # NoDirection
                 /\ conns[p] # NoDirection /\ p \notin outdated => WillServe(wires[p], toClient'[p], served[p], definition.direction, 1)
        <3>1. CASE p = n
            BY <1>2, <2>3, <2>7, <3>1
        <3>2. CASE p # n
            <4>1. /\ wires[p] = toProxy[p] /\ toClient'[p] = toClient[p] /\ conns[p] = connections[p]
                  /\ p \in locks <=> p \in proxyLocks
                BY <1>2, <2>3, <2>7, <3>2
            <4>2. /\ WireOK(toProxy[p], p, pendingAttempts, attemptCount) /\ WireOK(toClient[p], p, pendingAttempts, attemptCount)
                  /\ ConnectionOK(p, definition, connections[p], p \in proxyLocks, p \in outdated, toProxy[p], toClient[p], served[p])
                BY OneProxy
            <4>3. QED
                BY <4>1, <4>2 DEF ConnectionOK
        <3>3. QED
            BY <3>1, <3>2
    <2>9. ASSUME NEW a \in pendingAttempts PROVE AttemptOK(a, definition, wires[a.node], toClient'[a.node], served[a.node])
        <3>1. a.node \in Proxy /\ AttemptOK(a, definition, toProxy[a.node], toClient[a.node], served[a.node])
            BY OneAttempt, AttemptFields
        <3>2. QED
            BY <1>2, <3>1
    <2>10. clientStopped' = FALSE
        BY DEF ProxyInv
    <2>11. UpdateConnections(definition, conns, locks, wires)
        BY <2>2, <2>7
    <2>12. PICK def \in ProxyDefinition : def = definition
        BY <2>4
    <2>13. /\ UpdateConnections(def, conns, locks, wires) /\ def \in ProxyDefinition /\ definition' = def /\ definition.version <= def.version
           /\ def.version > 0 /\ def.direction \in Direction
           /\ \A a \in pendingAttempts : AttemptOK(a, def, wires[a.node], toClient'[a.node], served[a.node])
        BY <2>5, <2>6, <2>9, <2>11, <2>12
    <2>14. ASSUME NEW p \in Proxy
           PROVE  /\ WireOK(wires[p], p, pendingAttempts, attemptCount) /\ WireOK(toClient'[p], p, pendingAttempts, attemptCount)
                  /\ p \in locks <=> conns[p] # NoDirection
                  /\ conns[p] # NoDirection /\ p \notin outdated /\ p \in def.nodes /\ conns[p] = def.direction
                     => WillServe(wires[p], toClient'[p], served[p], def.direction, 1)
        BY <2>8, <2>12
    <2>15. /\ wires \in [Proxy -> Seq(ProxyMessage)] /\ toClient' \in [Proxy -> Seq(ProxyMessage)]
           /\ conns \in [Proxy -> Direction \cup {NoDirection}] /\ locks \in SUBSET Proxy
        BY <1>2, <2>3, <2>7
    <2>16. QED
        BY <2>15, <2>10, <2>13, <2>14, UpdateKeeps
<1>5. QED
    BY <1>3, <1>4

LEMMA LeaveNoticeKeeps ==
    ASSUME ProxyInv, NEW n \in Proxy, LeaveNoticeArrives(n)
    PROVE  ProxyInv'
<1>1. PICK R \in Seq(ProxyMessage) : R = toClient[n] /\ R # <<>>
    BY OneProxy DEF LeaveNoticeArrives
<1>2. /\ toClient' = [toClient EXCEPT ![n] = Tail(R)] /\ UNCHANGED <<definition, served, clientStopped>>
    BY <1>1 DEF LeaveNoticeArrives
<1>3. CASE clientStopped
    <2>1. UNCHANGED <<connections, proxyLocks, pendingAttempts, attemptCount, outdated, toProxy>>
        BY <1>3 DEF LeaveNoticeArrives
    <2>2. connections[n] = NoDirection
        BY <1>3 DEF ProxyInv, ProxyIdle
    <2>3. QED
        BY <1>1, <1>2, <2>1, <2>2, ClientIgnores
<1>4. CASE ~clientStopped
    <2>1. OnNodeDisconnected(n, toProxy)
        BY <1>4 DEF LeaveNoticeArrives
    <2>2. PICK W \in Seq(ProxyMessage) : W = toProxy[n] /\ toProxy = [toProxy EXCEPT ![n] = W]
        BY OneProxy
    <2>3. PICK X \in Seq(ProxyMessage) : X = Tail(R)
        BY <1>1, TakenMessage
    <2>4. WireOK(W, n, pendingAttempts, attemptCount) /\ WireOK(R, n, pendingAttempts, attemptCount)
        BY <1>1, <2>2, OneProxy
    <2>5. WireOK(X, n, pendingAttempts, attemptCount)
        BY <1>1, <2>3, <2>4, WireShrinks
    <2>6. ASSUME NEW a \in pendingAttempts, a.node = n PROVE AttemptOK(a, definition, W, X, served[n])
        <3>1. AttemptOK(a, definition, W, R, served[n])
            BY <1>1, <2>2, <2>6, OneAttempt
        <3>2. QED
            BY <1>1, <2>3, <3>1, AttemptAfterTake
    <2>7. OnNodeDisconnected(n, [toProxy EXCEPT ![n] = W])
        BY <2>1, <2>2
    <2>8. QED
        BY <1>2, <1>4, <2>3, <2>4, <2>5, <2>6, <2>7, DisconnectedKeeps
<1>5. QED
    BY <1>3, <1>4

LEMMA ConnectionLostKeeps ==
    ASSUME ProxyInv, NEW n \in Proxy, ConnectionLost(n)
    PROVE  ProxyInv'
<1>1. /\ ~clientStopped /\ toClient' = [toClient EXCEPT ![n] = <<>>] /\ OnNodeDisconnected(n, [toProxy EXCEPT ![n] = <<>>])
      /\ UNCHANGED <<definition, served, clientStopped>>
    BY DEF ConnectionLost
<1>2. PICK E \in Seq(ProxyMessage) : E = <<>> /\ Len(E) = 0
    BY EmptyWire
<1>3. WireOK(E, n, pendingAttempts, attemptCount)
    BY <1>2 DEF WireOK
<1>4. \A a \in pendingAttempts : AttemptOK(a, definition, E, E, served[n])
    <2>1. \A a \in pendingAttempts : a.version = definition.version => a.node \in definition.nodes /\ a.direction = definition.direction
        BY OneAttempt DEF AttemptOK
    <2>2. QED
        BY <1>2, <2>1 DEF AttemptOK
<1>5. toClient' = [toClient EXCEPT ![n] = E] /\ OnNodeDisconnected(n, [toProxy EXCEPT ![n] = E])
    BY <1>1, <1>2
<1>6. QED
    BY <1>1, <1>3, <1>4, <1>5, DisconnectedKeeps

LEMMA SetProxiesKeeps ==
    ASSUME ProxyInv, NEW nodes \in SUBSET Proxy, NEW d \in Direction, NEW count \in Nat, SetProxyDefinition(nodes, d, count)
    PROVE  ProxyInv'
<1>1. PICK v \in Nat : v = definition.version + 1
    BY OneAttempt
<1>2. PICK def : def = [nodes |-> nodes, direction |-> d, count |-> count, version |-> v]
    OBVIOUS
<1>3. def \in ProxyDefinition /\ def.nodes = nodes /\ def.direction = d /\ def.version = v
    BY <1>2 DEF ProxyDefinition
<1>4. /\ ~clientStopped /\ definition' = def /\ UpdateConnections(def, connections, proxyLocks, toProxy)
      /\ UNCHANGED <<toClient, served, clientStopped>>
    BY <1>1, <1>2 DEF SetProxyDefinition
<1>5. def.version > 0 /\ definition.version <= def.version /\ definition.version < def.version /\ definition.version \in Nat /\ def.version \in Nat
    BY <1>1, <1>3, OneAttempt
<1>6. ASSUME NEW n \in Proxy
      PROVE  /\ WireOK(toProxy[n], n, pendingAttempts, attemptCount) /\ WireOK(toClient'[n], n, pendingAttempts, attemptCount)
             /\ n \in proxyLocks <=> connections[n] # NoDirection
             /\ connections[n] # NoDirection /\ n \notin outdated /\ n \in def.nodes /\ connections[n] = def.direction
                => WillServe(toProxy[n], toClient'[n], served[n], def.direction, 1)
    <2>1. /\ WireOK(toProxy[n], n, pendingAttempts, attemptCount) /\ WireOK(toClient[n], n, pendingAttempts, attemptCount)
          /\ ConnectionOK(n, definition, connections[n], n \in proxyLocks, n \in outdated, toProxy[n], toClient[n], served[n])
        BY OneProxy
    <2>2. QED
        BY <1>4, <2>1 DEF ConnectionOK
<1>7. ASSUME NEW a \in pendingAttempts PROVE AttemptOK(a, def, toProxy[a.node], toClient'[a.node], served[a.node])
    <2>1. a.version \in Nat /\ a.version <= definition.version
        BY OneAttempt, AttemptFields DEF AttemptsOK
    <2>2. a.version # def.version
        BY <1>5, <2>1
    <2>3. QED
        BY <2>2 DEF AttemptOK
<1>8. /\ connections \in [Proxy -> Direction \cup {NoDirection}] /\ proxyLocks \in SUBSET Proxy
      /\ toProxy \in [Proxy -> Seq(ProxyMessage)] /\ toClient' \in [Proxy -> Seq(ProxyMessage)]
    BY <1>4 DEF ProxyInv, ProxyTypes
<1>9. clientStopped' = FALSE
    BY <1>4
<1>10. QED
    BY <1>3, <1>4, <1>5, <1>6, <1>7, <1>8, <1>9, UpdateKeeps

LEMMA StopClientKeeps ==
    ASSUME ProxyInv, StopClient
    PROVE  ProxyInv'
<1>1. /\ connections' = [n \in Proxy |-> NoDirection] /\ pendingAttempts' = {} /\ outdated' = {} /\ proxyLocks' = proxyLocks \ Connected
      /\ toProxy' = [n \in Proxy |-> IF n \in Connected THEN Append(toProxy[n], ProxyLeaveNotice) ELSE toProxy[n]]
      /\ UNCHANGED <<definition, attemptCount, toClient, served>>
    BY DEF StopClient
<1>2. ASSUME NEW n \in Proxy
      PROVE  /\ toProxy'[n] \in Seq(ProxyMessage) /\ WireOK(toProxy'[n], n, {}, attemptCount) /\ WireOK(toClient[n], n, {}, attemptCount)
             /\ n \notin proxyLocks' /\ connections'[n] = NoDirection
    <2>1. PICK W \in Seq(ProxyMessage) : W = toProxy[n]
        BY OneProxy
    <2>2. WireOK(W, n, {}, attemptCount) /\ WireOK(toClient[n], n, {}, attemptCount)
        BY <2>1, OneProxy DEF WireOK
    <2>3. PICK m \in ProxyMessage : m = ProxyLeaveNotice /\ m.kind = "leave" /\ m.id = 0
        BY MessagesMade
    <2>4. attemptCount \in Nat /\ m.id <= attemptCount
        BY <2>3, OneAttempt
    <2>5. Append(W, m) \in Seq(ProxyMessage) /\ WireOK(Append(W, m), n, {}, attemptCount)
        BY <2>2, <2>3, <2>4, AppendedMessage, WireGrows
    <2>6. toProxy'[n] = Append(W, m) \/ toProxy'[n] = W
        BY <1>1, <2>1, <2>3
    <2>7. n \in proxyLocks <=> n \in Connected
        BY OneProxy DEF ConnectionOK, Connected
    <2>8. QED
        BY <1>1, <2>2, <2>5, <2>6, <2>7
<1>3. ProxyTypes'
    <2>1. toProxy' \in [Proxy -> Seq(ProxyMessage)]
        BY <1>1, <1>2
    <2>2. QED
        BY <1>1, <2>1 DEF ProxyInv, ProxyTypes
<1>4. ProxyIdle'
    BY <1>1, <1>2 DEF ProxyInv, ProxyIdle
<1>5. \A n \in Proxy : ConnectionOK(n, definition, connections'[n], n \in proxyLocks', n \in outdated', toProxy'[n], toClient[n], served[n])
    BY <1>2 DEF ConnectionOK
<1>6. AttemptsOK({}, definition, attemptCount)
    BY DEF AttemptsOK
<1>7. QED
    BY <1>1, <1>2, <1>3, <1>4, <1>5, <1>6 DEF ProxyInv

LEMMA ProxyInitially ==
    ASSUME ProxyInit
    PROVE  ProxyInv
<1>1. /\ connections = [n \in Proxy |-> NoDirection] /\ proxyLocks = {} /\ pendingAttempts = {} /\ attemptCount = 0 /\ outdated = {}
      /\ toProxy = [n \in Proxy |-> <<>>] /\ toClient = [n \in Proxy |-> <<>>] /\ served = [n \in Proxy |-> NoDirection]
    BY DEF ProxyInit
<1>2. definition \in ProxyDefinition /\ definition.version = 0
    BY DEF ProxyInit, NoDefinition, ProxyDefinition
<1>3. PICK E \in Seq(ProxyMessage) : E = <<>> /\ Len(E) = 0
    BY EmptyWire
<1>4. \A n \in Proxy : toProxy[n] = E /\ toClient[n] = E /\ connections[n] = NoDirection
    BY <1>1, <1>3
<1>5. ProxyTypes
    <2>1. toProxy \in [Proxy -> Seq(ProxyMessage)] /\ toClient \in [Proxy -> Seq(ProxyMessage)]
        BY <1>1
    <2>2. QED
        BY <1>1, <1>2, <2>1 DEF ProxyTypes
<1>6. ProxyIdle /\ AttemptsOK(pendingAttempts, definition, attemptCount)
    BY <1>1, <1>2, <1>4 DEF ProxyIdle, AttemptsOK
<1>7. \A n \in Proxy : WireOK(E, n, pendingAttempts, attemptCount)
    BY <1>3 DEF WireOK
<1>8. \A n \in Proxy : ConnectionOK(n, definition, connections[n], n \in proxyLocks, n \in outdated, toProxy[n], toClient[n], served[n])
    BY <1>1, <1>4 DEF ConnectionOK
<1>9. QED
    BY <1>1, <1>4, <1>5, <1>6, <1>7, <1>8 DEF ProxyInv

LEMMA ProxyInductive ==
    ProxyInv /\ [ProxyNext]_proxyVars => ProxyInv'
<1> SUFFICES ASSUME ProxyInv, [ProxyNext]_proxyVars PROVE ProxyInv'
    OBVIOUS
<1>1. CASE UNCHANGED proxyVars
    <2>1. UNCHANGED <<definition, connections, proxyLocks, pendingAttempts, attemptCount, outdated, toProxy, toClient, served, clientStopped>>
        BY <1>1 DEF proxyVars
    <2>2. QED
        BY <2>1, FewerAttempts
<1>2. ASSUME NEW nodes \in SUBSET Proxy, NEW d \in Direction, NEW count \in 1 .. Cardinality(Proxy), SetProxyDefinition(nodes, d, count)
      PROVE  ProxyInv'
    <2>1. Cardinality(Proxy) \in Nat
        BY ProxyConstants, FS_CardinalityType
    <2>2. count \in Nat
        BY <2>1
    <2>3. QED
        BY <1>2, <2>2, SetProxiesKeeps
<1>3. ASSUME NEW n \in Proxy, AttemptAccepted(n) \/ LeaveNoticeArrives(n) \/ ConnectionLost(n) \/ ProxyHandles(n) \/ ProxyStops(n)
      PROVE  ProxyInv'
    BY <1>3, AttemptAcceptedKeeps, LeaveNoticeKeeps, ConnectionLostKeeps, ProxyHandlesKeeps, ProxyStopsKeeps
<1>4. ASSUME NEW a \in pendingAttempts, AttemptFails(a) PROVE ProxyInv'
    <2>1. pendingAttempts \ {a} \in SUBSET pendingAttempts
        OBVIOUS
    <2>2. /\ pendingAttempts' = pendingAttempts \ {a} /\ toProxy' = toProxy /\ toClient' = toClient /\ served' = served
          /\ UNCHANGED <<definition, connections, proxyLocks, attemptCount, outdated, clientStopped>>
        BY <1>4 DEF AttemptFails
    <2>3. QED
        BY <2>1, <2>2, FewerAttempts
<1>5. CASE StopClient
    BY <1>5, StopClientKeeps
<1>6. QED
    BY <1>1, <1>2, <1>3, <1>4, <1>5 DEF ProxyNext

\* ProxyClient and ProxyConnectionRpcLocal agree, for any number of proxies, definitions, attempts and faults.
THEOREM ProxiesAgreeAlways ==
    ProxySpec => []ProxiesAgree
<1>1. ASSUME ProxyInv PROVE ProxiesAgree
    <2> SUFFICES ASSUME NEW n \in Proxy
                 PROVE  /\ (n \in proxyLocks) = (n \in Connected)
                        /\ n \in Connected \ outdated => n \in definition.nodes /\ connections[n] = definition.direction
                        /\ n \in Connected \ outdated /\ toProxy[n] = <<>> /\ toClient[n] = <<>> => served[n] = connections[n]
        BY DEF ProxiesAgree
    <2>1. ConnectionOK(n, definition, connections[n], n \in proxyLocks, n \in outdated, toProxy[n], toClient[n], served[n])
        BY <1>1, OneProxy
    <2>2. (n \in proxyLocks) = (n \in Connected)
        BY <2>1 DEF ConnectionOK, Connected
    <2>3. ASSUME n \in Connected \ outdated
          PROVE  /\ n \in definition.nodes /\ connections[n] = definition.direction
                 /\ WillServe(toProxy[n], toClient[n], served[n], definition.direction, 1)
        BY <2>1, <2>3 DEF ConnectionOK, Connected
    <2>4. ASSUME n \in Connected \ outdated, toProxy[n] = <<>>, toClient[n] = <<>> PROVE served[n] = connections[n]
        BY <2>3, <2>4 DEF WillServe
    <2>5. QED
        BY <2>2, <2>3, <2>4
<1>2. QED
    BY <1>1, ProxyInitially, ProxyInductive, PTL DEF ProxySpec

-----------------------------------------------------------------------------
(* Delivery: the intervals of the DuplicateMessageDetector.  The numbers    *)
(* that can bound a gap are those of the chain and Infinity; a number is    *)
(* told by its rank among them.                                             *)

Number(k) == IF k = Len(Chain) + 1 THEN Infinity ELSE Chain[k]
Numbers == {Number(k) : k \in 1 .. Len(Chain) + 1}
Rank(x) == CHOOSE k \in 1 .. Len(Chain) + 1 : Number(k) = x

Gap == Numbers \X Numbers
Lo(g) == Rank(g[1])
Hi(g) == Rank(g[2])
In(k, g) == Lo(g) < k /\ k <= Hi(g)
InGap(k, gs) == \E i \in 1 .. Len(gs) : In(k, gs[i])

\* The gaps are in ascending order, and the last one is open.
GapsOK(gs) ==
    /\ gs \in Seq(Gap) /\ Len(gs) > 0
    /\ \A i, j \in 1 .. Len(gs) : i < j => Hi(gs[i]) <= Lo(gs[j])
    /\ Hi(gs[Len(gs)]) = Len(Chain) + 1

\* The gaps hold what was not seen: a message that was received or published is in none, and one that
\* was not is in one, or is older than the first, or was in a gap that was dropped.
DetectorOK(gs, em, old, lost, got) ==
    /\ gs = <<>> => old = 0 /\ (\A m \in Msg : em[m] = 0) /\ got = {}
    /\ gs # <<>> => GapsOK(gs) /\ old \in Msg
    /\ \A m \in Msg :
         /\ em[m] <= 1
         /\ em[m] > 0 \/ (\E p \in Peer : <<m, p>> \in got) => ~InGap(m, gs)
         /\ gs # <<>> /\ em[m] = 0 => InGap(m, gs) \/ m < old \/ m \in lost

DeliveryTask == [msg : Msg, source : Peer \cup {Nowhere}, handled : SUBSET Peer, stale : BOOLEAN, at : Nat]

DeliveryTypes ==
    /\ emitted \in [Msg -> Nat] /\ sentTo \in [Msg -> SUBSET Peer] /\ tasks \in SUBSET DeliveryTask
    /\ ownNeighbors \in SUBSET Peer /\ temporary \in SUBSET Peer

\* What a task has handled was sent; a stale task is given up.
TaskOK(t, reached, up) == t.handled \subseteq reached[t.msg] /\ (t.stale => t.msg \in up)

DeliveryInv ==
    /\ DeliveryTypes /\ DetectorOK(gaps, emitted, oldest, forgotten, heard)
    /\ \A t \in tasks : TaskOK(t, sentTo, givenUp)
    /\ SpreadsToNeighbors

\* A bounded set of naturals has a greatest element.
LEMMA GreatestNumber ==
    ASSUME NEW T \in SUBSET Nat, NEW top \in Nat, \A x \in T : x <= top, T # {}
    PROVE  Max(T) \in T /\ \A y \in T : y <= Max(T)
<1> DEFINE U == {top - x : x \in T}
<1>1. U \in SUBSET Nat /\ U # {}
    <2>1. \A x \in T : top - x \in Nat
        OBVIOUS
    <2>2. QED
        BY <2>1
<1>2. IsWellFoundedOn(OpToRel(<, Nat), Nat)
    BY NatLessThanWellFounded
<1>3. PICK u \in U : \A y \in U : ~(<<y, u>> \in OpToRel(<, Nat))
    BY <1>1, <1>2, WFMin
<1>4. \A y \in U : ~(y < u)
    BY <1>1, <1>3 DEF OpToRel
<1>5. PICK x \in T : u = top - x
    BY <1>3
<1>6. ASSUME NEW y \in T PROVE x >= y
    <2>1. ~(top - y < top - x)
        BY <1>4, <1>5
    <2>2. x \in Nat /\ y \in Nat
        OBVIOUS
    <2>3. QED
        BY <2>1, <2>2
<1>7. \E z \in T : \A y \in T : z >= y
    BY <1>5, <1>6
<1>8. Max(T) \in T /\ \A y \in T : Max(T) >= y
    BY <1>7 DEF Max
<1>9. QED
    BY <1>8

LEMMA ChainFacts ==
    /\ Len(Chain) \in Nat /\ Len(Chain) > 0 /\ Msg = 1 .. Len(Chain) /\ IsFiniteSet(Peer)
    /\ \A m \in Msg : Chain[m] \in Nat \X Nat
    /\ \A i, j \in Msg : i < j => GreaterThan(Chain[j], Chain[i])
    /\ FirstNeighbors \subseteq Peer /\ MaxGapCount \in Nat /\ MaxGapCount >= 1 /\ MinPropagationTargets \in Nat
<1>1. Len(Chain) \in Nat /\ Len(Chain) > 0 /\ Msg = 1 .. Len(Chain) /\ \A m \in Msg : Chain[m] \in Nat \X Nat
    BY DeliveryAssumption DEF Msg
<1>2. ASSUME NEW i \in Msg, NEW j \in Msg, i < j PROVE GreaterThan(Chain[j], Chain[i])
    <2>1. Chain[i][1] \in Nat /\ Chain[i][2] \in Nat /\ Chain[j][1] \in Nat /\ Chain[j][2] \in Nat
        BY <1>1
    <2>2. QED
        BY <1>2, <2>1, DeliveryAssumption DEF Msg, GreaterThan
<1>3. QED
    BY <1>1, <1>2, DeliveryAssumption

LEMMA NumbersAscend ==
    ASSUME NEW i \in 1 .. Len(Chain) + 1, NEW j \in 1 .. Len(Chain) + 1, i < j
    PROVE  GreaterThan(Number(j), Number(i)) /\ ~GreaterThan(Number(i), Number(j)) /\ Number(i) # Number(j)
<1>1. Len(Chain) \in Nat /\ i \in Msg /\ Number(i) = Chain[i] /\ Chain[i] \in Nat \X Nat
    BY ChainFacts DEF Number
<1>2. Number(j) \in Nat \X Nat /\ GreaterThan(Number(j), Number(i))
    <2>1. CASE j = Len(Chain) + 1
        <3>1. Len(Chain) \in Msg /\ Number(j) = <<Chain[Len(Chain)][1] + 1, 0>> /\ Chain[Len(Chain)] \in Nat \X Nat
            BY <1>1, <2>1, ChainFacts DEF Number, Infinity
        <3>2. i = Len(Chain) \/ GreaterThan(Chain[Len(Chain)], Chain[i])
            BY <1>1, <2>1, <3>1, ChainFacts
        <3>3. Chain[Len(Chain)][1] \in Nat /\ Chain[i][1] \in Nat /\ Chain[i][1] <= Chain[Len(Chain)][1]
            BY <1>1, <3>1, <3>2 DEF GreaterThan
        <3>4. QED
            BY <1>1, <3>1, <3>3 DEF GreaterThan
    <2>2. CASE j # Len(Chain) + 1
        <3>1. j \in Msg /\ Number(j) = Chain[j]
            BY <1>1, <2>2, ChainFacts DEF Number
        <3>2. QED
            BY <1>1, <3>1, ChainFacts
    <2>3. QED
        BY <2>1, <2>2
<1>3. /\ Number(i)[1] \in Nat /\ Number(i)[2] \in Nat /\ Number(j)[1] \in Nat /\ Number(j)[2] \in Nat
    BY <1>1, <1>2
<1>4. QED
    BY <1>2, <1>3 DEF GreaterThan

LEMMA NumberType ==
    \A p \in Numbers : p[1] \in Nat /\ p[2] \in Nat
<1> SUFFICES ASSUME NEW k \in 1 .. Len(Chain) + 1 PROVE Number(k) \in Nat \X Nat
    BY DEF Numbers
<1>1. CASE k = Len(Chain) + 1
    <2>1. Len(Chain) \in Msg
        BY ChainFacts
    <2>2. Chain[Len(Chain)] \in Nat \X Nat
        BY <2>1, ChainFacts
    <2>3. QED
        BY <1>1, <2>2 DEF Number, Infinity
<1>2. CASE k # Len(Chain) + 1
    BY <1>2, ChainFacts DEF Number
<1>3. QED
    BY <1>1, <1>2

\* Numbers are compared as their ranks are.
LEMMA RankOrder ==
    /\ \A p \in Numbers : Rank(p) \in 1 .. Len(Chain) + 1
    /\ \A p, q \in Numbers :
         /\ GreaterThan(p, q) <=> Rank(p) > Rank(q)
         /\ GreaterThanOrEqual(p, q) <=> Rank(p) >= Rank(q)
         /\ p = q <=> Rank(p) = Rank(q)
    /\ \A m \in Msg : Chain[m] \in Numbers /\ Rank(Chain[m]) = m
    /\ Infinity \in Numbers /\ Rank(Infinity) = Len(Chain) + 1
<1>1. Len(Chain) \in Nat /\ Len(Chain) + 1 \in 1 .. Len(Chain) + 1 /\ Msg = 1 .. Len(Chain)
    BY ChainFacts
<1>2. ASSUME NEW k \in 1 .. Len(Chain) + 1 PROVE Rank(Number(k)) = k
    <2>1. \A i \in 1 .. Len(Chain) + 1 : Number(i) = Number(k) => i = k
        <3> SUFFICES ASSUME NEW i \in 1 .. Len(Chain) + 1, i # k PROVE Number(i) # Number(k)
            OBVIOUS
        <3>1. i < k \/ k < i
            BY <1>1
        <3>2. QED
            BY <3>1, NumbersAscend
    <2>2. QED
        BY <2>1 DEF Rank
<1>3. ASSUME NEW p \in Numbers PROVE Rank(p) \in 1 .. Len(Chain) + 1 /\ Number(Rank(p)) = p
    BY <1>2 DEF Numbers
<1>4. ASSUME NEW p \in Numbers, NEW q \in Numbers
      PROVE  /\ GreaterThan(p, q) <=> Rank(p) > Rank(q)
             /\ GreaterThanOrEqual(p, q) <=> Rank(p) >= Rank(q)
             /\ p = q <=> Rank(p) = Rank(q)
    <2>1. Rank(p) \in 1 .. Len(Chain) + 1 /\ Rank(q) \in 1 .. Len(Chain) + 1 /\ Number(Rank(p)) = p /\ Number(Rank(q)) = q
        BY <1>3
    <2>2. CASE Rank(p) = Rank(q)
        <3>1. p = q /\ ~GreaterThan(p, q)
            <4>1. p = q
                BY <2>1, <2>2
            <4>2. QED
                BY <4>1, NumberType DEF GreaterThan
        <3>2. QED
            BY <1>1, <2>1, <2>2, <3>1 DEF GreaterThanOrEqual
    <2>3. CASE Rank(p) < Rank(q)
        <3>1. GreaterThan(q, p) /\ ~GreaterThan(p, q) /\ p # q
            BY <2>1, <2>3, NumbersAscend
        <3>2. QED
            BY <1>1, <2>1, <2>3, <3>1 DEF GreaterThanOrEqual
    <2>4. CASE Rank(q) < Rank(p)
        <3>1. GreaterThan(p, q) /\ p # q
            BY <2>1, <2>4, NumbersAscend
        <3>2. QED
            BY <1>1, <2>1, <2>4, <3>1 DEF GreaterThanOrEqual
    <2>5. QED
        BY <1>1, <2>1, <2>2, <2>3, <2>4
<1>5. ASSUME NEW m \in Msg PROVE Chain[m] \in Numbers /\ Rank(Chain[m]) = m
    <2>1. m \in 1 .. Len(Chain) + 1 /\ Number(m) = Chain[m]
        BY <1>1 DEF Number
    <2>2. QED
        BY <1>2, <2>1 DEF Numbers
<1>6. Infinity \in Numbers /\ Rank(Infinity) = Len(Chain) + 1
    <2>1. Number(Len(Chain) + 1) = Infinity
        BY DEF Number
    <2>2. QED
        BY <1>1, <1>2, <2>1 DEF Numbers
<1>7. QED
    BY <1>3, <1>4, <1>5, <1>6

Joins(r, a, mid, b) ==
    /\ Len(r) = Len(a) + Len(mid) + Len(b)
    /\ \A j \in 1 .. Len(a) : r[j] = a[j]
    /\ \A j \in 1 .. Len(mid) : r[Len(a) + j] = mid[j]
    /\ \A j \in 1 .. Len(b) : r[Len(a) + Len(mid) + j] = b[j]

LEMMA Joined ==
    ASSUME NEW S, NEW a \in Seq(S), NEW mid \in Seq(S), NEW b \in Seq(S)
    PROVE  \E r \in Seq(S) : r = a \o mid \o b /\ Joins(r, a, mid, b)
<1>1. PICK ab : ab = a \o mid
    OBVIOUS
<1>2. /\ ab \in Seq(S) /\ Len(ab) = Len(a) + Len(mid)
      /\ \A k \in 1 .. Len(a) + Len(mid) : ab[k] = IF k <= Len(a) THEN a[k] ELSE mid[k - Len(a)]
    BY <1>1, ConcatProperties, Zenon
<1>3. PICK r : r = ab \o b
    OBVIOUS
<1>4. /\ r \in Seq(S) /\ Len(r) = Len(ab) + Len(b)
      /\ \A k \in 1 .. Len(ab) + Len(b) : r[k] = IF k <= Len(ab) THEN ab[k] ELSE b[k - Len(ab)]
    <2>1. ab \in Seq(S)
        BY <1>2
    <2>2. QED
        BY <2>1, <1>3, ConcatProperties, Zenon
<1>5. Len(a) \in Nat /\ Len(mid) \in Nat /\ Len(b) \in Nat
    OBVIOUS
<1>6. \A j \in 1 .. Len(a) : r[j] = a[j]
    BY <1>2, <1>4, <1>5
<1>7. \A j \in 1 .. Len(mid) : r[Len(a) + j] = mid[j]
    <2> SUFFICES ASSUME NEW j \in 1 .. Len(mid) PROVE r[Len(a) + j] = mid[j]
        OBVIOUS
    <2>1. PICK k : k = Len(a) + j
        OBVIOUS
    <2>2. k \in 1 .. Len(a) + Len(mid) /\ ~(k <= Len(a)) /\ k - Len(a) = j
        BY <1>5, <2>1
    <2>3. r[k] = ab[k]
        BY <1>2, <1>4, <1>5, <2>2
    <2>4. QED
        BY <1>2, <2>1, <2>2, <2>3
<1>8. \A j \in 1 .. Len(b) : r[Len(a) + Len(mid) + j] = b[j]
    <2> SUFFICES ASSUME NEW j \in 1 .. Len(b) PROVE r[Len(a) + Len(mid) + j] = b[j]
        OBVIOUS
    <2>1. PICK k : k = Len(a) + Len(mid) + j
        OBVIOUS
    <2>2. k \in 1 .. Len(ab) + Len(b) /\ ~(k <= Len(ab)) /\ k - Len(ab) = j
        BY <1>2, <1>5, <2>1
    <2>3. QED
        BY <1>4, <2>1, <2>2
<1>9. Len(r) = Len(a) + Len(mid) + Len(b)
    BY <1>2, <1>4
<1>10. r = a \o mid \o b
    BY <1>1, <1>3
<1>11. QED
    <2>1. Joins(r, a, mid, b)
        BY <1>6, <1>7, <1>8, <1>9 DEF Joins
    <2>2. QED
        BY <1>4, <1>10, <2>1, Zenon

\* splice(): one element is replaced by some.
Splices(r, gs, i, mid) ==
    /\ Len(r) = Len(gs) - 1 + Len(mid)
    /\ \A j \in 1 .. i - 1 : r[j] = gs[j]
    /\ \A j \in 1 .. Len(mid) : r[i - 1 + j] = mid[j]
    /\ \A j \in i + 1 .. Len(gs) : r[j - 1 + Len(mid)] = gs[j]

LEMMA Spliced ==
    ASSUME NEW S, NEW gs \in Seq(S), NEW i \in 1 .. Len(gs), NEW mid \in Seq(S)
    PROVE  \E r \in Seq(S) :
             r = SubSeq(gs, 1, i - 1) \o mid \o SubSeq(gs, i + 1, Len(gs)) /\ Splices(r, gs, i, mid)
<1>1. Len(gs) \in Nat /\ Len(mid) \in Nat /\ \A k \in 1 .. Len(gs) : gs[k] \in S
    OBVIOUS
<1>2. PICK a : a = SubSeq(gs, 1, i - 1)
    OBVIOUS
<1>3. PICK b : b = SubSeq(gs, i + 1, Len(gs))
    OBVIOUS
<1>4. a \in Seq(S) /\ Len(a) = i - 1 /\ \A k \in 1 .. i - 1 : a[k] = gs[k]
    <2>1. \A k \in 1 .. i - 1 : gs[k] \in S
        BY <1>1
    <2>2. QED
        BY <1>1, <1>2, <2>1, SubSeqProperties
<1>5. b \in Seq(S) /\ Len(b) = Len(gs) - i /\ \A k \in 1 .. Len(gs) - i : b[k] = gs[i + k]
    <2>1. \A k \in i + 1 .. Len(gs) : gs[k] \in S
        BY <1>1
    <2>2. QED
        BY <1>1, <1>3, <2>1, SubSeqProperties
<1>6. PICK r \in Seq(S) : r = a \o mid \o b /\ Joins(r, a, mid, b)
    BY <1>4, <1>5, Joined, Zenon
<1>7. Len(r) = Len(gs) - 1 + Len(mid)
    BY <1>1, <1>4, <1>5, <1>6 DEF Joins
<1>8. \A j \in 1 .. i - 1 : r[j] = gs[j]
    BY <1>4, <1>6 DEF Joins
<1>9. \A j \in 1 .. Len(mid) : r[i - 1 + j] = mid[j]
    BY <1>4, <1>6 DEF Joins
<1>10. \A j \in i + 1 .. Len(gs) : r[j - 1 + Len(mid)] = gs[j]
    <2> SUFFICES ASSUME NEW j \in i + 1 .. Len(gs) PROVE r[j - 1 + Len(mid)] = gs[j]
        OBVIOUS
    <2>1. PICK k : k = j - i
        OBVIOUS
    <2>2. k \in 1 .. Len(gs) - i /\ i + k = j /\ Len(a) + Len(mid) + k = j - 1 + Len(mid)
        BY <1>1, <1>4, <2>1
    <2>3. r[Len(a) + Len(mid) + k] = b[k] /\ b[k] = gs[i + k]
        BY <1>5, <1>6, <2>2 DEF Joins
    <2>4. QED
        BY <2>2, <2>3
<1>11. r = SubSeq(gs, 1, i - 1) \o mid \o SubSeq(gs, i + 1, Len(gs))
    BY <1>2, <1>3, <1>6
<1>12. QED
    <2>1. Splices(r, gs, i, mid)
        BY <1>7, <1>8, <1>9, <1>10 DEF Splices
    <2>2. QED
        BY <1>6, <1>11, <2>1, Zenon

LEMMA GapTypes ==
    \A g \in Gap : g[1] \in Numbers /\ g[2] \in Numbers /\ Lo(g) \in 1 .. Len(Chain) + 1 /\ Hi(g) \in 1 .. Len(Chain) + 1
    BY RankOrder DEF Gap, Lo, Hi

LEMMA OneSequence ==
    ASSUME NEW S, NEW x \in S
    PROVE  \E s \in Seq(S) : s = <<x>> /\ Len(s) = 1 /\ s[1] = x
<1>1. <<x>> \in Seq(S) /\ Len(<<x>>) = 1 /\ <<x>>[1] = x
    OBVIOUS
<1>2. QED
    BY <1>1, Zenon

LEMMA PairSequence ==
    ASSUME NEW S, NEW x \in S, NEW y \in S
    PROVE  \E s \in Seq(S) : s = <<x>> \o <<y>> /\ Len(s) = 2 /\ s[1] = x /\ s[2] = y
<1>2. PICK a \in Seq(S) : a = <<x>> /\ Len(a) = 1 /\ a[1] = x
    BY OneSequence, Zenon
<1>3. PICK b \in Seq(S) : b = <<y>> /\ Len(b) = 1 /\ b[1] = y
    BY OneSequence, Zenon
<1>4. PICK s : s = a \o b
    OBVIOUS
<1>5. /\ s \in Seq(S) /\ Len(s) = Len(a) + Len(b)
      /\ \A k \in 1 .. Len(a) + Len(b) : s[k] = IF k <= Len(a) THEN a[k] ELSE b[k - Len(a)]
    BY <1>4, ConcatProperties, Zenon
<1>6. Len(s) = 2 /\ s[1] = x /\ s[2] = y
    BY <1>2, <1>3, <1>5
<1>7. s = <<x>> \o <<y>>
    BY <1>2, <1>3, <1>4
<1>8. QED
    BY <1>5, <1>6, <1>7, Zenon

\* What is left of gap g when message m in it is seen: everything but m, in order, with its open end.
Leaves(mid, g, m) ==
    /\ Len(mid) \in 0 .. 2
    /\ \A j \in 1 .. Len(mid) : Lo(g) <= Lo(mid[j]) /\ Hi(mid[j]) <= Hi(g) /\ ~In(m, mid[j])
    /\ \A j, k \in 1 .. Len(mid) : j < k => Hi(mid[j]) <= Lo(mid[k])
    /\ \A k \in Msg : In(k, g) /\ k # m => \E j \in 1 .. Len(mid) : In(k, mid[j])
    /\ Hi(g) = Len(Chain) + 1 => Len(mid) > 0 /\ Hi(mid[Len(mid)]) = Len(Chain) + 1

LEMMA GapLeftMeans ==
    ASSUME NEW g \in Gap, NEW m \in Msg, m > 1, Lo(g) <= m - 1, m <= Hi(g)
    PROVE  \E mid \in Seq(Gap) : mid = GapLeft(g, Chain[m - 1], Chain[m]) /\ Leaves(mid, g, m)
<1>1. Len(Chain) \in Nat /\ m \in Nat /\ m - 1 \in Msg /\ Msg = 1 .. Len(Chain)
    BY ChainFacts
<1>2. PICK prev \in Numbers : prev = Chain[m - 1] /\ Rank(prev) = m - 1
    BY <1>1, RankOrder
<1>3. PICK num \in Numbers : num = Chain[m] /\ Rank(num) = m
    BY RankOrder
<1>4. PICK x \in Gap : x = <<g[1], prev>> /\ Lo(x) = Lo(g) /\ Hi(x) = m - 1
    <2>1. <<g[1], prev>> \in Gap
        BY <1>2, GapTypes DEF Gap
    <2>2. QED
        BY <1>2, <2>1 DEF Lo, Hi
<1>5. PICK y \in Gap : y = <<num, g[2]>> /\ Lo(y) = m /\ Hi(y) = Hi(g)
    <2>1. <<num, g[2]>> \in Gap
        BY <1>3, GapTypes DEF Gap
    <2>2. QED
        BY <1>3, <2>1 DEF Lo, Hi
<1>6. /\ prev = g[1] <=> Lo(g) = m - 1
      /\ num = g[2] <=> Hi(g) = m
    BY <1>2, <1>3, GapTypes, RankOrder DEF Lo, Hi
<1>7. Lo(g) \in Nat /\ Hi(g) \in Nat
    BY <1>1, GapTypes
<1>8. GapLeft(g, Chain[m - 1], Chain[m]) = (IF prev = g[1] THEN <<>> ELSE <<x>>) \o (IF num = g[2] THEN <<>> ELSE <<y>>)
    BY <1>2, <1>3, <1>4, <1>5 DEF GapLeft
<1>9. CASE prev = g[1] /\ num = g[2]
    <2>1. PICK mid \in Seq(Gap) : mid = <<>> /\ Len(mid) = 0
        <3>1. <<>> \in Seq(Gap) /\ Len(<<>>) = 0
            OBVIOUS
        <3>2. QED
            BY <3>1, Zenon
    <2>2. GapLeft(g, Chain[m - 1], Chain[m]) = mid
        BY <1>8, <1>9, <2>1
    <2>3. Leaves(mid, g, m)
        BY <1>1, <1>6, <1>7, <1>9, <2>1 DEF Leaves, In
    <2>4. QED
        BY <2>2, <2>3
<1>10. CASE prev = g[1] /\ num # g[2]
    <2>1. PICK mid \in Seq(Gap) : mid = <<y>> /\ Len(mid) = 1 /\ mid[1] = y
        BY OneSequence, Zenon
    <2>2. GapLeft(g, Chain[m - 1], Chain[m]) = mid
        BY <1>8, <1>10, <2>1
    <2>3. Leaves(mid, g, m)
        BY <1>1, <1>5, <1>6, <1>7, <1>10, <2>1 DEF Leaves, In
    <2>4. QED
        BY <2>2, <2>3
<1>11. CASE prev # g[1] /\ num = g[2]
    <2>1. PICK mid \in Seq(Gap) : mid = <<x>> /\ Len(mid) = 1 /\ mid[1] = x
        BY OneSequence, Zenon
    <2>2. GapLeft(g, Chain[m - 1], Chain[m]) = mid
        BY <1>8, <1>11, <2>1
    <2>3. Leaves(mid, g, m)
        BY <1>1, <1>4, <1>6, <1>7, <1>11, <2>1 DEF Leaves, In
    <2>4. QED
        BY <2>2, <2>3
<1>12. CASE prev # g[1] /\ num # g[2]
    <2>1. PICK mid \in Seq(Gap) : mid = <<x>> \o <<y>> /\ Len(mid) = 2 /\ mid[1] = x /\ mid[2] = y
        BY PairSequence, Zenon
    <2>2. GapLeft(g, Chain[m - 1], Chain[m]) = mid
        BY <1>8, <1>12, <2>1
    <2>3. Leaves(mid, g, m)
        <3>1. Len(mid) = 2 /\ Lo(mid[1]) = Lo(g) /\ Hi(mid[1]) = m - 1 /\ Lo(mid[2]) = m /\ Hi(mid[2]) = Hi(g)
            BY <1>4, <1>5, <2>1
        <3>2. \A k \in Msg : In(k, g) /\ k # m => In(k, mid[1]) \/ In(k, mid[2])
            BY <1>1, <1>7, <3>1 DEF In
        <3>3. ~In(m, mid[1]) /\ ~In(m, mid[2])
            BY <1>1, <1>7, <3>1 DEF In
        <3>4. QED
            BY <1>1, <1>7, <3>1, <3>2, <3>3 DEF Leaves
    <2>4. QED
        BY <2>2, <2>3
<1>13. QED
    BY <1>9, <1>10, <1>11, <1>12

LEMMA SplicedOK ==
    ASSUME NEW gs \in Seq(Gap), GapsOK(gs), NEW i \in 1 .. Len(gs), NEW m \in Msg, NEW mid \in Seq(Gap), Leaves(mid, gs[i], m),
           NEW r \in Seq(Gap), Splices(r, gs, i, mid), \A j \in 1 .. Len(gs) : j # i => ~In(m, gs[j])
    PROVE  /\ GapsOK(r) /\ ~InGap(m, r)
           /\ \A k \in Msg : k # m => (InGap(k, r) <=> InGap(k, gs))
<1>1. /\ Len(gs) \in Nat /\ Len(mid) \in Nat /\ Len(r) = Len(gs) - 1 + Len(mid) /\ Len(Chain) \in Nat /\ Msg \subseteq Nat
      /\ \A j \in 1 .. Len(gs) : gs[j] \in Gap /\ Lo(gs[j]) \in Nat /\ Hi(gs[j]) \in Nat
      /\ \A j \in 1 .. Len(mid) : mid[j] \in Gap /\ Lo(mid[j]) \in Nat /\ Hi(mid[j]) \in Nat
    <2>1. Len(Chain) \in Nat /\ Msg \subseteq Nat
        BY ChainFacts
    <2>2. \A g \in Gap : Lo(g) \in Nat /\ Hi(g) \in Nat
        BY <2>1, GapTypes
    <2>3. QED
        <3>1. (\A j \in 1 .. Len(gs) : gs[j] \in Gap) /\ (\A j \in 1 .. Len(mid) : mid[j] \in Gap) /\ Len(gs) \in Nat /\ Len(mid) \in Nat
            OBVIOUS
        <3>2. Len(r) = Len(gs) - 1 + Len(mid)
            BY DEF Splices
        <3>3. QED
            BY <2>1, <2>2, <3>1, <3>2
<1>2. ASSUME NEW j \in 1 .. Len(r)
      PROVE  \/ j < i /\ r[j] = gs[j]
             \/ \E l \in 1 .. Len(mid) : j = i - 1 + l /\ r[j] = mid[l]
             \/ \E l \in i + 1 .. Len(gs) : j = l - 1 + Len(mid) /\ r[j] = gs[l]
    <2>1. CASE j < i
        BY <2>1 DEF Splices
    <2>2. CASE j >= i /\ j < i + Len(mid)
        <3>1. PICK l \in 1 .. Len(mid) : j = i - 1 + l
            <4>1. j - i + 1 \in 1 .. Len(mid) /\ j = i - 1 + (j - i + 1)
                BY <1>1, <2>2
            <4>2. QED
                BY <4>1
        <3>2. QED
            BY <3>1 DEF Splices
    <2>3. CASE j >= i + Len(mid)
        <3>1. PICK l \in i + 1 .. Len(gs) : j = l - 1 + Len(mid)
            <4>1. j + 1 - Len(mid) \in i + 1 .. Len(gs) /\ j = (j + 1 - Len(mid)) - 1 + Len(mid)
                BY <1>1, <2>3
            <4>2. QED
                BY <4>1
        <3>2. QED
            BY <3>1 DEF Splices
    <2>4. QED
        BY <1>1, <2>1, <2>2, <2>3
<1>3. \A j, k \in 1 .. Len(gs) : j < k => Hi(gs[j]) <= Lo(gs[k])
    BY DEF GapsOK
<1>4. \A l \in 1 .. Len(mid) : Lo(gs[i]) <= Lo(mid[l]) /\ Hi(mid[l]) <= Hi(gs[i]) /\ ~In(m, mid[l])
    BY DEF Leaves
<1>5. ASSUME NEW j \in 1 .. Len(r), NEW k \in 1 .. Len(r), j < k PROVE Hi(r[j]) <= Lo(r[k])
    <2> DEFINE First(n) == n < i /\ r[n] = gs[n]
               Middle(n) == \E l \in 1 .. Len(mid) : n = i - 1 + l /\ r[n] = mid[l]
               Last(n) == \E l \in i + 1 .. Len(gs) : n = l - 1 + Len(mid) /\ r[n] = gs[l]
    <2>1. (First(j) \/ Middle(j) \/ Last(j)) /\ (First(k) \/ Middle(k) \/ Last(k))
        BY <1>2
    <2>2. CASE First(j) /\ First(k)
        <3>1. j \in 1 .. Len(gs) /\ k \in 1 .. Len(gs)
            <4>1. j < i /\ k < i
                BY <2>2
            <4>2. QED
                BY <1>1, <4>1
        <3>2. QED
            BY <1>3, <1>5, <2>2, <3>1
    <2>3. CASE First(j) /\ Middle(k)
        <3>1. PICK l \in 1 .. Len(mid) : r[k] = mid[l]
            BY <2>3
        <3>2. j \in 1 .. Len(gs) /\ j < i /\ r[j] = gs[j]
            <4>1. j < i /\ r[j] = gs[j]
                BY <2>3
            <4>2. j \in 1 .. Len(gs)
                BY <1>1, <4>1
            <4>3. QED
                BY <4>1, <4>2
        <3>3. Hi(gs[j]) <= Lo(gs[i]) /\ Lo(gs[i]) <= Lo(mid[l])
            BY <1>3, <1>4, <3>2
        <3>4. QED
            BY <1>1, <3>1, <3>2, <3>3
    <2>4. CASE First(j) /\ Last(k)
        <3>1. PICK l \in i + 1 .. Len(gs) : r[k] = gs[l]
            BY <2>4
        <3>2. j \in 1 .. Len(gs) /\ j < l /\ r[j] = gs[j] /\ l \in 1 .. Len(gs)
            <4>1. j < i /\ r[j] = gs[j]
                BY <2>4
            <4>2. j \in 1 .. Len(gs) /\ j < l /\ l \in 1 .. Len(gs)
                BY <1>1, <4>1
            <4>3. QED
                BY <4>1, <4>2
        <3>3. Hi(gs[j]) <= Lo(gs[l])
            BY <1>3, <3>2
        <3>4. QED
            BY <3>1, <3>2, <3>3
    <2>5. CASE Middle(j)
        <3>1. PICK l \in 1 .. Len(mid) : j = i - 1 + l /\ r[j] = mid[l]
            BY <2>5
        <3>2. CASE Middle(k)
            <4>1. PICK n \in 1 .. Len(mid) : k = i - 1 + n /\ r[k] = mid[n]
                BY <3>2
            <4>2. l < n
                BY <1>1, <1>5, <3>1, <4>1
            <4>3. Hi(mid[l]) <= Lo(mid[n])
                BY <4>2 DEF Leaves
            <4>4. QED
                BY <3>1, <4>1, <4>3
        <3>3. CASE Last(k)
            <4>1. PICK n \in i + 1 .. Len(gs) : r[k] = gs[n]
                BY <3>3
            <4>2. n \in 1 .. Len(gs) /\ i < n
                BY <1>1
            <4>3. Hi(mid[l]) <= Hi(gs[i]) /\ Hi(gs[i]) <= Lo(gs[n])
                BY <1>3, <1>4, <4>2
            <4>4. QED
                BY <1>1, <3>1, <4>1, <4>2, <4>3
        <3>4. ~First(k)
            BY <1>1, <1>5, <3>1
        <3>5. QED
            BY <2>1, <3>2, <3>3, <3>4
    <2>6. CASE Last(j)
        <3>1. PICK l \in i + 1 .. Len(gs) : j = l - 1 + Len(mid) /\ r[j] = gs[l]
            BY <2>6
        <3>2. k >= i + Len(mid)
            BY <1>1, <1>5, <3>1
        <3>3. ~First(k) /\ ~Middle(k)
            BY <1>1, <3>2
        <3>4. PICK n \in i + 1 .. Len(gs) : k = n - 1 + Len(mid) /\ r[k] = gs[n]
            BY <2>1, <3>3
        <3>5. l < n
            BY <1>1, <1>5, <3>1, <3>4
        <3>6. Hi(gs[l]) <= Lo(gs[n])
            BY <1>1, <1>3, <3>5
        <3>7. QED
            BY <3>1, <3>4, <3>6
    <2>7. QED
        BY <2>1, <2>2, <2>3, <2>4, <2>5, <2>6
<1>6. Len(r) > 0 /\ Hi(r[Len(r)]) = Len(Chain) + 1
    <2>1. Hi(gs[Len(gs)]) = Len(Chain) + 1
        BY DEF GapsOK
    <2>2. CASE i < Len(gs)
        <3>1. Len(gs) \in i + 1 .. Len(gs) /\ Len(r) = Len(gs) - 1 + Len(mid) /\ Len(r) > 0
            BY <1>1, <2>2
        <3>2. QED
            BY <2>1, <3>1 DEF Splices
    <2>3. CASE i = Len(gs)
        <3>1. Len(mid) > 0 /\ Hi(mid[Len(mid)]) = Len(Chain) + 1
            BY <2>1, <2>3 DEF Leaves
        <3>2. Len(mid) \in 1 .. Len(mid) /\ Len(r) = i - 1 + Len(mid) /\ Len(r) > 0
            BY <1>1, <2>3, <3>1
        <3>3. QED
            BY <3>1, <3>2 DEF Splices
    <2>4. QED
        BY <1>1, <2>2, <2>3
<1>7. GapsOK(r)
    BY <1>5, <1>6 DEF GapsOK
<1>8. ~InGap(m, r)
    <2> SUFFICES ASSUME NEW j \in 1 .. Len(r) PROVE ~In(m, r[j])
        BY DEF InGap
    <2>1. CASE j < i /\ r[j] = gs[j]
        BY <1>1, <2>1
    <2>2. ASSUME NEW l \in 1 .. Len(mid), r[j] = mid[l] PROVE ~In(m, r[j])
        BY <1>4, <2>2
    <2>3. ASSUME NEW l \in i + 1 .. Len(gs), r[j] = gs[l] PROVE ~In(m, r[j])
        BY <1>1, <2>3
    <2>4. QED
        BY <1>2, <2>1, <2>2, <2>3
<1>9. ASSUME NEW k \in Msg, k # m, InGap(k, r) PROVE InGap(k, gs)
    <2>1. PICK j \in 1 .. Len(r) : In(k, r[j])
        BY <1>9 DEF InGap
    <2>2. ASSUME NEW l \in 1 .. Len(mid), r[j] = mid[l] PROVE In(k, gs[i])
        BY <1>1, <1>4, <2>1, <2>2 DEF In
    <2>3. CASE j < i /\ r[j] = gs[j]
        BY <1>1, <2>1, <2>3 DEF InGap
    <2>4. ASSUME NEW l \in i + 1 .. Len(gs), r[j] = gs[l] PROVE InGap(k, gs)
        <3>1. l \in 1 .. Len(gs)
            BY <1>1
        <3>2. QED
            BY <2>1, <2>4, <3>1 DEF InGap
    <2>5. QED
        BY <1>2, <2>2, <2>3, <2>4 DEF InGap
<1>10. ASSUME NEW k \in Msg, k # m, InGap(k, gs) PROVE InGap(k, r)
    <2>1. PICK j \in 1 .. Len(gs) : In(k, gs[j])
        BY <1>10 DEF InGap
    <2>2. CASE j < i
        <3>1. j \in 1 .. Len(r) /\ r[j] = gs[j]
            BY <1>1, <2>2 DEF Splices
        <3>2. QED
            BY <2>1, <3>1 DEF InGap
    <2>3. CASE j = i
        <3>1. PICK l \in 1 .. Len(mid) : In(k, mid[l])
            BY <1>10, <2>1, <2>3 DEF Leaves
        <3>2. i - 1 + l \in 1 .. Len(r) /\ r[i - 1 + l] = mid[l]
            BY <1>1 DEF Splices
        <3>3. QED
            BY <3>1, <3>2 DEF InGap
    <2>4. CASE j > i
        <3>1. j - 1 + Len(mid) \in 1 .. Len(r) /\ r[j - 1 + Len(mid)] = gs[j]
            BY <1>1, <2>4 DEF Splices
        <3>2. QED
            BY <2>1, <3>1 DEF InGap
    <2>5. QED
        BY <1>1, <2>2, <2>3, <2>4
<1>11. QED
    BY <1>7, <1>8, <1>9, <1>10

\* What markAndCheck() of message m does to the gaps.
MarkOK(a, m) ==
    /\ GapsOK(a.gaps) /\ ~InGap(m, a.gaps) /\ a.lost \subseteq Msg /\ a.verdict \in {"unseen", "duplicate"}
    /\ a.verdict = "unseen" => gaps = <<>> \/ InGap(m, gaps)
    /\ a.verdict # "unseen" => gaps # <<>> /\ a.gaps = gaps /\ a.lost = {}
    /\ \A k \in Msg : k # m =>
         /\ InGap(k, a.gaps) => IF gaps = <<>> THEN k > m ELSE InGap(k, gaps)
         /\ (IF gaps = <<>> THEN k > m ELSE InGap(k, gaps)) => InGap(k, a.gaps) \/ k \in a.lost

LEMMA GapsTyped ==
    ASSUME NEW gs, GapsOK(gs)
    PROVE  /\ Len(gs) \in Nat /\ Len(Chain) \in Nat /\ Len(gs) > 0 /\ gs # <<>> /\ DOMAIN gs = 1 .. Len(gs)
           /\ \A i \in 1 .. Len(gs) : /\ gs[i] \in Gap /\ gs[i][1] \in Numbers /\ gs[i][2] \in Numbers
                                      /\ Lo(gs[i]) \in Nat /\ Hi(gs[i]) \in Nat /\ Hi(gs[i]) <= Len(Chain) + 1
<1>1. gs \in Seq(Gap) /\ Len(gs) > 0
    BY DEF GapsOK
<1>2. Len(gs) \in Nat /\ DOMAIN gs = 1 .. Len(gs) /\ \A i \in 1 .. Len(gs) : gs[i] \in Gap
    BY <1>1
<1>3. gs # <<>>
    BY <1>1
<1>4. Len(Chain) \in Nat
    BY ChainFacts
<1>5. QED
    BY <1>1, <1>2, <1>3, <1>4, GapTypes

LEMMA DropLowest ==
    ASSUME NEW gs, GapsOK(gs)
    PROVE  /\ GapsOK(DropLowestGap(gs)) /\ Dropped(gs) \subseteq Msg
           /\ \A k \in Msg : /\ InGap(k, DropLowestGap(gs)) => InGap(k, gs)
                             /\ InGap(k, gs) => InGap(k, DropLowestGap(gs)) \/ k \in Dropped(gs)
<1>1. gs \in Seq(Gap) /\ Len(gs) \in Nat /\ MaxGapCount \in Nat /\ MaxGapCount >= 1
    BY ChainFacts DEF GapsOK
<1>2. CASE ~(Len(gs) > MaxGapCount)
    <2>1. DropLowestGap(gs) = gs /\ Dropped(gs) = {}
        BY <1>2 DEF DropLowestGap, Dropped
    <2>2. QED
        BY <2>1
<1>3. CASE Len(gs) > MaxGapCount
    <2>1. PICK t \in Seq(Gap) : t = Tail(gs) /\ Len(t) = Len(gs) - 1 /\ \A j \in 1 .. Len(gs) - 1 : t[j] = gs[j + 1]
        <3>1. gs # <<>>
            BY GapsTyped
        <3>2. PICK t : t = Tail(gs)
            OBVIOUS
        <3>3. t \in Seq(Gap) /\ Len(t) = Len(gs) - 1 /\ \A j \in 1 .. Len(gs) - 1 : t[j] = gs[j + 1]
            BY <1>1, <3>1, <3>2, HeadTailProperties
        <3>4. QED
            BY <3>2, <3>3
    <2>2. DropLowestGap(gs) = t
        BY <1>3, <2>1 DEF DropLowestGap
    <2>3. Dropped(gs) = {k \in Msg : GreaterThan(Chain[k], gs[1][1]) /\ GreaterThanOrEqual(gs[1][2], Chain[k])}
        BY <1>3 DEF Dropped
    <2>4. Len(t) \in Nat /\ Len(t) > 0 /\ t[Len(t)] = gs[Len(gs)] /\ 1 \in 1 .. Len(gs)
        BY <1>1, <1>3, <2>1
    <2>5. GapsOK(t)
        <3>1. \A i, j \in 1 .. Len(t) : i < j => Hi(t[i]) <= Lo(t[j])
            <4> SUFFICES ASSUME NEW i \in 1 .. Len(t), NEW j \in 1 .. Len(t), i < j PROVE Hi(t[i]) <= Lo(t[j])
                OBVIOUS
            <4>1. t[i] = gs[i + 1] /\ t[j] = gs[j + 1] /\ i + 1 \in 1 .. Len(gs) /\ j + 1 \in 1 .. Len(gs) /\ i + 1 < j + 1
                BY <1>1, <2>1
            <4>2. QED
                BY <4>1 DEF GapsOK
        <3>2. QED
            BY <2>1, <2>4, <3>1 DEF GapsOK
    <2>6. ASSUME NEW k \in Msg, InGap(k, t) PROVE InGap(k, gs)
        <3>1. PICK j \in 1 .. Len(t) : In(k, t[j])
            BY <2>6 DEF InGap
        <3>2. j + 1 \in 1 .. Len(gs) /\ t[j] = gs[j + 1]
            BY <1>1, <2>1
        <3>3. QED
            BY <3>1, <3>2 DEF InGap
    <2>7. ASSUME NEW k \in Msg, InGap(k, gs) PROVE InGap(k, t) \/ k \in Dropped(gs)
        <3>1. PICK j \in 1 .. Len(gs) : In(k, gs[j])
            BY <2>7 DEF InGap
        <3>2. CASE j = 1
            <4>1. gs[1][1] \in Numbers /\ gs[1][2] \in Numbers /\ Chain[k] \in Numbers /\ Rank(Chain[k]) = k
                BY <2>4, GapsTyped, RankOrder
            <4>2. Rank(Chain[k]) > Rank(gs[1][1]) /\ Rank(gs[1][2]) >= Rank(Chain[k])
                <5>1. Rank(gs[1][1]) < k /\ k <= Rank(gs[1][2]) /\ k \in Nat
                    BY <3>1, <3>2, ChainFacts DEF In, Lo, Hi
                <5>2. Rank(gs[1][1]) \in Nat /\ Rank(gs[1][2]) \in Nat
                    BY <4>1, RankOrder, ChainFacts
                <5>3. QED
                    BY <4>1, <5>1, <5>2
            <4>3. QED
                BY <2>3, <4>1, <4>2, RankOrder
        <3>3. CASE j # 1
            <4>1. j - 1 \in 1 .. Len(t) /\ t[j - 1] = gs[j]
                <5>1. j - 1 \in 1 .. Len(gs) - 1 /\ (j - 1) + 1 = j
                    BY <1>1, <3>3
                <5>2. QED
                    BY <2>1, <5>1
            <4>2. QED
                BY <3>1, <4>1 DEF InGap
        <3>4. QED
            BY <3>2, <3>3
    <2>8. QED
        BY <2>2, <2>3, <2>5, <2>6, <2>7
<1>4. QED
    BY <1>2, <1>3

LEMMA MarkAfterOK ==
    ASSUME GapsOK(gaps), NEW m \in Msg, m > 1
    PROVE  MarkOK(MarkAfter(Chain[m - 1], Chain[m]), m)
<1>1. Len(Chain) \in Nat /\ m \in Nat /\ m - 1 \in Msg /\ Msg = 1 .. Len(Chain) /\ m <= Len(Chain)
    BY ChainFacts
<1>2. PICK prev \in Numbers : prev = Chain[m - 1] /\ Rank(prev) = m - 1
    BY <1>1, RankOrder
<1>3. PICK num \in Numbers : num = Chain[m] /\ Rank(num) = m
    BY RankOrder
<1>4. ASSUME NEW i \in 1 .. Len(gaps)
      PROVE  /\ GreaterThanOrEqual(prev, gaps[i][1]) <=> Lo(gaps[i]) < m
             /\ GreaterThan(num, gaps[i][1]) <=> Lo(gaps[i]) < m
             /\ GreaterThanOrEqual(prev, gaps[i][2]) <=> Hi(gaps[i]) < m
             /\ GreaterThan(num, gaps[i][2]) <=> Hi(gaps[i]) < m
    <2>1. /\ gaps[i][1] \in Numbers /\ gaps[i][2] \in Numbers /\ Lo(gaps[i]) \in Nat /\ Hi(gaps[i]) \in Nat
        BY GapsTyped
    <2>2. /\ GreaterThanOrEqual(prev, gaps[i][1]) <=> m - 1 >= Lo(gaps[i])
          /\ GreaterThan(num, gaps[i][1]) <=> m > Lo(gaps[i])
          /\ GreaterThanOrEqual(prev, gaps[i][2]) <=> m - 1 >= Hi(gaps[i])
          /\ GreaterThan(num, gaps[i][2]) <=> m > Hi(gaps[i])
        BY <1>2, <1>3, <2>1, RankOrder DEF Lo, Hi
    <2>3. QED
        BY <1>1, <2>1, <2>2
<1>5. PICK stops : stops = {i \in 1 .. Len(gaps) : Lo(gaps[i]) < m}
    OBVIOUS
<1>6. stops = {i \in DOMAIN gaps : GreaterThanOrEqual(prev, gaps[i][1]) \/ GreaterThan(num, gaps[i][1])}
    BY <1>4, <1>5, GapsTyped
<1>7. PICK i : i = Max(stops)
    OBVIOUS
<1>8. PICK marked : marked = SubSeq(gaps, 1, i - 1) \o GapLeft(gaps[i], prev, num) \o SubSeq(gaps, i + 1, Len(gaps))
    OBVIOUS
<1>9. MarkAfter(prev, num) =
        IF stops = {} \/ GreaterThanOrEqual(prev, gaps[i][2])
        THEN [verdict |-> "duplicate", gaps |-> gaps, lost |-> {}]
        ELSE IF GreaterThanOrEqual(prev, gaps[i][1]) /\ ~GreaterThan(num, gaps[i][2])
             THEN [verdict |-> "unseen", gaps |-> DropLowestGap(marked), lost |-> Dropped(marked)]
             ELSE [verdict |-> "mismatch", gaps |-> gaps, lost |-> {}]
    BY <1>6, <1>7, <1>8 DEF MarkAfter
<1>10. gaps # <<>> /\ Len(gaps) \in Nat /\ \A j \in 1 .. Len(gaps) : Lo(gaps[j]) \in Nat /\ Hi(gaps[j]) \in Nat
    BY GapsTyped
<1>11. CASE stops = {}
    <2>1. ~InGap(m, gaps)
        BY <1>5, <1>11 DEF InGap, In
    <2>2. PICK a : a = MarkAfter(prev, num) /\ a.verdict = "duplicate" /\ a.gaps = gaps /\ a.lost = {}
        BY <1>9, <1>11
    <2>3. MarkOK(a, m)
        BY <1>10, <2>1, <2>2 DEF MarkOK
    <2>4. QED
        BY <1>2, <1>3, <2>2, <2>3
<1>12. CASE stops # {}
    <2>1. i \in 1 .. Len(gaps) /\ Lo(gaps[i]) < m /\ \A j \in 1 .. Len(gaps) : Lo(gaps[j]) < m => j <= i
        <3>1. stops \in SUBSET Nat /\ \A x \in stops : x <= Len(gaps)
            BY <1>5, <1>10
        <3>2. Max(stops) \in stops /\ \A y \in stops : y <= Max(stops)
            BY <1>10, <1>12, <3>1, GreatestNumber
        <3>3. QED
            BY <1>5, <1>7, <3>2
    <2>2. \A j \in 1 .. Len(gaps) : j # i => ~In(m, gaps[j])
        <3> SUFFICES ASSUME NEW j \in 1 .. Len(gaps), j # i, Lo(gaps[j]) < m PROVE ~(m <= Hi(gaps[j]))
            BY DEF In
        <3>1. j < i
            BY <1>10, <2>1
        <3>2. Hi(gaps[j]) <= Lo(gaps[i])
            BY <2>1, <3>1 DEF GapsOK
        <3>3. QED
            BY <1>1, <1>10, <2>1, <3>2
    <2>3. CASE Hi(gaps[i]) < m
        <3>1. ~InGap(m, gaps)
            BY <1>1, <1>10, <2>1, <2>2, <2>3 DEF InGap, In
        <3>2. PICK a : a = MarkAfter(prev, num) /\ a.verdict = "duplicate" /\ a.gaps = gaps /\ a.lost = {}
            <4>1. GreaterThanOrEqual(prev, gaps[i][2])
                BY <1>4, <2>1, <2>3
            <4>2. QED
                BY <1>9, <4>1
        <3>3. MarkOK(a, m)
            BY <1>10, <3>1, <3>2 DEF MarkOK
        <3>4. QED
            BY <1>2, <1>3, <3>2, <3>3
    <2>4. CASE m <= Hi(gaps[i])
        <3>1. PICK g \in Gap : g = gaps[i] /\ Lo(g) <= m - 1 /\ m <= Hi(g)
            BY <1>1, <1>10, <2>1, <2>4, GapsTyped
        <3>2. PICK mid \in Seq(Gap) : mid = GapLeft(g, Chain[m - 1], Chain[m]) /\ Leaves(mid, g, m)
            BY <1>1, <3>1, GapLeftMeans
        <3>3. gaps \in Seq(Gap)
            BY DEF GapsOK
        <3>4. PICK r \in Seq(Gap) : r = SubSeq(gaps, 1, i - 1) \o mid \o SubSeq(gaps, i + 1, Len(gaps)) /\ Splices(r, gaps, i, mid)
            BY <2>1, <3>3, Spliced, Zenon
        <3>5. marked = r
            BY <1>2, <1>3, <1>8, <3>1, <3>2, <3>4
        <3>6. /\ GapsOK(r) /\ ~InGap(m, r)
              /\ \A k \in Msg : k # m => (InGap(k, r) <=> InGap(k, gaps))
            <4>1. Leaves(mid, gaps[i], m)
                BY <3>1, <3>2
            <4>2. Splices(r, gaps, i, mid)
                BY <3>4
            <4>3. QED
                BY <2>1, <2>2, <3>3, <4>1, <4>2, SplicedOK
        <3>7. PICK a : a = MarkAfter(prev, num) /\ a.verdict = "unseen" /\ a.gaps = DropLowestGap(r) /\ a.lost = Dropped(r)
            <4>1. /\ ~GreaterThanOrEqual(prev, gaps[i][2]) /\ GreaterThanOrEqual(prev, gaps[i][1]) /\ ~GreaterThan(num, gaps[i][2])
                BY <1>1, <1>4, <1>10, <2>1, <2>4
            <4>2. QED
                BY <1>9, <1>12, <3>5, <4>1
        <3>8. InGap(m, gaps)
            BY <2>1, <2>4 DEF InGap, In
        <3>9. MarkOK(a, m)
            BY <1>10, <3>6, <3>7, <3>8, DropLowest DEF MarkOK
        <3>10. QED
            BY <1>2, <1>3, <3>7, <3>9
    <2>5. QED
        BY <1>1, <1>10, <2>1, <2>3, <2>4
<1>13. QED
    BY <1>11, <1>12

LEMMA MarkMeans ==
    ASSUME gaps # <<>> => GapsOK(gaps), NEW m \in Msg
    PROVE  MarkOK(MarkAndCheck(m), m)
<1>1. Len(Chain) \in Nat /\ Msg = 1 .. Len(Chain)
    BY ChainFacts
<1>2. CASE gaps = <<>>
    <2>1. PICK g \in Gap : g = <<Chain[m], Infinity>> /\ Lo(g) = m /\ Hi(g) = Len(Chain) + 1
        <3>1. <<Chain[m], Infinity>> \in Gap
            BY RankOrder DEF Gap
        <3>2. QED
            BY <3>1, RankOrder DEF Lo, Hi
    <2>2. PICK s \in Seq(Gap) : s = <<g>> /\ Len(s) = 1 /\ s[1] = g
        BY OneSequence, Zenon
    <2>3. PICK a : a = MarkAndCheck(m) /\ a.verdict = "unseen" /\ a.gaps = s /\ a.lost = {}
        <3>1. MarkAndCheck(m) = [verdict |-> "unseen", gaps |-> <<<<Chain[m], Infinity>>>>, lost |-> {}]
            BY <1>2 DEF MarkAndCheck
        <3>2. s = <<<<Chain[m], Infinity>>>>
            BY <2>1, <2>2
        <3>3. MarkAndCheck(m) = [verdict |-> "unseen", gaps |-> s, lost |-> {}]
            BY <3>1, <3>2
        <3>4. QED
            BY <3>3
    <2>4. /\ GapsOK(s)
          /\ \A k \in Msg : InGap(k, s) <=> k > m
        <3>1. Len(s) = 1 /\ Lo(s[1]) = m /\ Hi(s[1]) = Len(Chain) + 1
            BY <2>1, <2>2
        <3>2. QED
            BY <1>1, <3>1 DEF GapsOK, InGap, In
    <2>5. MarkOK(a, m)
        BY <1>1, <1>2, <2>3, <2>4 DEF MarkOK
    <2>6. QED
        BY <2>3, <2>5
<1>3. CASE gaps # <<>> /\ m > 1
    <2>1. MarkAndCheck(m) = MarkAfter(Chain[m - 1], Chain[m])
        BY <1>1, <1>3 DEF MarkAndCheck
    <2>2. QED
        BY <1>3, <2>1, MarkAfterOK
<1>4. CASE gaps # <<>> /\ m = 1
    <2>1. PICK last \in 1 .. Len(gaps) : last = Len(gaps)
        BY <1>4, GapsTyped
    <2>2. gaps[last][1] \in Numbers /\ Chain[1] \in Numbers /\ Rank(Chain[1]) = 1 /\ Rank(gaps[last][1]) >= 1
        BY <1>1, <1>4, <2>1, GapsTyped, RankOrder
    <2>3. ~GreaterThan(Chain[1], gaps[last][1])
        <3>1. Rank(gaps[last][1]) \in 1 .. Len(Chain) + 1
            BY <2>2, RankOrder
        <3>2. ~(Rank(Chain[1]) > Rank(gaps[last][1]))
            BY <1>1, <2>2, <3>1
        <3>3. QED
            BY <2>2, <3>2, RankOrder
    <2>4. PICK a : a = MarkAndCheck(m) /\ a.verdict = "duplicate" /\ a.gaps = gaps /\ a.lost = {}
        <3>1. MarkAndCheck(m) = MarkAlone(Chain[1])
            BY <1>4 DEF MarkAndCheck
        <3>2. MarkAlone(Chain[1]) = [verdict |-> "duplicate", gaps |-> gaps, lost |-> {}]
            BY <2>1, <2>3 DEF MarkAlone
        <3>3. QED
            BY <3>1, <3>2
    <2>5. ~InGap(m, gaps)
        <3>1. \A i \in 1 .. Len(gaps) : Lo(gaps[i]) >= 1 /\ Lo(gaps[i]) \in Nat
            BY <1>1, <1>4, GapsTyped, GapTypes
        <3>2. QED
            BY <1>4, <3>1 DEF InGap, In
    <2>6. MarkOK(a, m)
        BY <1>4, <2>4, <2>5 DEF MarkOK
    <2>7. QED
        BY <2>4, <2>6
<1>5. QED
    BY <1>1, <1>2, <1>3, <1>4

LEMMA MarkKeeps ==
    ASSUME DeliveryInv, NEW m \in Msg, Mark(m), emitted' = [emitted EXCEPT ![m] = @ + 1], emitted[m] = 0,
           heard' = heard \/ \E p \in Peer : heard' = heard \cup {<<m, p>>}
    PROVE  DetectorOK(gaps', emitted', oldest', forgotten', heard')
<1>1. /\ emitted \in [Msg -> Nat] /\ DetectorOK(gaps, emitted, oldest, forgotten, heard)
      /\ Msg = 1 .. Len(Chain) /\ Len(Chain) \in Nat
    BY ChainFacts DEF DeliveryInv, DeliveryTypes
<1>2. PICK a : a = MarkAndCheck(m)
    OBVIOUS
<1>3. MarkOK(a, m)
    BY <1>1, <1>2, MarkMeans DEF DetectorOK
<1>4. gaps' = a.gaps /\ forgotten' = forgotten \cup a.lost /\ oldest' = IF oldest = 0 THEN m ELSE oldest
    BY <1>2 DEF Mark
<1>5. GapsOK(gaps') /\ gaps' # <<>>
    BY <1>3, <1>4, GapsTyped DEF MarkOK
<1>6. oldest' \in Msg /\ (gaps # <<>> => oldest' = oldest) /\ (gaps = <<>> => oldest' = m)
    BY <1>1, <1>4 DEF DetectorOK
<1>7. emitted'[m] = 1 /\ \A k \in Msg : k # m => emitted'[k] = emitted[k]
    BY <1>1
<1>8. \A k \in Msg : k # m => ((\E p \in Peer : <<k, p>> \in heard') <=> (\E p \in Peer : <<k, p>> \in heard))
    <2>1. ASSUME NEW k \in Msg, k # m, NEW p \in Peer PROVE <<k, p>> \in heard' <=> <<k, p>> \in heard
        <3>1. \A q \in Peer : <<k, p>> # <<m, q>>
            BY <2>1
        <3>2. ASSUME NEW q \in Peer, heard' = heard \cup {<<m, q>>} PROVE <<k, p>> \in heard' <=> <<k, p>> \in heard
            BY <3>1, <3>2
        <3>3. QED
            BY <3>2
    <2>2. QED
        BY <2>1
<1>9. ASSUME NEW k \in Msg
      PROVE  /\ emitted'[k] <= 1
             /\ emitted'[k] > 0 \/ (\E p \in Peer : <<k, p>> \in heard') => ~InGap(k, gaps')
             /\ emitted'[k] = 0 => InGap(k, gaps') \/ k < oldest' \/ k \in forgotten'
    <2>1. CASE k = m
        BY <1>3, <1>4, <1>7, <2>1 DEF MarkOK
    <2>2. CASE k # m /\ gaps = <<>>
        <3>1. emitted'[k] = 0 /\ ~(\E p \in Peer : <<k, p>> \in heard')
            BY <1>1, <1>7, <1>8, <2>2 DEF DetectorOK
        <3>2. k > m => InGap(k, gaps') \/ k \in forgotten'
            BY <1>3, <1>4, <2>2 DEF MarkOK
        <3>3. k < m => k < oldest'
            BY <1>6, <2>2
        <3>4. k < m \/ k > m
            BY <1>1, <2>2
        <3>5. QED
            BY <3>1, <3>2, <3>3, <3>4
    <2>3. CASE k # m /\ gaps # <<>>
        <3>1. /\ InGap(k, gaps') => InGap(k, gaps)
              /\ InGap(k, gaps) => InGap(k, gaps') \/ k \in forgotten'
            BY <1>3, <1>4, <2>3 DEF MarkOK
        <3>2. /\ emitted[k] <= 1
              /\ emitted[k] > 0 \/ (\E p \in Peer : <<k, p>> \in heard) => ~InGap(k, gaps)
              /\ emitted[k] = 0 => InGap(k, gaps) \/ k < oldest \/ k \in forgotten
            BY <1>1, <2>3 DEF DetectorOK
        <3>3. oldest' = oldest /\ (k \in forgotten => k \in forgotten')
            BY <1>4, <1>6, <2>3
        <3>4. QED
            BY <1>7, <1>8, <2>3, <3>1, <3>2, <3>3
    <2>4. QED
        BY <2>1, <2>2, <2>3
<1>10. QED
    BY <1>5, <1>6, <1>9 DEF DetectorOK

LEMMA EnoughTargets ==
    ASSUME NEW reached \in SUBSET Peer, NEW h \in SUBSET reached
    PROVE  /\ Cardinality(h) \in Nat
           /\ ~(Cardinality(h) < MinPropagationTargets) => Cardinality(reached) >= MinPropagationTargets
<1>1. IsFiniteSet(reached) /\ IsFiniteSet(h)
    BY ChainFacts, FS_Subset
<1>2. Cardinality(h) \in Nat /\ Cardinality(reached) \in Nat /\ Cardinality(h) <= Cardinality(reached)
    BY <1>1, FS_Subset, FS_CardinalityType
<1>3. MinPropagationTargets \in Nat
    BY ChainFacts
<1>4. QED
    BY <1>2, <1>3

LEMMA TaskFields ==
    \A t \in DeliveryTask : /\ t.msg \in Msg /\ t.source \in Peer \cup {Nowhere} /\ t.handled \in SUBSET Peer
                            /\ t.stale \in BOOLEAN /\ t.at \in Nat
    BY DEF DeliveryTask

\* A message spreads as SpreadsToNeighbors says.
Spread(m, ts, reached, near) ==
    \/ Cardinality(reached) >= MinPropagationTargets
    \/ \E t \in ts : t.msg = m /\ near \ {t.source} \subseteq reached

\* A task that is deleted has enough targets.
LEMMA KeptSpreads ==
    ASSUME NEW ts \in SUBSET DeliveryTask, NEW t \in ts, NEW reached \in SUBSET Peer, NEW near,
           t.handled \subseteq reached, near \ {t.source} \subseteq reached
    PROVE  Spread(t.msg, Kept(ts), reached, near)
<1>1. CASE t \in Kept(ts)
    BY <1>1 DEF Spread
<1>2. CASE t \notin Kept(ts)
    <2>1. ~(Cardinality(t.handled) < MinPropagationTargets)
        BY <1>2 DEF Kept
    <2>2. QED
        BY <2>1, EnoughTargets DEF Spread
<1>3. QED
    BY <1>1, <1>2

LEMMA FeedKeeps ==
    ASSUME DeliveryInv, NEW m \in Msg, NEW source \in Peer \cup {Nowhere}, FeedUnseenMessage(m, source),
           emitted' = [emitted EXCEPT ![m] = @ + 1], ownNeighbors' = ownNeighbors
    PROVE  /\ sentTo' \in [Msg -> SUBSET Peer] /\ tasks' \in SUBSET DeliveryTask
           /\ \A t \in tasks' : TaskOK(t, sentTo', givenUp')
           /\ SpreadsToNeighbors'
<1>1. /\ emitted \in [Msg -> Nat] /\ sentTo \in [Msg -> SUBSET Peer] /\ tasks \in SUBSET DeliveryTask
      /\ ownNeighbors \in SUBSET Peer /\ temporary \in SUBSET Peer
    BY DEF DeliveryInv, DeliveryTypes
<1>2. PICK targets \in SUBSET Peer : targets = (ownNeighbors \cup temporary) \ {source}
    BY <1>1
<1>3. PICK at \in Nat : at = Cardinality({k \in Msg : emitted[k] > 0})
    <2>1. IsFiniteSet(Msg)
        BY ChainFacts, FS_Interval
    <2>2. IsFiniteSet({k \in Msg : emitted[k] > 0})
        BY <2>1, FS_Subset
    <2>3. QED
        BY <2>2, FS_CardinalityType
<1>4. PICK task : task = [msg |-> m, source |-> source, handled |-> targets, stale |-> FALSE, at |-> at]
    OBVIOUS
<1>5. task \in DeliveryTask /\ task.msg = m /\ task.source = source /\ task.handled = targets /\ task.stale = FALSE
    BY <1>4 DEF DeliveryTask
<1>6. PICK ts : ts = Stored(tasks, task)
    OBVIOUS
<1>7. tasks' = Kept(ts) /\ givenUp' = givenUp \cup PushedOut(tasks) /\ sentTo' = [sentTo EXCEPT ![m] = @ \cup targets]
    BY <1>2, <1>3, <1>4, <1>6 DEF FeedUnseenMessage
<1>8. /\ ts \subseteq tasks \cup {task} /\ task \in ts
      /\ \A t \in tasks : t \notin ts => t.msg \in givenUp'
    BY <1>6, <1>7 DEF Stored, PushedOut
<1>9. ts \in SUBSET DeliveryTask /\ tasks' \subseteq ts
    BY <1>1, <1>5, <1>7, <1>8 DEF Kept
<1>10. /\ sentTo' \in [Msg -> SUBSET Peer] /\ sentTo'[m] = sentTo[m] \cup targets
       /\ \A k \in Msg : sentTo[k] \subseteq sentTo'[k]
    BY <1>1, <1>2, <1>7
<1>11. ASSUME NEW t \in ts PROVE TaskOK(t, sentTo', givenUp')
    <2>1. CASE t = task
        BY <1>5, <1>10, <2>1 DEF TaskOK
    <2>2. CASE t # task
        <3>1. t \in tasks /\ t.msg \in Msg
            BY <1>1, <1>8, <2>2, TaskFields
        <3>2. TaskOK(t, sentTo, givenUp)
            BY <3>1 DEF DeliveryInv
        <3>3. QED
            BY <1>7, <1>10, <3>1, <3>2 DEF TaskOK
    <2>3. QED
        BY <2>1, <2>2
<1>12. ASSUME NEW k \in Msg, emitted'[k] > 0, k \notin givenUp' PROVE Spread(k, tasks', sentTo'[k], ownNeighbors)
    <2>1. sentTo'[k] \in SUBSET Peer
        BY <1>10
    <2>2. CASE k = m
        <3>1. task.handled \subseteq sentTo'[k] /\ ownNeighbors \ {task.source} \subseteq sentTo'[k]
            BY <1>2, <1>5, <1>10, <2>2
        <3>2. Spread(task.msg, Kept(ts), sentTo'[k], ownNeighbors)
            BY <1>8, <1>9, <2>1, <3>1, KeptSpreads
        <3>3. QED
            BY <1>5, <1>7, <2>2, <3>2
    <2>3. CASE k # m
        <3>1. emitted[k] > 0 /\ k \notin givenUp /\ sentTo[k] \in SUBSET Peer
            BY <1>1, <1>7, <1>12, <2>3
        <3>2. \/ Cardinality(sentTo[k]) >= MinPropagationTargets
              \/ \E t \in tasks : t.msg = k /\ ownNeighbors \ {t.source} \subseteq sentTo[k]
            BY <3>1 DEF DeliveryInv, SpreadsToNeighbors
        <3>3. sentTo'[k] = sentTo[k]
            BY <1>1, <1>7, <2>3
        <3>4. ASSUME NEW t \in tasks, t.msg = k, ownNeighbors \ {t.source} \subseteq sentTo[k] PROVE Spread(k, tasks', sentTo'[k], ownNeighbors)
            <4>1. t \in ts
                BY <1>8, <1>12, <3>4
            <4>2. t.handled \subseteq sentTo'[k]
                BY <1>11, <3>4, <4>1 DEF TaskOK
            <4>3. Spread(t.msg, Kept(ts), sentTo'[k], ownNeighbors)
                BY <1>9, <2>1, <3>3, <3>4, <4>1, <4>2, KeptSpreads
            <4>4. QED
                BY <1>7, <3>4, <4>3
        <3>5. QED
            BY <3>2, <3>3, <3>4 DEF Spread
    <2>4. QED
        BY <2>2, <2>3
<1>13. SpreadsToNeighbors'
    BY <1>12 DEF SpreadsToNeighbors, Spread
<1>14. QED
    BY <1>9, <1>10, <1>11, <1>13

LEMMA PublishKeeps ==
    ASSUME DeliveryInv, NEW m \in Msg, Publish(m)
    PROVE  DeliveryInv'
<1>1. /\ emitted[m] = 0 /\ Mark(m) /\ emitted' = [emitted EXCEPT ![m] = @ + 1] /\ FeedUnseenMessage(m, Nowhere)
      /\ heard' = heard /\ ownNeighbors' = ownNeighbors /\ temporary' = temporary
    BY DEF Publish, Broadcast
<1>2. DetectorOK(gaps', emitted', oldest', forgotten', heard')
    BY <1>1, MarkKeeps
<1>3. Nowhere \in Peer \cup {Nowhere}
    OBVIOUS
<1>4. /\ sentTo' \in [Msg -> SUBSET Peer] /\ tasks' \in SUBSET DeliveryTask
      /\ \A t \in tasks' : TaskOK(t, sentTo', givenUp')
      /\ SpreadsToNeighbors'
    BY <1>1, <1>3, FeedKeeps
<1>5. DeliveryTypes'
    <2>1. emitted \in [Msg -> Nat] /\ ownNeighbors \in SUBSET Peer /\ temporary \in SUBSET Peer
        BY DEF DeliveryInv, DeliveryTypes
    <2>2. emitted' \in [Msg -> Nat]
        BY <1>1, <2>1
    <2>3. QED
        BY <1>1, <1>4, <2>1, <2>2 DEF DeliveryTypes
<1>6. QED
    BY <1>2, <1>4, <1>5 DEF DeliveryInv

LEMMA ReceiveKeeps ==
    ASSUME DeliveryInv, NEW m \in Msg, NEW p \in Peer, ReceiveMessage(m, p)
    PROVE  DeliveryInv'
<1>1. /\ heard' = heard \cup {<<m, p>>} /\ ownNeighbors' = ownNeighbors /\ temporary' = temporary
    BY DEF ReceiveMessage
<1>2. PICK a : a = MarkAndCheck(m)
    OBVIOUS
<1>3. DetectorOK(gaps, emitted, oldest, forgotten, heard) /\ emitted \in [Msg -> Nat]
    BY DEF DeliveryInv, DeliveryTypes
<1>4. MarkOK(a, m)
    BY <1>2, <1>3, MarkMeans DEF DetectorOK
<1>5. CASE a.verdict = "unseen"
    <2>1. PICK source \in Peer \cup {Nowhere} : source = IF p \in temporary THEN Nowhere ELSE p
        OBVIOUS
    <2>2. Mark(m) /\ emitted' = [emitted EXCEPT ![m] = @ + 1] /\ FeedUnseenMessage(m, source)
        BY <1>2, <1>5, <2>1 DEF ReceiveMessage, Broadcast
    <2>3. emitted[m] = 0
        <3>1. gaps = <<>> \/ InGap(m, gaps)
            BY <1>4, <1>5 DEF MarkOK
        <3>2. emitted[m] = 0 \/ ~(emitted[m] > 0)
            BY <1>3, <3>1 DEF DetectorOK
        <3>3. QED
            BY <1>3, <3>2
    <2>4. DetectorOK(gaps', emitted', oldest', forgotten', heard')
        BY <1>1, <2>2, <2>3, MarkKeeps
    <2>5. /\ sentTo' \in [Msg -> SUBSET Peer] /\ tasks' \in SUBSET DeliveryTask
          /\ \A t \in tasks' : TaskOK(t, sentTo', givenUp')
          /\ SpreadsToNeighbors'
        BY <1>1, <2>2, FeedKeeps
    <2>6. DeliveryTypes'
        <3>1. emitted \in [Msg -> Nat] /\ ownNeighbors \in SUBSET Peer /\ temporary \in SUBSET Peer
            BY DEF DeliveryInv, DeliveryTypes
        <3>2. emitted' \in [Msg -> Nat]
            BY <2>2, <3>1
        <3>3. QED
            BY <1>1, <2>5, <3>1, <3>2 DEF DeliveryTypes
    <2>7. QED
        BY <2>4, <2>5, <2>6 DEF DeliveryInv
<1>6. CASE a.verdict # "unseen"
    <2>1. UNCHANGED <<gaps, forgotten, oldest, emitted, tasks, sentTo, givenUp>>
        BY <1>2, <1>6 DEF ReceiveMessage
    <2>2. gaps # <<>> /\ ~InGap(m, gaps)
        BY <1>4, <1>6 DEF MarkOK
    <2>3. ASSUME NEW k \in Msg, k # m, NEW q \in Peer, <<k, q>> \in heard' PROVE <<k, q>> \in heard
        <3>1. <<k, q>> # <<m, p>>
            BY <2>3
        <3>2. QED
            BY <1>1, <2>3, <3>1
    <2>4. ASSUME NEW k \in Msg PROVE emitted[k] > 0 \/ (\E q \in Peer : <<k, q>> \in heard') => ~InGap(k, gaps)
        <3>1. CASE k = m
            BY <2>2, <3>1
        <3>2. CASE k # m
            BY <1>3, <2>3, <3>2 DEF DetectorOK
        <3>3. QED
            BY <3>1, <3>2
    <2>5. DetectorOK(gaps, emitted, oldest, forgotten, heard')
        BY <1>3, <2>2, <2>4 DEF DetectorOK
    <2>6. DetectorOK(gaps', emitted', oldest', forgotten', heard')
        BY <2>1, <2>5
    <2>7. DeliveryTypes' /\ SpreadsToNeighbors' /\ \A t \in tasks' : TaskOK(t, sentTo', givenUp')
        BY <1>1, <2>1 DEF DeliveryInv, DeliveryTypes, SpreadsToNeighbors, TaskOK
    <2>8. QED
        BY <2>6, <2>7 DEF DeliveryInv
<1>7. QED
    BY <1>5, <1>6

LEMMA SentTooMeans ==
    ASSUME NEW t \in DeliveryTask, NEW p \in Peer
    PROVE  /\ SentToo(t, p) \in DeliveryTask /\ SentToo(t, p).msg = t.msg /\ SentToo(t, p).source = t.source
           /\ SentToo(t, p).stale = t.stale
           /\ SentToo(t, p).handled = IF p # t.source THEN t.handled \cup {p} ELSE t.handled
<1>1. CASE p = t.source
    BY <1>1 DEF SentToo
<1>2. CASE p # t.source
    <2>1. PICK u : u = [t EXCEPT !.handled = @ \cup {p}]
        OBVIOUS
    <2>2. u \in DeliveryTask /\ u.msg = t.msg /\ u.source = t.source /\ u.stale = t.stale /\ u.handled = t.handled \cup {p}
        BY <2>1 DEF DeliveryTask
    <2>3. SentToo(t, p) = u
        BY <1>2, <2>1 DEF SentToo
    <2>4. QED
        BY <1>2, <2>2, <2>3
<1>3. QED
    BY <1>1, <1>2

\* The steps that mark no message
LEMMA DetectorKeeps ==
    ASSUME DeliveryInv, UNCHANGED <<gaps, emitted, oldest, forgotten, heard>>
    PROVE  DetectorOK(gaps', emitted', oldest', forgotten', heard') /\ emitted' \in [Msg -> Nat]
<1>1. DetectorOK(gaps, emitted, oldest, forgotten, heard) /\ emitted \in [Msg -> Nat]
    BY DEF DeliveryInv, DeliveryTypes
<1>2. QED
    BY <1>1

LEMMA NeighborAddedKeeps ==
    ASSUME DeliveryInv, NEW p \in Peer, NeighborAdded(p)
    PROVE  DeliveryInv'
<1>1. /\ UNCHANGED <<gaps, emitted, oldest, forgotten, heard, givenUp, temporary>>
      /\ ownNeighbors' = ownNeighbors \cup {p} /\ OnNeighborJoined(p)
    BY DEF NeighborAdded, PeerChange
<1>2. /\ sentTo \in [Msg -> SUBSET Peer] /\ tasks \in SUBSET DeliveryTask
      /\ ownNeighbors \in SUBSET Peer /\ temporary \in SUBSET Peer
    BY DEF DeliveryInv, DeliveryTypes
<1>3. PICK alive \in SUBSET tasks : alive = {t \in tasks : ~t.stale}
    OBVIOUS
<1>4. PICK ts : ts = {SentToo(t, p) : t \in alive}
    OBVIOUS
<1>5. /\ tasks' = Kept(ts)
      /\ sentTo' = [m \in Msg |-> IF \E t \in alive : t.msg = m /\ p \notin t.handled \cup {t.source}
                                  THEN sentTo[m] \cup {p} ELSE sentTo[m]]
    BY <1>1, <1>3, <1>4 DEF OnNeighborJoined
<1>6. ts \in SUBSET DeliveryTask /\ tasks' \subseteq ts
    <2>1. ts \in SUBSET DeliveryTask
        <3>1. \A t \in alive : t \in DeliveryTask
            BY <1>2
        <3>2. \A t \in alive : SentToo(t, p) \in DeliveryTask
            BY <3>1, SentTooMeans
        <3>3. QED
            BY <1>4, <3>2
    <2>2. QED
        BY <1>5, <2>1 DEF Kept
<1>7. sentTo' \in [Msg -> SUBSET Peer] /\ \A k \in Msg : sentTo[k] \subseteq sentTo'[k]
    BY <1>2, <1>5
<1>8. ASSUME NEW t \in alive
      PROVE  /\ t \in DeliveryTask /\ t.msg \in Msg /\ t.handled \subseteq sentTo'[t.msg] /\ ~t.stale
             /\ p # t.source => p \in sentTo'[t.msg]
             /\ SentToo(t, p) \in ts /\ SentToo(t, p).handled \subseteq sentTo'[t.msg]
    <2>1. t \in tasks /\ ~t.stale /\ t \in DeliveryTask
        BY <1>2, <1>3
    <2>2. t.msg \in Msg /\ TaskOK(t, sentTo, givenUp)
        BY <2>1, TaskFields DEF DeliveryInv
    <2>3. t.handled \subseteq sentTo'[t.msg]
        BY <1>7, <2>2 DEF TaskOK
    <2>4. p # t.source => p \in sentTo'[t.msg]
        <3>1. CASE p \in t.handled
            BY <2>3, <3>1
        <3>2. CASE p \notin t.handled /\ p # t.source
            <4>1. \E u \in alive : u.msg = t.msg /\ p \notin u.handled \cup {u.source}
                BY <3>2
            <4>2. sentTo'[t.msg] = sentTo[t.msg] \cup {p}
                BY <1>5, <2>2, <4>1
            <4>3. QED
                BY <4>2
        <3>3. QED
            BY <3>1, <3>2
    <2>5. SentToo(t, p) \in ts
        BY <1>4
    <2>6. SentToo(t, p).handled \subseteq sentTo'[t.msg]
        BY <2>1, <2>3, <2>4, SentTooMeans
    <2>7. QED
        BY <2>1, <2>2, <2>3, <2>4, <2>5, <2>6
<1>9. ASSUME NEW u \in ts PROVE TaskOK(u, sentTo', givenUp')
    <2>1. PICK t \in alive : u = SentToo(t, p)
        BY <1>4
    <2>2. u.msg = t.msg /\ (u.stale <=> t.stale)
        BY <1>8, <2>1, SentTooMeans
    <2>3. QED
        BY <1>8, <2>1, <2>2 DEF TaskOK
<1>10. ASSUME NEW k \in Msg, emitted[k] > 0, k \notin givenUp PROVE Spread(k, tasks', sentTo'[k], ownNeighbors')
    <2>1. sentTo[k] \in SUBSET Peer /\ sentTo'[k] \in SUBSET Peer /\ sentTo[k] \subseteq sentTo'[k]
        BY <1>2, <1>7
    <2>2. CASE ~(Cardinality(sentTo[k]) < MinPropagationTargets)
        BY <2>1, <2>2, EnoughTargets DEF Spread
    <2>3. CASE Cardinality(sentTo[k]) < MinPropagationTargets
        <3>1. ~(Cardinality(sentTo[k]) >= MinPropagationTargets)
            <4>1. Cardinality(sentTo[k]) \in Nat /\ MinPropagationTargets \in Nat
                BY <2>1, EnoughTargets, ChainFacts
            <4>2. QED
                BY <2>3, <4>1
        <3>2. PICK t \in tasks : t.msg = k /\ ownNeighbors \ {t.source} \subseteq sentTo[k]
            BY <1>10, <3>1 DEF DeliveryInv, SpreadsToNeighbors
        <3>3. t \in alive
            <4>1. TaskOK(t, sentTo, givenUp)
                BY DEF DeliveryInv
            <4>2. QED
                BY <1>3, <1>10, <3>2, <4>1 DEF TaskOK
        <3>4. PICK u \in ts : u = SentToo(t, p)
            BY <1>8, <3>3
        <3>5. u.msg = k /\ u.source = t.source /\ u.handled \subseteq sentTo'[k]
            BY <1>8, <3>2, <3>3, <3>4, SentTooMeans
        <3>6. ownNeighbors' \ {u.source} \subseteq sentTo'[k]
            BY <1>1, <1>8, <2>1, <3>2, <3>3, <3>5
        <3>7. Spread(u.msg, Kept(ts), sentTo'[k], ownNeighbors')
            BY <1>6, <2>1, <3>5, <3>6, KeptSpreads
        <3>8. QED
            BY <1>5, <3>5, <3>7
    <2>4. QED
        BY <2>2, <2>3
<1>11. SpreadsToNeighbors'
    BY <1>1, <1>10 DEF SpreadsToNeighbors, Spread
<1>12. DetectorOK(gaps', emitted', oldest', forgotten', heard') /\ emitted' \in [Msg -> Nat]
    BY <1>1, DetectorKeeps
<1>13. DeliveryTypes'
    BY <1>1, <1>2, <1>6, <1>7, <1>12 DEF DeliveryTypes
<1>14. QED
    BY <1>6, <1>9, <1>11, <1>12, <1>13 DEF DeliveryInv

LEMMA PeersChangeKeeps ==
    ASSUME DeliveryInv, NEW p \in Peer, NeighborRemoved(p) \/ OpenConnection(p) \/ CloseConnection(p)
    PROVE  DeliveryInv'
<1>1. /\ UNCHANGED <<gaps, emitted, oldest, forgotten, heard, givenUp, tasks, sentTo>>
      /\ ownNeighbors' \subseteq ownNeighbors /\ temporary' \subseteq temporary \cup {p}
    BY DEF NeighborRemoved, OpenConnection, CloseConnection, PeerChange
<1>2. /\ sentTo \in [Msg -> SUBSET Peer] /\ tasks \in SUBSET DeliveryTask
      /\ ownNeighbors \in SUBSET Peer /\ temporary \in SUBSET Peer
    BY DEF DeliveryInv, DeliveryTypes
<1>3. DetectorOK(gaps', emitted', oldest', forgotten', heard') /\ emitted' \in [Msg -> Nat]
    BY <1>1, DetectorKeeps
<1>4. DeliveryTypes'
    BY <1>1, <1>2, <1>3 DEF DeliveryTypes
<1>5. \A t \in tasks' : TaskOK(t, sentTo', givenUp')
    BY <1>1 DEF DeliveryInv, TaskOK
<1>6. SpreadsToNeighbors'
    BY <1>1 DEF DeliveryInv, SpreadsToNeighbors
<1>7. QED
    BY <1>3, <1>4, <1>5, <1>6 DEF DeliveryInv

LEMMA TaskExpiresKeeps ==
    ASSUME DeliveryInv, NEW t \in tasks, TaskExpires(t)
    PROVE  DeliveryInv'
<1>1. PICK u : u = [t EXCEPT !.stale = TRUE]
    OBVIOUS
<1>2. /\ UNCHANGED <<gaps, emitted, oldest, forgotten, heard, sentTo, ownNeighbors, temporary>>
      /\ tasks' = (tasks \ {t}) \cup {u} /\ givenUp' = givenUp \cup {t.msg}
    BY <1>1 DEF TaskExpires
<1>3. /\ sentTo \in [Msg -> SUBSET Peer] /\ tasks \in SUBSET DeliveryTask
      /\ ownNeighbors \in SUBSET Peer /\ temporary \in SUBSET Peer
    BY DEF DeliveryInv, DeliveryTypes
<1>4. u \in DeliveryTask /\ u.msg = t.msg /\ u.handled = t.handled
    BY <1>1, <1>3 DEF DeliveryTask
<1>5. DetectorOK(gaps', emitted', oldest', forgotten', heard') /\ emitted' \in [Msg -> Nat]
    BY <1>2, DetectorKeeps
<1>6. DeliveryTypes'
    BY <1>2, <1>3, <1>4, <1>5 DEF DeliveryTypes
<1>7. ASSUME NEW s \in tasks' PROVE TaskOK(s, sentTo', givenUp')
    <2>1. TaskOK(t, sentTo, givenUp) /\ (s # u => s \in tasks /\ TaskOK(s, sentTo, givenUp))
        BY <1>2 DEF DeliveryInv
    <2>2. CASE s = u
        BY <1>2, <1>4, <2>1, <2>2 DEF TaskOK
    <2>3. CASE s # u
        BY <1>2, <2>1, <2>3 DEF TaskOK
    <2>4. QED
        BY <2>2, <2>3
<1>8. SpreadsToNeighbors'
    <2> SUFFICES ASSUME NEW k \in Msg, emitted'[k] > 0, k \notin givenUp'
                 PROVE  \/ Cardinality(sentTo'[k]) >= MinPropagationTargets
                        \/ \E s \in tasks' : s.msg = k /\ ownNeighbors' \ {s.source} \subseteq sentTo'[k]
        BY DEF SpreadsToNeighbors
    <2>1. \/ Cardinality(sentTo[k]) >= MinPropagationTargets
          \/ \E s \in tasks : s.msg = k /\ ownNeighbors \ {s.source} \subseteq sentTo[k]
        BY <1>2 DEF DeliveryInv, SpreadsToNeighbors
    <2>2. k # t.msg
        BY <1>2
    <2>3. QED
        BY <1>2, <2>1, <2>2
<1>9. QED
    BY <1>5, <1>6, <1>7, <1>8 DEF DeliveryInv

LEMMA DeliveryInitially ==
    ASSUME DeliveryInit
    PROVE  DeliveryInv
<1>1. /\ gaps = <<>> /\ emitted = [m \in Msg |-> 0] /\ heard = {} /\ oldest = 0 /\ tasks = {} /\ sentTo = [m \in Msg |-> {}]
      /\ ownNeighbors = FirstNeighbors /\ temporary = {}
    BY DEF DeliveryInit
<1>2. DeliveryTypes
    BY <1>1, ChainFacts DEF DeliveryTypes
<1>3. Len(gaps) = 0
    BY <1>1
<1>4. \A m \in Msg : emitted[m] = 0 /\ ~InGap(m, gaps)
    BY <1>1, <1>3 DEF InGap
<1>5. DetectorOK(gaps, emitted, oldest, forgotten, heard)
    BY <1>1, <1>4 DEF DetectorOK
<1>6. SpreadsToNeighbors
    BY <1>4 DEF SpreadsToNeighbors
<1>7. QED
    BY <1>1, <1>2, <1>5, <1>6 DEF DeliveryInv

LEMMA DeliveryInductive ==
    DeliveryInv /\ [DeliveryNext]_deliveryVars => DeliveryInv'
<1> SUFFICES ASSUME DeliveryInv, [DeliveryNext]_deliveryVars PROVE DeliveryInv'
    OBVIOUS
<1>1. CASE UNCHANGED deliveryVars
    <2>1. UNCHANGED <<gaps, emitted, heard, oldest, forgotten, ownNeighbors, temporary, tasks, sentTo, givenUp>>
        BY <1>1 DEF deliveryVars
    <2>2. DetectorOK(gaps', emitted', oldest', forgotten', heard')
        BY <2>1, DetectorKeeps
    <2>3. DeliveryTypes' /\ SpreadsToNeighbors' /\ \A t \in tasks' : TaskOK(t, sentTo', givenUp')
        BY <2>1 DEF DeliveryInv, DeliveryTypes, SpreadsToNeighbors, TaskOK
    <2>4. QED
        BY <2>2, <2>3 DEF DeliveryInv
<1>2. QED
    BY <1>1, PublishKeeps, ReceiveKeeps, NeighborAddedKeeps, PeersChangeKeeps, TaskExpiresKeeps DEF DeliveryNext

\* The detector's intervals say what a set of all messages would, and propagation reaches the neighbours: for any
\* chain, order and copies of its messages, peers, number of gaps kept, size of the task store and targets.
THEOREM PassedOnOnceAlways ==
    DeliverySpec => []PassedOnOnce
<1>1. ASSUME DeliveryInv PROVE PassedOnOnce
    <2>1. ASSUME NEW m \in Msg
          PROVE  /\ emitted[m] <= 1
                 /\ (\E p \in Peer : <<m, p>> \in heard) /\ emitted[m] = 0 => m < oldest \/ m \in forgotten
        <3>1. DetectorOK(gaps, emitted, oldest, forgotten, heard)
            BY <1>1 DEF DeliveryInv
        <3>2. CASE gaps = <<>>
            BY <3>1, <3>2 DEF DetectorOK
        <3>3. CASE gaps # <<>>
            BY <3>1, <3>3 DEF DetectorOK
        <3>4. QED
            BY <3>2, <3>3
    <2>2. SpreadsToNeighbors
        BY <1>1 DEF DeliveryInv
    <2>3. QED
        BY <2>1, <2>2 DEF PassedOnOnce, EveryMessageOnce
<1>2. QED
    BY <1>1, DeliveryInitially, DeliveryInductive, PTL DEF DeliverySpec

-----------------------------------------------------------------------------
(* AutoCertifier: CertifierInv links the client's task, its timer and its  *)
(* certificate, the request the task waits for, and what the server has    *)
(* written for that request.                                               *)

CertifierTask ==
    [kind : {"none", "create", "renew", "ip"}, of : {"start", "timer"}, since : Nat, request : CertRequests \cup {Nobody}]
CertifierRequest ==
    [kind : {"none", "create", "renew", "ip"}, sub : CertRequests \cup {Nobody}, ip : Address \cup {Nobody},
     at : {"none", "challenge", "database", "deletion", "record", "again", "order", "verification", "done", "failed"},
     expires : Nat]

CertifierTypes ==
    /\ now \in Nat /\ now > 0 /\ asked \in Nat
    /\ process \in [at : {"down", "starting", "running", "failed"}, address : Address]
    /\ certTask \in CertifierTask /\ ongoingSessions \subseteq CertRequests
    /\ file \in [sub : CertRequests \cup {Nobody}, expires : Nat] /\ updateTimeout \in Nat
    /\ requests \in [CertRequests -> CertifierRequest]
    /\ db \in [CertRequests -> Address \cup {Nobody}] /\ zone \in [CertRequests -> Address \cup {Nobody}]
    /\ route53 \in BOOLEAN /\ cameBackEarly \in BOOLEAN

Up == process.at \in {"starting", "running"}

\* A node that is down does nothing, one that is up holds at most the session of its task, and only a node that
\* has a subdomain has a timer, or a task other than to get one.
TaskInv ==
    /\ process.at = "down" => certTask = NoCertTask /\ ongoingSessions = {} /\ updateTimeout = Nobody
    /\ Up => ongoingSessions \subseteq {certTask.request}
    /\ certTask.kind = "none" => certTask = NoCertTask
    /\ file.sub = Nobody => file = NoFile /\ updateTimeout = Nobody /\ certTask.kind \in {"none", "create"}

\* A task takes at most MaxRequestTime, the address is only renewed before the last day of the certificate, and a
\* running node has its timer set, or has begun its task, before the certificate expires.
TimeInv ==
    /\ certTask.kind # "none" => certTask.since <= now /\ now <= certTask.since + MaxRequestTime
    /\ certTask.kind = "ip" => certTask.since + OneDay < file.expires
    /\ process.at = "running" /\ certTask.kind = "none" => now <= updateTimeout /\ updateTimeout <= file.expires
    /\ process.at = "running" /\ certTask.kind # "none" => certTask.since <= file.expires

\* The request of the task is for the node, its subdomain and a certificate that is new.
Answers(r) ==
    /\ r.kind = certTask.kind /\ certTask.kind # "none" /\ r.ip = process.address
    /\ certTask.kind # "create" => r.sub = file.sub
    /\ r.at \notin {"none", "challenge", "database", "failed"} => r.sub # Nobody
    /\ r.at = "done" /\ certTask.kind # "ip" => certTask.since + Lifetime <= r.expires

\* What the server has written for a request, as far as it is with it.
Written(addresses, records, r) ==
    /\ r.at \in {"deletion", "record", "again", "order", "verification", "done"} => addresses[r.sub] = r.ip
    /\ route53 /\ r.at \in {"again", "order", "verification", "done"} => records[r.sub] = r.ip

RequestInv == certTask.request # Nobody => Answers(requests[certTask.request])

\* Unless the node came back early, the server serves the request of its task alone.
ServedAlone ==
    Up /\ ~cameBackEarly =>
      /\ \A q \in CertRequests : ConfirmedRequest(q) => q = certTask.request
      /\ certTask.request # Nobody => Written(db, zone, requests[certTask.request])

CertifierInv == CertifierTypes /\ TaskInv /\ TimeInv /\ RequestInv /\ ServedAlone /\ ResolvesToNode

LEMMA CertifierInitially == CertifierInit => CertifierInv
<1> SUFFICES ASSUME CertifierInit PROVE CertifierInv
    OBVIOUS
<1> USE AutoCertifierAssumption DEF CertifierInit, Nobody, NoCertTask, NoFile, NoRequest
<1>1. process.at = "down"
    OBVIOUS
<1>2. CertifierTypes
    <2>1. NoRequest \in CertifierRequest /\ NoCertTask \in CertifierTask
        BY DEF CertifierRequest, CertifierTask
    <2>2. process \in [at : {"down", "starting", "running", "failed"}, address : Address]
        OBVIOUS
    <2>3. /\ db \in [CertRequests -> Address \cup {Nobody}] /\ zone \in [CertRequests -> Address \cup {Nobody}]
          /\ file \in [sub : CertRequests \cup {Nobody}, expires : Nat]
        OBVIOUS
    <2>4. route53 \in BOOLEAN /\ cameBackEarly \in BOOLEAN
        BY Zenon
    <2> HIDE DEF NoRequest, NoCertTask
    <2>5. requests \in [CertRequests -> CertifierRequest] /\ certTask \in CertifierTask
        BY <2>1
    <2>6. now \in Nat /\ now > 0 /\ asked \in Nat /\ ongoingSessions \subseteq CertRequests /\ updateTimeout \in Nat
        OBVIOUS
    <2>7. QED
        BY <2>2, <2>3, <2>4, <2>5, <2>6, Zenon DEF CertifierTypes
<1>3. TaskInv /\ TimeInv
    BY <1>1 DEF TaskInv, TimeInv, Up
<1>4. RequestInv /\ ServedAlone /\ ResolvesToNode
    BY <1>1 DEF RequestInv, ServedAlone, ResolvesToNode, Up
<1>5. QED
    BY <1>2, <1>3, <1>4 DEF CertifierInv

\* A node that starts finds either nothing of its own at the server or is noted to have come back early.
LEMMA StartClientKeeps == ASSUME CertifierInv, NEW a \in Address, StartClient(a) PROVE CertifierInv'
<1> USE AutoCertifierAssumption DEF CertifierInv, StartClient, Nobody, NoCertTask, NoFile, serverVars
<1>1. /\ certTask'.kind = (IF file = NoFile THEN "create" ELSE DueKind)
      /\ certTask' \in CertifierTask /\ certTask'.since = now /\ certTask'.request = Nobody
    BY DEF Begin, DueKind, CertifierTask, CertifierTypes
<1>2. CertifierTypes'
    BY <1>1 DEF CertifierTypes
<1>3. TaskInv'
    BY <1>1 DEF TaskInv, DueKind, Up, CertifierTypes
<1>4. TimeInv'
    BY <1>1 DEF TimeInv, DueKind, CertifierTypes
<1>5. RequestInv' /\ ResolvesToNode'
    BY <1>1 DEF RequestInv, ResolvesToNode
<1>6. ServedAlone'
    BY <1>1 DEF ServedAlone, ConfirmedRequest, CertifierTypes
<1>7. QED
    BY <1>2, <1>3, <1>4, <1>5, <1>6

LEMMA SessionCreatedKeeps == ASSUME CertifierInv, SessionCreated PROVE CertifierInv'
<1> USE AutoCertifierAssumption DEF CertifierInv, SessionCreated, Nobody
<1> DEFINE r == [kind |-> certTask.kind, sub |-> file.sub, ip |-> process.address, at |-> "challenge", expires |-> 0]
<1>1. asked + 1 \in CertRequests /\ asked' = asked + 1 /\ asked + 1 # 0
    BY DEF CertRequests, CertifierTypes
<1>2. /\ certTask' \in CertifierTask /\ certTask'.request = asked + 1 /\ certTask'.kind = certTask.kind
      /\ certTask'.since = certTask.since
    BY <1>1 DEF CertifierTypes, CertifierTask
<1>3. r \in CertifierRequest
    BY DEF CertifierTypes, CertifierTask, CertifierRequest
<1>4. /\ requests' \in [CertRequests -> CertifierRequest] /\ requests'[asked + 1] = r
      /\ \A q \in CertRequests : q # asked + 1 => requests'[q] = requests[q]
    BY <1>1, <1>3 DEF CertifierTypes, RemoteAddress
<1>5. CertifierTypes'
    <2>1. ongoingSessions' \subseteq CertRequests
        BY <1>1 DEF CertifierTypes
    <2>2. asked' \in Nat
        BY <1>1 DEF CertifierTypes
    <2>3. QED
        BY <1>2, <1>4, <2>1, <2>2 DEF CertifierTypes
<1>6. TaskInv'
    <2>1. process.at # "down"
        BY DEF TaskInv, NoCertTask
    <2>2. Up => ongoingSessions = {}
        BY DEF TaskInv, CertifierTypes, CertRequests
    <2>3. QED
        BY <1>1, <1>2, <2>1, <2>2 DEF TaskInv, Up
<1>7. TimeInv'
    BY <1>2 DEF TimeInv
<1>8. RequestInv'
    BY <1>1, <1>2, <1>4 DEF RequestInv, Answers
<1>9. ServedAlone'
    <2>1. ASSUME NEW q \in CertRequests, ConfirmedRequest(q)', Up, ~cameBackEarly PROVE q = asked + 1
        BY <1>1, <1>4, <2>1 DEF ServedAlone, ConfirmedRequest, CertRequests
    <2>2. Written(db', zone', r)
        BY <1>4 DEF Written
    <2>3. QED
        BY <1>2, <1>4, <2>1, <2>2 DEF ServedAlone, Written, Up
<1>10. ResolvesToNode'
    BY <1>2 DEF ResolvesToNode, NoCertTask
<1>11. QED
    BY <1>5, <1>6, <1>7, <1>8, <1>9, <1>10

\* A timer is never set later than the certificate expires, once that is later than now.
LEMMA ScheduledBounds ==
    ASSUME CertifierTypes, NEW e \in Nat, now <= e
    PROVE  ScheduledAt(e) \in Nat /\ now <= ScheduledAt(e) /\ ScheduledAt(e) <= e
BY AutoCertifierAssumption DEF CertifierTypes, ScheduledAt

LEMMA TaskDoneKeeps == ASSUME CertifierInv, TaskDone PROVE CertifierInv'
<1> USE AutoCertifierAssumption DEF CertifierInv
<1> DEFINE r == requests[certTask.request]
<1>1. /\ certTask.kind # "none" /\ certTask.request \in CertRequests /\ certTask.request # Nobody /\ r.at = "done"
      /\ r \in CertifierRequest /\ certTask \in CertifierTask
    BY DEF TaskDone, CertifierTypes, CertifierTask, Nobody
<1>2. Answers(r) /\ r.sub \in CertRequests
    BY <1>1 DEF RequestInv, Answers, CertifierRequest
<1>3. /\ file'.sub = r.sub /\ file'.sub \in CertRequests /\ file'.expires \in Nat /\ now <= file'.expires
      /\ file' \in [sub : CertRequests \cup {Nobody}, expires : Nat]
    <2>1. CASE certTask.kind = "ip"
        <3>1. UNCHANGED file
            BY <2>1 DEF TaskDone
        <3>2. QED
            BY <1>2, <2>1, <3>1 DEF Answers, TimeInv, CertifierTypes, CertifierTask
    <2>2. CASE certTask.kind # "ip"
        <3>1. file' = [sub |-> r.sub, expires |-> r.expires]
            BY <2>2 DEF TaskDone
        <3>2. r.expires \in Nat /\ certTask.since + Lifetime <= r.expires /\ certTask.since \in Nat /\ now \in Nat
            BY <1>1, <1>2, <2>2 DEF Answers, CertifierRequest, CertifierTask, CertifierTypes
        <3>3. now <= r.expires
            BY <1>1, <3>2 DEF TimeInv
        <3>4. QED
            BY <1>2, <3>1, <3>2, <3>3
    <2>3. QED
        BY <2>1, <2>2
<1>4. updateTimeout' = ScheduledAt(file'.expires)
    BY DEF TaskDone, ScheduledAfter
<1>5. updateTimeout' \in Nat /\ now <= updateTimeout' /\ updateTimeout' <= file'.expires
    BY <1>3, <1>4, ScheduledBounds
<1>6. /\ certTask' = NoCertTask /\ ongoingSessions' = ongoingSessions \ {certTask.request}
      /\ UNCHANGED <<now, requests, db, zone, asked, route53, cameBackEarly>>
      /\ process' = [process EXCEPT !.at = IF process.at = "starting" THEN "running" ELSE process.at]
    BY DEF TaskDone, serverVars
<1>7. process'.address = process.address /\ process'.at # "starting" /\ (process'.at = "down" <=> process.at = "down")
      /\ (process'.at = "running" => process.at \in {"starting", "running"})
      /\ process' \in [at : {"down", "starting", "running", "failed"}, address : Address]
    BY <1>6 DEF CertifierTypes
<1>8. CertifierTypes'
    BY <1>3, <1>5, <1>6, <1>7 DEF CertifierTypes, CertifierTask, NoCertTask, Nobody
<1>9. TaskInv'
    <2>1. process'.at # "down"
        BY <1>1, <1>7 DEF TaskInv, NoCertTask
    <2>2. Up' => ongoingSessions' = {}
        BY <1>6, <1>7 DEF TaskInv, Up
    <2>3. file'.sub # Nobody
        BY <1>3 DEF CertRequests, Nobody
    <2>4. QED
        BY <1>6, <2>1, <2>2, <2>3 DEF TaskInv
<1>10. TimeInv'
    BY <1>5, <1>6 DEF TimeInv, NoCertTask
<1>11. RequestInv'
    BY <1>6 DEF RequestInv, NoCertTask
<1>12. ServedAlone'
    BY <1>1, <1>6, <1>7 DEF ServedAlone, Up, ConfirmedRequest, NoCertTask
<1>13. ResolvesToNode'
    <2> SUFFICES ASSUME process'.at = "running", ~cameBackEarly' PROVE AnswerTo("A", file.sub)' = process'.address
        BY DEF ResolvesToNode
    <2>1. Written(db, zone, r)
        BY <1>1, <1>6, <1>7 DEF ServedAlone, Up
    <2>2. r.ip = process.address
        BY <1>2 DEF Answers
    <2>3. QED
        BY <1>1, <1>3, <1>6, <1>7, <2>1, <2>2 DEF Written, AnswerTo, AnswerToA
<1>14. QED
    BY <1>8, <1>9, <1>10, <1>11, <1>12, <1>13

\* What is left when a task, or the whole process, comes to an end without its answer.
LEMMA NotUpKeeps ==
    ASSUME CertifierInv, process' \in [at : {"down", "failed"}, address : Address], certTask' = NoCertTask,
           ongoingSessions' \subseteq ongoingSessions, process'.at = "down" => ongoingSessions' = {} /\ updateTimeout' = Nobody,
           updateTimeout' \in {updateTimeout, Nobody},
           UNCHANGED <<now, file, requests, db, zone, asked, route53, cameBackEarly>>
    PROVE  CertifierInv'
<1> USE DEF CertifierInv
<1>1. CertifierTypes'
    BY DEF CertifierTypes, CertifierTask, NoCertTask, Nobody
<1>2. TaskInv'
    BY DEF TaskInv, Up, NoCertTask
<1>3. TimeInv' /\ RequestInv' /\ ServedAlone' /\ ResolvesToNode'
    BY DEF TimeInv, RequestInv, ServedAlone, ResolvesToNode, Up, NoCertTask
<1>4. QED
    BY <1>1, <1>2, <1>3

LEMMA ClientFailsKeeps ==
    ASSUME CertifierInv, RequestRefused \/ CertRequestLost \/ ProcessExits
    PROVE  CertifierInv'
<1>1. process \in [at : {"down", "starting", "running", "failed"}, address : Address]
    BY DEF CertifierInv, CertifierTypes
<1>2. UNCHANGED <<now, file, requests, db, zone, asked, route53, cameBackEarly>>
    BY DEF RequestRefused, CertRequestLost, ProcessExits, serverVars
<1>3. ASSUME NodeGone PROVE CertifierInv'
    BY <1>1, <1>2, <1>3, NotUpKeeps DEF NodeGone
<1>4. ASSUME TaskFailed PROVE CertifierInv'
    BY <1>1, <1>2, <1>3, <1>4, NotUpKeeps DEF TaskFailed
<1>5. QED
    BY <1>3, <1>4 DEF RequestRefused, CertRequestLost, ProcessExits

LEMMA StartTimesOutKeeps == ASSUME CertifierInv, StartTimesOut PROVE CertifierInv'
<1> USE DEF CertifierInv
<1>1. /\ process' \in [at : {"failed"}, address : Address] /\ process'.address = process.address
      /\ UNCHANGED <<now, certTask, ongoingSessions, file, updateTimeout, requests, db, zone, asked, route53, cameBackEarly>>
    BY DEF StartTimesOut, serverVars, CertifierTypes
<1>2. CertifierTypes'
    BY <1>1 DEF CertifierTypes
<1>3. TaskInv' /\ TimeInv'
    BY <1>1 DEF TaskInv, TimeInv, Up
<1>4. RequestInv'
    BY <1>1 DEF RequestInv, Answers
<1>5. ServedAlone' /\ ResolvesToNode'
    BY <1>1 DEF ServedAlone, ResolvesToNode, Up
<1>6. QED
    BY <1>2, <1>3, <1>4, <1>5

LEMMA TimerFiresKeeps == ASSUME CertifierInv, TimerFires PROVE CertifierInv'
<1> USE AutoCertifierAssumption DEF CertifierInv
<1>1. /\ certTask'.kind = DueKind /\ certTask' \in CertifierTask /\ certTask'.since = now /\ certTask'.request = Nobody
      /\ certTask'.kind # "none"
    BY DEF TimerFires, Begin, DueKind, CertifierTask, CertifierTypes
<1>2. /\ certTask = NoCertTask /\ updateTimeout = now /\ updateTimeout # Nobody /\ updateTimeout' = Nobody
      /\ UNCHANGED <<now, process, ongoingSessions, file, requests, db, zone, asked, route53, cameBackEarly>>
    BY DEF TimerFires, serverVars
<1>3. CertifierTypes'
    BY <1>1, <1>2 DEF CertifierTypes, Nobody
<1>4. TaskInv'
    BY <1>1, <1>2 DEF TaskInv, Up, NoCertTask
<1>5. TimeInv'
    BY <1>1, <1>2 DEF TimeInv, DueKind, CertifierTypes, NoCertTask
<1>6. RequestInv' /\ ResolvesToNode'
    BY <1>1 DEF RequestInv, ResolvesToNode, NoCertTask
<1>7. ServedAlone'
    BY <1>1, <1>2 DEF ServedAlone, Up, ConfirmedRequest, NoCertTask
<1>8. QED
    BY <1>3, <1>4, <1>5, <1>6, <1>7

nodeVars == <<now, process, certTask, ongoingSessions, file, updateTimeout, asked, route53, cameBackEarly>>

\* A step of the server for a request of the node: the other requests stay as they are, a request begins to be
\* served only if the node has its session, only a request that is served changes names, and if it is that of the
\* task, what was written for it fits how far the server is.
LEMMA ServerKeeps ==
    ASSUME CertifierInv, UNCHANGED nodeVars, NEW q \in CertRequests, NEW r \in CertifierRequest,
           requests' = [requests EXCEPT ![q] = r],
           db' \in [CertRequests -> Address \cup {Nobody}], zone' \in [CertRequests -> Address \cup {Nobody}],
           Answers(requests[q]) => Answers(r),
           r.at \notin {"none", "challenge", "done", "failed"} => ConfirmedRequest(q) \/ HasSession(q),
           ~ConfirmedRequest(q) => UNCHANGED <<db, zone>>,
           q = certTask.request /\ Answers(requests[q]) /\ Written(db, zone, requests[q]) => Written(db', zone', r)
    PROVE  CertifierInv'
<1> USE DEF CertifierInv, nodeVars
<1>1. /\ requests' \in [CertRequests -> CertifierRequest] /\ requests'[q] = r
      /\ \A p \in CertRequests : p # q => requests'[p] = requests[p]
    BY DEF CertifierTypes
<1>2. CertifierTypes'
    BY <1>1 DEF CertifierTypes
<1>3. TaskInv'
    BY DEF TaskInv, Up
<1>4. TimeInv'
    BY DEF TimeInv
<1>5. certTask.request \in CertRequests \cup {Nobody} /\ Nobody \notin CertRequests
    BY DEF CertifierTypes, CertifierTask, Nobody, CertRequests
<1>6. RequestInv'
    <2> SUFFICES ASSUME certTask.request # Nobody PROVE Answers(requests'[certTask.request])
        BY DEF RequestInv, Answers
    <2>1. QED
        BY <1>1, <1>5 DEF RequestInv
<1>7. ASSUME Up, ~cameBackEarly, NEW p \in CertRequests, ConfirmedRequest(p)' PROVE p = certTask.request
    <2>1. CASE p = q
        <3>1. ConfirmedRequest(q) \/ HasSession(q)
            BY <1>1, <1>7, <2>1 DEF ConfirmedRequest
        <3>2. QED
            BY <1>7, <2>1, <3>1 DEF ServedAlone, HasSession, TaskInv
    <2>2. CASE p # q
        BY <1>1, <1>7, <2>2 DEF ServedAlone, ConfirmedRequest
    <2>3. QED
        BY <2>1, <2>2
<1>8. ASSUME Up, ~cameBackEarly, certTask.request # Nobody PROVE Written(db', zone', requests'[certTask.request])
    <2>1. Answers(requests[certTask.request]) /\ Written(db, zone, requests[certTask.request])
        BY <1>8 DEF RequestInv, ServedAlone
    <2>2. CASE certTask.request = q
        BY <1>1, <2>1, <2>2 DEF Written
    <2>3. CASE certTask.request # q
        <3>1. UNCHANGED <<db, zone>>
            BY <1>8, <2>3 DEF ServedAlone
        <3>2. QED
            BY <1>1, <1>5, <1>8, <2>1, <2>3, <3>1 DEF Written
    <2>4. QED
        BY <2>2, <2>3
<1>9. ServedAlone'
    BY <1>7, <1>8 DEF ServedAlone, Up, Written
<1>10. ResolvesToNode'
    <2> SUFFICES ASSUME process.at = "running", certTask = NoCertTask, ~cameBackEarly
                 PROVE  AnswerTo("A", file.sub)' = process.address
        BY DEF ResolvesToNode
    <2>1. certTask.request \notin CertRequests
        BY <1>5 DEF NoCertTask
    <2>2. UNCHANGED <<db, zone>>
        BY <2>1 DEF ServedAlone, Up
    <2>3. QED
        BY <2>2 DEF ResolvesToNode, AnswerTo, AnswerToA
<1>11. QED
    BY <1>2, <1>3, <1>4, <1>6, <1>9, <1>10

\* The request after its step: only where the server is with it has changed.
At(q, at) == [requests[q] EXCEPT !.at = at]

LEMMA MovedRequest ==
    ASSUME CertifierTypes, NEW q \in CertRequests,
           NEW at \in {"database", "deletion", "record", "again", "order", "verification", "done", "failed"}
    PROVE  /\ At(q, at) \in CertifierRequest /\ At(q, at).at = at
           /\ At(q, at).kind = requests[q].kind /\ At(q, at).sub = requests[q].sub /\ At(q, at).ip = requests[q].ip
           /\ At(q, at).expires = requests[q].expires
           /\ Moved(q, at) => requests' = [requests EXCEPT ![q] = At(q, at)]
<1>1. requests \in [CertRequests -> CertifierRequest] /\ requests[q] \in CertifierRequest
    BY DEF CertifierTypes
<1>2. QED
    BY <1>1 DEF At, Moved, CertifierRequest

\* Every step with which the server serves a request.
LEMMA ServeStepKeeps ==
    ASSUME CertifierInv, UNCHANGED nodeVars, NEW q \in CertRequests, ServeStep(q)
    PROVE  CertifierInv'
<1> DEFINE r == requests[q]
<1>1. /\ CertifierTypes /\ requests \in [CertRequests -> CertifierRequest] /\ r \in CertifierRequest /\ q # Nobody
      /\ db \in [CertRequests -> Address \cup {Nobody}] /\ zone \in [CertRequests -> Address \cup {Nobody}]
      /\ r.ip \in Address \cup {Nobody}
    BY DEF CertifierInv, CertifierTypes, CertRequests, Nobody, CertifierRequest
<1>2. ASSUME Answers(r), r.kind # "create" PROVE r.sub \in CertRequests
    BY <1>1, <1>2 DEF CertifierInv, TaskInv, Answers, CertifierTypes
<1>3. CASE RunStreamrChallenge(q)
    <2>1. PICK at \in {"database", "failed"} : (at = "database" => HasSession(q)) /\ Moved(q, at)
        BY <1>3 DEF RunStreamrChallenge
    <2>2. UNCHANGED <<db, zone>>
        BY <1>3 DEF RunStreamrChallenge
    <2>3. Answers(r) => Answers(At(q, at))
        BY <1>1, MovedRequest DEF Answers
    <2>4. Written(db', zone', At(q, at))
        BY <1>1, MovedRequest DEF Written
    <2>5. QED
        BY <1>1, <2>1, <2>2, <2>3, <2>4, MovedRequest, ServerKeeps
<1>4. CASE CreateSubdomain(q)
    <2> DEFINE s == [r EXCEPT !.sub = q, !.at = IF route53 THEN "deletion" ELSE "order"]
    <2>1. /\ r.at = "database" /\ r.kind = "create" /\ requests' = [requests EXCEPT ![q] = s]
          /\ db' = [db EXCEPT ![q] = r.ip] /\ UNCHANGED zone
        BY <1>1, <1>4 DEF CreateSubdomain
    <2>2. s \in CertifierRequest /\ s.sub = q /\ s.ip = r.ip /\ s.kind = r.kind /\ s.at = IF route53 THEN "deletion" ELSE "order"
        BY <1>1 DEF CertifierRequest
    <2>3. db' \in [CertRequests -> Address \cup {Nobody}] /\ db'[q] = r.ip
        BY <1>1, <2>1
    <2> HIDE DEF s
    <2>4. Answers(r) => Answers(s)
        BY <1>1, <2>1, <2>2 DEF Answers
    <2>5. db'[s.sub] = s.ip /\ (route53 => s.at = "deletion")
        BY <2>2, <2>3
    <2>6. Written(db', zone', s)
        BY <2>5 DEF Written
    <2>7. ConfirmedRequest(q)
        BY <2>1 DEF ConfirmedRequest
    <2>8. QED
        BY <1>1, <2>1, <2>2, <2>3, <2>4, <2>6, <2>7, ServerKeeps
<1>5. CASE UpdateSubdomainIp(q)
    <2>1. r.at = "database" /\ r.kind # "create" /\ UNCHANGED zone /\ ConfirmedRequest(q)
        BY <1>5 DEF UpdateSubdomainIp, ConfirmedRequest
    <2>2. CASE db[r.sub] = Nobody
        <3>1. Moved(q, "failed") /\ UNCHANGED db
            BY <1>5, <2>2 DEF UpdateSubdomainIp
        <3>2. (Answers(r) => Answers(At(q, "failed"))) /\ Written(db', zone', At(q, "failed"))
            BY <1>1, MovedRequest DEF Answers, Written
        <3>3. QED
            BY <1>1, <2>1, <3>1, <3>2, MovedRequest, ServerKeeps
    <2>3. CASE db[r.sub] # Nobody
        <3>1. PICK at : at = IF route53 THEN "record" ELSE IF r.kind = "ip" THEN "done" ELSE "order"
            OBVIOUS
        <3>2. Moved(q, at) /\ db' = [db EXCEPT ![r.sub] = r.ip] /\ at \in {"record", "done", "order"}
            BY <1>5, <2>3, <3>1 DEF UpdateSubdomainIp
        <3>3. db' \in [CertRequests -> Address \cup {Nobody}] /\ (r.sub \in CertRequests => db'[r.sub] = r.ip)
            BY <1>1, <3>2
        <3>4. ASSUME Answers(r) PROVE Answers(At(q, at)) /\ Written(db', zone', At(q, at))
            <4>1. r.sub \in CertRequests /\ r.sub # Nobody
                BY <1>2, <2>1, <3>4 DEF CertRequests, Nobody
            <4>2. Answers(At(q, at))
                BY <1>1, <3>1, <3>2, <3>4, <4>1, MovedRequest DEF Answers
            <4>3. At(q, at).sub = r.sub /\ At(q, at).ip = r.ip /\ At(q, at).at = at /\ (route53 => at = "record")
                BY <1>1, <3>1, <3>2, MovedRequest
            <4>4. QED
                BY <3>3, <4>1, <4>2, <4>3 DEF Written
        <3>5. At(q, at) \in CertifierRequest /\ requests' = [requests EXCEPT ![q] = At(q, at)]
            BY <1>1, <3>2, MovedRequest
        <3>6. QED
            BY <1>1, <2>1, <3>3, <3>4, <3>5, ServerKeeps
    <2>4. QED
        BY <2>2, <2>3
<1>6. CASE ChangeRecords(q)
    <2>1. r.at \in {"deletion", "record", "again"} /\ ConfirmedRequest(q) /\ UNCHANGED db
        BY <1>6 DEF ChangeRecords, ConfirmedRequest
    <2>2. PICK at : at = CASE r.at = "deletion" -> "record"
                           [] r.at = "record" /\ r.kind = "ip" -> "done"
                           [] r.at = "record" /\ r.kind = "renew" -> "again"
                           [] OTHER -> "order"
        OBVIOUS
    <2>3. /\ Moved(q, at) /\ at \in {"record", "done", "again", "order"}
          /\ at = "done" => r.kind = "ip"
          /\ at # "record" => r.at # "deletion"
        BY <1>6, <2>1, <2>2 DEF ChangeRecords
    <2>4. zone' \in [CertRequests -> Address \cup {Nobody}]
        BY <1>1, <1>6 DEF ChangeRecords, ZoneAfter, WithoutRecords, Upserted
    <2>5. at # "record" /\ r.sub \in CertRequests => zone'[r.sub] = r.ip
        BY <1>1, <1>6, <2>3 DEF ChangeRecords, ZoneAfter, Upserted
    <2>6. ASSUME Answers(r) PROVE Answers(At(q, at)) /\ r.sub \in CertRequests
        <3>1. r.sub # Nobody
            BY <2>1, <2>6 DEF Answers
        <3>2. QED
            BY <1>1, <2>3, <2>6, <3>1, MovedRequest DEF Answers, CertifierRequest
    <2>7. ASSUME Answers(r), Written(db, zone, r) PROVE Written(db', zone', At(q, at))
        <3>1. db'[r.sub] = r.ip
            BY <2>1, <2>7 DEF Written
        <3>2. At(q, at).sub = r.sub /\ At(q, at).ip = r.ip /\ At(q, at).at = at
            BY <1>1, <2>3, MovedRequest
        <3>3. QED
            BY <2>5, <2>6, <2>7, <3>1, <3>2 DEF Written
    <2>8. At(q, at) \in CertifierRequest /\ requests' = [requests EXCEPT ![q] = At(q, at)]
        BY <1>1, <2>3, MovedRequest
    <2>9. db' \in [CertRequests -> Address \cup {Nobody}]
        BY <1>1, <2>1
    <2>10. QED
        BY <2>1, <2>4, <2>6, <2>7, <2>8, <2>9, ServerKeeps
<1>7. CASE CreateChallenge(q)
    <2>1. r.at = "order" /\ Moved(q, "verification") /\ UNCHANGED <<db, zone>> /\ ConfirmedRequest(q)
        BY <1>7 DEF CreateChallenge, ConfirmedRequest
    <2>2. Answers(r) => Answers(At(q, "verification"))
        BY <1>1, <2>1, MovedRequest DEF Answers
    <2>3. Written(db, zone, r) => Written(db', zone', At(q, "verification"))
        <3>1. At(q, "verification").sub = r.sub /\ At(q, "verification").ip = r.ip
            BY <1>1, MovedRequest
        <3>2. QED
            BY <2>1, <3>1 DEF Written
    <2>4. QED
        BY <1>1, <2>1, <2>2, <2>3, MovedRequest, ServerKeeps
<1>8. CASE OrderCompletes(q)
    <2> DEFINE ok == AnswerTo("TXT", r.sub) = q
               s == [r EXCEPT !.at = IF ok THEN "done" ELSE "failed", !.expires = IF ok THEN now + Lifetime ELSE 0]
    <2>1. r.at = "verification" /\ UNCHANGED <<db, zone>> /\ ConfirmedRequest(q) /\ requests' = [requests EXCEPT ![q] = s]
        BY <1>1, <1>8 DEF OrderCompletes, ConfirmedRequest
    <2>2. now \in Nat /\ now + Lifetime \in Nat
        BY <1>1, AutoCertifierAssumption DEF CertifierTypes
    <2>3. /\ s \in CertifierRequest /\ s.sub = r.sub /\ s.ip = r.ip /\ s.kind = r.kind
          /\ s.at \in {"done", "failed"} /\ (s.at = "done" => s.expires = now + Lifetime)
        BY <1>1, <2>2 DEF CertifierRequest
    <2> HIDE DEF s
    <2>4. ASSUME Answers(r) PROVE Answers(s)
        <3>1. certTask.since \in Nat /\ certTask.since <= now
            BY <2>4 DEF Answers, CertifierInv, TimeInv, CertifierTypes, CertifierTask
        <3>2. certTask.since + Lifetime <= now + Lifetime
            BY <2>2, <3>1, AutoCertifierAssumption
        <3>3. QED
            BY <2>1, <2>3, <2>4, <3>2 DEF Answers
    <2>5. Written(db, zone, r) => Written(db', zone', s)
        BY <2>1, <2>3 DEF Written
    <2>6. QED
        BY <1>1, <2>1, <2>3, <2>4, <2>5, ServerKeeps
<1>9. QED
    BY <1>3, <1>4, <1>5, <1>6, <1>7, <1>8 DEF ServeStep

\* A step of the server that fails, and a server that stops.
LEMMA ServerFailsKeeps ==
    ASSUME CertifierInv, ServerRestarts \/ \E q \in CertRequests : ServeFails(q)
    PROVE  CertifierInv'
<1>1. UNCHANGED nodeVars /\ UNCHANGED <<db, zone>>
    BY DEF ServerRestarts, ServeFails, StepFails, clientVars, nodeVars
<1>2. CertifierTypes
    BY DEF CertifierInv
<1>3. ASSUME NEW q \in CertRequests, ServeFails(q) PROVE CertifierInv'
    <2>1. Moved(q, "failed") /\ ConfirmedRequest(q)
        BY <1>3 DEF ServeFails, StepFails
    <2>2. (Answers(requests[q]) => Answers(At(q, "failed"))) /\ Written(db', zone', At(q, "failed"))
        BY <1>2, MovedRequest DEF Answers, Written
    <2>3. db' \in [CertRequests -> Address \cup {Nobody}] /\ zone' \in [CertRequests -> Address \cup {Nobody}]
        BY <1>1, <1>2 DEF CertifierTypes
    <2>4. QED
        BY <1>1, <1>2, <2>1, <2>2, <2>3, MovedRequest, ServerKeeps
<1>4. CASE ServerRestarts
    <2>1. /\ requests' \in [CertRequests -> CertifierRequest]
          /\ \A q \in CertRequests : /\ requests'[q].at \in {"none", "failed"}
                                     /\ requests'[q].kind = requests[q].kind /\ requests'[q].sub = requests[q].sub
                                     /\ requests'[q].ip = requests[q].ip
        BY <1>2, <1>4 DEF ServerRestarts, CertifierTypes, CertifierRequest
    <2>2. certTask.request \in CertRequests \cup {Nobody}
        BY <1>2 DEF CertifierTypes, CertifierTask
    <2> USE <1>1, <2>1, <2>2 DEF CertifierInv, nodeVars
    <2>3. CertifierTypes'
        BY DEF CertifierTypes
    <2>4. TaskInv'
        BY DEF TaskInv, Up
    <2>5. TimeInv'
        BY DEF TimeInv
    <2>6. RequestInv'
        BY DEF RequestInv, Answers
    <2>7. ServedAlone'
        BY DEF ServedAlone, ConfirmedRequest, Written, Up
    <2>8. ResolvesToNode'
        BY DEF ResolvesToNode, AnswerTo, AnswerToA
    <2>9. QED
        BY <2>3, <2>4, <2>5, <2>6, <2>7, <2>8
<1>5. QED
    BY <1>3, <1>4

LEMMA CertifierTickKeeps == ASSUME CertifierInv, Tick \/ UNCHANGED certifierVars PROVE CertifierInv'
<1>1. UNCHANGED <<process, certTask, ongoingSessions, file, updateTimeout, asked, route53, cameBackEarly, requests, db, zone>>
    BY DEF Tick, certifierVars, clientVars, serverVars
<1> USE <1>1, AutoCertifierAssumption DEF CertifierInv
<1>2. CertifierTypes'
    BY DEF CertifierTypes, Tick, certifierVars
<1>3. TaskInv'
    BY DEF TaskInv, Up
<1>4. TimeInv'
    BY DEF TimeInv, CertifierTypes, CertifierTask, Tick, certifierVars, TaskInv, NoCertTask, Nobody
<1>5. RequestInv'
    BY DEF RequestInv, Answers
<1>6. ServedAlone'
    BY DEF ServedAlone, ConfirmedRequest, Written, Up
<1>7. ResolvesToNode'
    BY DEF ResolvesToNode, AnswerTo, AnswerToA
<1>8. QED
    BY <1>2, <1>3, <1>4, <1>5, <1>6, <1>7

LEMMA CertifierInductive == CertifierInv /\ [CertifierNext]_certifierVars => CertifierInv'
<1> SUFFICES ASSUME CertifierInv, [CertifierNext]_certifierVars PROVE CertifierInv'
    OBVIOUS
<1>1. ASSUME NEW a \in Address, StartClient(a) PROVE CertifierInv'
    BY <1>1, StartClientKeeps
<1>2. ASSUME NEW q \in CertRequests, Serve(q) PROVE CertifierInv'
    <2>1. UNCHANGED nodeVars /\ ServeStep(q)
        BY <1>2 DEF Serve, nodeVars, clientVars
    <2>2. QED
        BY <2>1, ServeStepKeeps
<1>3. CASE SessionCreated
    BY <1>3, SessionCreatedKeeps
<1>4. CASE TaskDone
    BY <1>4, TaskDoneKeeps
<1>5. CASE RequestRefused \/ CertRequestLost \/ ProcessExits
    BY <1>5, ClientFailsKeeps
<1>6. CASE StartTimesOut
    BY <1>6, StartTimesOutKeeps
<1>7. CASE TimerFires
    BY <1>7, TimerFiresKeeps
<1>8. CASE ServerRestarts \/ \E q \in CertRequests : ServeFails(q)
    BY <1>8, ServerFailsKeeps
<1>9. CASE Tick \/ UNCHANGED certifierVars
    BY <1>9, CertifierTickKeeps
<1>10. QED
    BY <1>1, <1>2, <1>3, <1>4, <1>5, <1>6, <1>7, <1>8, <1>9 DEF CertifierNext

\* A node with a certificate stays reachable: its certificate is renewed before it expires, but for the time a
\* request takes, and its name leads to it, whatever was lost, refused or restarted on the way.
THEOREM StaysReachableAlways == CertifierSpec => []StaysReachable
<1>1. CertifierInv => StaysReachable
    <2> SUFFICES ASSUME CertifierInv PROVE RenewedInTime
        BY DEF CertifierInv, StaysReachable
    <2>1. QED
        BY AutoCertifierAssumption DEF CertifierInv, CertifierTypes, CertifierTask, TimeInv, RenewedInTime
<1>2. QED
    BY <1>1, CertifierInitially, CertifierInductive, PTL DEF CertifierSpec
=============================================================================
