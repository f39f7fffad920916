--------------------------------- MODULE Rpc ---------------------------------
(***************************************************************************)
(* Remote procedure calls between two peers: the RpcCommunicator with its  *)
(* ClientTransport at the caller, the RpcCommunicator with its             *)
(* ServerRegistry at the peer, and the listeners that                      *)
(* ListeningRpcCommunicator adds.                                          *)
(*                                                                         *)
(* A call is a request or a notification.  `outcome` is the state of its   *)
(* deferred promises: it is only changed while they are pending.           *)
(* `sending` are the calls whose outgoingMessageListener has not returned. *)
(* The transport gives a message to the peer at most once, late or never,  *)
(* and may report a failure for a message that was delivered.              *)
(***************************************************************************)
EXTENDS Naturals, FiniteSets

CONSTANTS
    Call,
    Notification,   \* the calls that expect no response
    MaxRpcFaults    \* how many messages are lost, sends or handlers fail, peers disconnect

ASSUME RpcAssumption == Notification \subseteq Call /\ MaxRpcFaults \in Nat

Request == Call \ Notification

VARIABLES
    outcome,        \* the deferred promises of a call
    ongoingRequests,
    sending,
    sent,           \* the calls whose message has left
    wire,           \* the messages in flight
    serving,        \* the requests whose handler is running
    executed,       \* the calls whose handler was started
    callerStopped, peerStopped,
    orphans,        \* the calls made after the caller had stopped
    rpcFaults

rpcVars == <<outcome, ongoingRequests, sending, sent, wire, serving, executed,
             callerStopped, peerStopped, orphans, rpcFaults>>

Outgoing(c) == [call |-> c, kind |-> "call"]
Response(c, kind) == [call |-> c, kind |-> kind]

RpcTypeOK ==
    /\ outcome \in [Call -> {"none", "pending", "ok", "failed"}]
    /\ ongoingRequests \subseteq Request /\ serving \subseteq Request
    /\ sending \cup sent \cup executed \cup orphans \subseteq Call
    /\ wire \subseteq [call : Call, kind : {"call", "result", "error", "unreadable"}]
    /\ {callerStopped, peerStopped} \subseteq BOOLEAN
    /\ rpcFaults \in 0 .. MaxRpcFaults

RpcInit ==
    /\ outcome = [c \in Call |-> "none"]
    /\ ongoingRequests = {} /\ sending = {} /\ sent = {} /\ wire = {} /\ serving = {} /\ executed = {}
    /\ callerStopped = FALSE /\ peerStopped = FALSE /\ orphans = {} /\ rpcFaults = 0

RpcFault ==
    /\ rpcFaults < MaxRpcFaults
    /\ rpcFaults' = rpcFaults + 1
-----------------------------------------------------------------------------
(* resolveDeferredPromises(), rejectDeferredPromises(),                    *)
(* resolveNotification(): nothing happens unless the promises are pending. *)
Settled(C, o) == [c \in Call |-> IF c \in C /\ outcome[c] = "pending" THEN o ELSE outcome[c]]

\* Seeded fault: the promises of a notification are resolved without a look at their state.
ResolveNotificationUnchecked(c) == [outcome EXCEPT ![c] = "ok"]

ResolveNotification(c) == Settled({c}, "ok")

\* registerRequest(): a notification is not registered.
RegisterRequest(c) == IF c \in Notification THEN ongoingRequests ELSE ongoingRequests \cup {c}

OnOutgoingMessage(c) ==
    /\ sending' = sending \cup {c}
    /\ ongoingRequests' = RegisterRequest(c)
    /\ UNCHANGED orphans

(* unary(): after stop() the transport has no listener any more, and the   *)
(* promises of the call are left as they are.                              *)
Unary(c) ==
    /\ outcome[c] = "none"
    /\ outcome' = [outcome EXCEPT ![c] = "pending"]
    /\ IF callerStopped
       THEN orphans' = orphans \cup {c} /\ UNCHANGED <<ongoingRequests, sending>>
       ELSE OnOutgoingMessage(c)
    /\ UNCHANGED <<sent, wire, serving, executed, callerStopped, peerStopped, rpcFaults>>

(* the outgoingMessageListener hands the message to the transport          *)
SendMessage(c) ==
    /\ c \in sending \ sent
    /\ sent' = sent \cup {c} /\ wire' = wire \cup {Outgoing(c)}
    /\ UNCHANGED <<outcome, ongoingRequests, sending, serving, executed, callerStopped, peerStopped, orphans, rpcFaults>>

(* then(): a call that is not among the ongoing requests is taken for a    *)
(* notification.                                                           *)
SendResolves(c) ==
    /\ c \in sending \cap sent
    /\ sending' = sending \ {c}
    /\ outcome' = IF c \in ongoingRequests THEN outcome ELSE ResolveNotification(c)
    /\ UNCHANGED <<ongoingRequests, sent, wire, serving, executed, callerStopped, peerStopped, orphans, rpcFaults>>

(* catch(), and then() after it, which finds the promises rejected         *)
SendRejects(c) ==
    /\ c \in sending /\ RpcFault
    /\ sending' = sending \ {c}
    /\ ongoingRequests' = ongoingRequests \ {c}
    /\ outcome' = Settled({c}, "failed")
    /\ UNCHANGED <<sent, wire, serving, executed, callerStopped, peerStopped, orphans>>
-----------------------------------------------------------------------------
\* The peer's side: onIncomingMessage(), handleRequest(), handleNotification().
Receive(c) == Outgoing(c) \in wire /\ wire' = wire \ {Outgoing(c)}

ReceiveCall(c) ==
    /\ Receive(c) /\ ~peerStopped
    /\ executed' = executed \cup {c}
    /\ serving' = IF c \in Request THEN serving \cup {c} ELSE serving
    /\ UNCHANGED <<outcome, ongoingRequests, sending, sent, callerStopped, peerStopped, orphans, rpcFaults>>

(* getImplementation() throws: there is no such method, or the caller gave *)
(* none.  A notification gets no response.                                 *)
UnknownMethod(c) ==
    /\ Outgoing(c) \in wire /\ ~peerStopped /\ RpcFault
    /\ wire' = (wire \ {Outgoing(c)}) \cup (IF c \in Request THEN {Response(c, "error")} ELSE {})
    /\ UNCHANGED <<outcome, ongoingRequests, sending, sent, serving, executed, callerStopped, peerStopped, orphans>>

(* The handler of a request returns, throws, or promiseTimeout() wins the  *)
(* race.  The response is not sent when the peer has stopped meanwhile.    *)
Responds(c, kind) ==
    /\ c \in serving
    /\ serving' = serving \ {c}
    /\ wire' = IF peerStopped THEN wire ELSE wire \cup {Response(c, kind)}
    /\ UNCHANGED <<outcome, ongoingRequests, sending, sent, executed, callerStopped, peerStopped, orphans>>

HandleRequest(c) == Responds(c, "result") /\ UNCHANGED rpcFaults

HandleRequestFails(c) == \E kind \in {"error", "unreadable"} : Responds(c, kind) /\ RpcFault
-----------------------------------------------------------------------------
(* resolveOngoingRequest() and rejectOngoingRequest(): a response that is  *)
(* not, or no longer, waited for is ignored, and so is every message after *)
(* stop().                                                                 *)
HandleResponse(c, kind) ==
    /\ Response(c, kind) \in wire
    /\ wire' = wire \ {Response(c, kind)}
    /\ IF callerStopped \/ c \notin ongoingRequests
       THEN UNCHANGED <<outcome, ongoingRequests>>
       ELSE /\ outcome' = Settled({c}, IF kind = "result" THEN "ok" ELSE "failed")
            /\ ongoingRequests' = ongoingRequests \ {c}
    /\ UNCHANGED <<sending, sent, serving, executed, callerStopped, peerStopped, orphans, rpcFaults>>

ResponseArrives(c) == \E kind \in {"result", "error", "unreadable"} : HandleResponse(c, kind)

(* The timer of the request, which clearTimeout() stops when it is settled *)
RequestTimesOut(c) ==
    /\ c \in ongoingRequests
    /\ ongoingRequests' = ongoingRequests \ {c}
    /\ outcome' = Settled({c}, "failed")
    /\ UNCHANGED <<sending, sent, wire, serving, executed, callerStopped, peerStopped, orphans, rpcFaults>>

(* disconnectedListener: handleClientError() of every ongoing request to   *)
(* the peer                                                                *)
PeerDisconnects ==
    /\ ~callerStopped /\ ongoingRequests # {} /\ RpcFault
    /\ ongoingRequests' = {}
    /\ outcome' = Settled(ongoingRequests, "failed")
    /\ UNCHANGED <<sending, sent, wire, serving, executed, callerStopped, peerStopped, orphans>>

(* stop() of the caller, and of the peer                                   *)
StopCaller ==
    /\ ~callerStopped
    /\ callerStopped' = TRUE /\ ongoingRequests' = {}
    /\ outcome' = Settled(ongoingRequests, "failed")
    /\ UNCHANGED <<sending, sent, wire, serving, executed, peerStopped, orphans, rpcFaults>>

StopPeer ==
    /\ ~peerStopped
    /\ peerStopped' = TRUE
    /\ UNCHANGED <<outcome, ongoingRequests, sending, sent, wire, serving, executed, callerStopped, orphans, rpcFaults>>

(* A message is lost on its way, or finds a peer that has stopped          *)
MessageLost ==
    /\ \E m \in wire :
        /\ wire' = wire \ {m}
        /\ IF m.kind = "call" /\ peerStopped THEN UNCHANGED rpcFaults ELSE RpcFault
    /\ UNCHANGED <<outcome, ongoingRequests, sending, sent, serving, executed, callerStopped, peerStopped, orphans>>
-----------------------------------------------------------------------------
RpcNext ==
    \/ \E c \in Call :
        \/ Unary(c) \/ SendMessage(c) \/ SendResolves(c) \/ SendRejects(c)
        \/ ReceiveCall(c) \/ UnknownMethod(c) \/ HandleRequest(c) \/ HandleRequestFails(c)
        \/ ResponseArrives(c) \/ RequestTimesOut(c)
    \/ PeerDisconnects \/ StopCaller \/ StopPeer \/ MessageLost

RpcSpec == RpcInit /\ [][RpcNext]_rpcVars
-----------------------------------------------------------------------------
Calls == INSTANCE RpcCalls WITH outcome <- outcome, sent <- sent, executed <- executed

(* RpcCommunicator keeps the promise of RpcCalls: timeouts, late and lost  *)
(* responses, failed sends, disconnections and stop() may come in any      *)
(* order, and a call is still settled once, with an outcome that is true.  *)
ImplementsCalls == Calls!Spec
=============================================================================
