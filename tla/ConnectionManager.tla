-------------------------- MODULE ConnectionManager --------------------------
(***************************************************************************)
(* The ConnectionManagers of two nodes, each with a WebSocket client and a *)
(* server connector: endpoints, PendingConnections with their handshake,   *)
(* ManagedConnections, and the rule that decides which of two connections  *)
(* the nodes opened to each other stays.                                   *)
(*                                                                         *)
(* A node knows the other one by its node id only: an event of any         *)
(* connection with that node acts on the one endpoint of the id.  The      *)
(* wire of a connection keeps the order of what a side sends, its closing  *)
(* included.  Of what is sent only the requests of ConnectionLockRpc       *)
(* matter; a node holds its locks under one lock id.  Collection of        *)
(* connections may come whenever the locks allow it: how many connections  *)
(* there are and how long they were idle is left out.                      *)
(***************************************************************************)
EXTENDS Naturals, Sequences, FiniteSets

CONSTANTS
    Ends,           \* the two nodes
    Offerer,        \* the node for which getOfferer() says 'local'
    AllowIncomingPrivateConnections,
    MaxSockets, MaxSends, MaxSocketFaults, MaxDisconnects, MaxLockCalls

ASSUME ConnectionManagerAssumption ==
    /\ Cardinality(Ends) = 2 /\ Offerer \in Ends
    /\ MaxSockets \in Nat /\ MaxSends \in Nat /\ MaxSocketFaults \in Nat /\ MaxDisconnects \in Nat
    /\ AllowIncomingPrivateConnections \in BOOLEAN /\ MaxLockCalls \in Nat

VARIABLES
    endpoint,   \* endpoints.get(the other node)
    connecting, \* the client connector's connectingConnections.get(the other node), or NoSocket
    pending,    \* PendingConnection of each end of each socket
    managed,    \* ManagedConnection of each end of each socket
    open,       \* does the end of the socket still listen to it?
    wire,       \* what is on the way to each end of each socket
    sockets,    \* how many sockets were opened
    leaving,    \* the socket gracefullyDisconnectAsync() waits for, or NoSocket
    locks,      \* the kinds of lock on the connection to the other node, "private" included
    privateMode, \* privateClientMode
    lockCalls,  \* how often a lock or the private mode was set
    stopping,   \* is stop() in progress?
    takenOver,  \* history: was an established connection replaced?
    sends,      \* what was sent: "data", or a request "lock" or "unlock"
    unsettled,  \* history: the messages whose send() has not settled
    socketFaults, disconnects

connVars == <<endpoint, connecting, pending, managed, open, wire, sockets, leaving, locks, privateMode,
              lockCalls, stopping, takenOver, sends, unsettled, socketFaults, disconnects>>

lockVars == <<locks, privateMode, lockCalls, stopping>>

Sockets == 1 .. MaxSockets
NoSocket == 0
Other(n) == CHOOSE m \in Ends : m # n

ConnTypeOK ==
    /\ endpoint \in [Ends -> [at : {"none", "connecting", "connected"},
                              socket : Sockets \cup {NoSocket}, buffer : SUBSET (1 .. MaxSends)]]
    /\ connecting \in [Ends -> Sockets \cup {NoSocket}]
    /\ pending \in [Sockets -> [Ends -> {"none", "waiting", "replaced", "stopped"}]]
    /\ managed \in [Sockets -> [Ends -> {"none", "used", "replaced"}]]
    /\ open \in [Sockets -> [Ends -> BOOLEAN]]
    /\ leaving \in [Ends -> Sockets \cup {NoSocket}]
    /\ locks \in [Ends -> SUBSET {"local", "remote", "weak", "private"}]
    /\ privateMode \in [Ends -> BOOLEAN] /\ stopping \in [Ends -> BOOLEAN]
    /\ unsettled \subseteq DOMAIN sends

NoEndpoint == [at |-> "none", socket |-> NoSocket, buffer |-> {}]

ConnInit ==
    /\ endpoint = [n \in Ends |-> NoEndpoint]
    /\ connecting = [n \in Ends |-> NoSocket]
    /\ pending = [c \in Sockets |-> [n \in Ends |-> "none"]]
    /\ managed = [c \in Sockets |-> [n \in Ends |-> "none"]]
    /\ open = [c \in Sockets |-> [n \in Ends |-> FALSE]]
    /\ wire = [c \in Sockets |-> [n \in Ends |-> << >>]]
    /\ leaving = [n \in Ends |-> NoSocket]
    /\ locks = [n \in Ends |-> {}]
    /\ privateMode = [n \in Ends |-> FALSE] /\ stopping = [n \in Ends |-> FALSE] /\ lockCalls = 0 /\ takenOver = FALSE
    /\ sockets = 0 /\ sends = << >> /\ unsettled = {} /\ socketFaults = 0 /\ disconnects = 0
-----------------------------------------------------------------------------
(* send() with connect and bufferWhileConnecting: without an endpoint the  *)
(* client connector connects, or returns the connection it is still        *)
(* connecting; the outgoing handshaker asks as soon as the socket is open. *)
Send(n, kind) ==
    LET m == Len(sends) + 1
        c == IF connecting[n] = NoSocket THEN sockets + 1 ELSE connecting[n] IN
    /\ Len(sends) < MaxSends /\ ~stopping[n]
    /\ sends' = Append(sends, kind)
    /\ \/ /\ endpoint[n].at = "none" /\ c \in Sockets
          /\ endpoint' = [endpoint EXCEPT ![n] = [at |-> "connecting", socket |-> c, buffer |-> {m}]]
          /\ unsettled' = unsettled \cup {m}
          /\ \/ connecting[n] # NoSocket /\ UNCHANGED <<connecting, pending, open, wire, sockets>>
             \/ /\ connecting[n] = NoSocket
                /\ sockets' = c
                /\ connecting' = [connecting EXCEPT ![n] = c]
                /\ pending' = [pending EXCEPT ![c][n] = "waiting"]
                /\ open' = [open EXCEPT ![c] = [k \in Ends |-> TRUE]]
                /\ wire' = [wire EXCEPT ![c][Other(n)] = <<"request">>]
       \/ /\ endpoint[n].at = "connecting"
          /\ endpoint' = [endpoint EXCEPT ![n].buffer = @ \cup {m}]
          /\ unsettled' = unsettled \cup {m}
          /\ UNCHANGED <<connecting, pending, open, wire, sockets>>
       \/ /\ endpoint[n].at = "connected"
          /\ wire' = IF kind = "data" THEN wire
                     ELSE [wire EXCEPT ![endpoint[n].socket][Other(n)] = Append(@, kind)]
          /\ UNCHANGED <<endpoint, unsettled, connecting, pending, open, sockets>>
    /\ UNCHANGED <<managed, leaving, privateMode, stopping, takenOver, socketFaults, disconnects>>

SendData(n) == Send(n, "data") /\ UNCHANGED <<locks, lockCalls>>

\* ConnectionLockStates: locks of a kind are added, removed and asked for.
Locked(n, kind) == [locks EXCEPT ![n] = @ \cup {kind}]
Unlocked(n, kind) == [locks EXCEPT ![n] = @ \ {kind}]
IsLocked(n) == locks[n] # {}

CallsLock(n) == ~stopping[n] /\ lockCalls < MaxLockCalls /\ lockCalls' = lockCalls + 1

(* lockConnection(): the lock is taken here at once and asked for there;   *)
(* the request opens a connection if there is none.                        *)
LockConnection(n) ==
    /\ CallsLock(n)
    /\ locks' = Locked(n, "local")
    /\ Send(n, "lock")

UnlockConnection(n) ==
    /\ CallsLock(n)
    /\ "local" \in locks[n]
    /\ locks' = Unlocked(n, "local")
    /\ endpoint[n].at # "none"
    /\ Send(n, "unlock")

\* weakLockConnection(), weakUnlockConnection(): known to the node alone
WeakLock(n) ==
    /\ CallsLock(n)
    /\ locks' \in {Locked(n, "weak"), Unlocked(n, "weak")}
    /\ UNCHANGED <<endpoint, connecting, pending, managed, open, wire, sockets, leaving, privateMode, stopping,
                   takenOver, sends, unsettled, socketFaults, disconnects>>

(* enablePrivateClientMode(), disablePrivateClientMode(): connected nodes  *)
(* are told; a node that gets connected is told if the mode is on.         *)
SetPrivateMode(n) ==
    LET c == endpoint[n].socket
        mode == IF privateMode[n] THEN "public" ELSE "private" IN
    /\ CallsLock(n)
    /\ privateMode' = [privateMode EXCEPT ![n] = ~@]
    /\ wire' = IF endpoint[n].at # "connected" THEN wire
               ELSE [wire EXCEPT ![c][Other(n)] = Append(@, mode)]
    /\ UNCHANGED <<endpoint, connecting, pending, managed, open, sockets, leaving, locks, stopping,
                   takenOver, sends, unsettled, socketFaults, disconnects>>

Received(n, c, kind) == open[c][n] /\ wire[c][n] # << >> /\ Head(wire[c][n]) = kind

\* The wires once n has taken a message from c and has sent the messages ms.
Answer(n, c, ms) ==
    [wire EXCEPT ![c][n] = IF @ = << >> THEN @ ELSE Tail(@), ![c][Other(n)] = @ \o ms]

-----------------------------------------------------------------------------
\* What onConnected() sends: the requests in the buffer, and the private mode
Flushed(n, buffer) ==
    SelectSeq([m \in DOMAIN sends |-> IF m \in buffer THEN sends[m] ELSE "data"], LAMBDA k : k # "data")
    \o (IF privateMode[n] THEN <<"private">> ELSE << >>)

(* onConnected(): the buffer is emptied to the connection.                 *)
Connected(n, c, buffer) ==
    /\ endpoint' = [endpoint EXCEPT ![n] = [at |-> "connected", socket |-> c, buffer |-> {}]]
    /\ unsettled' = unsettled \ buffer
    /\ connecting' = [connecting EXCEPT ![n] = IF @ = c THEN NoSocket ELSE @]

\* clearAllLocks() keeps the mark of a private connection.
LocksCleared(n) == [locks EXCEPT ![n] = @ \cap {"private"}]

\* Seeded fault: the locks are kept for the next connection.
DisconnectedKeepingLocks(n) ==
    /\ endpoint' = [endpoint EXCEPT ![n] = NoEndpoint]
    /\ unsettled' = unsettled \ endpoint[n].buffer
    /\ UNCHANGED locks

(* onDisconnected(): the endpoint of the node id goes, whichever its       *)
(* connection, and its locks; the sends in its buffer are rejected.        *)
Disconnected(n) ==
    /\ locks' = IF endpoint[n].at = "none" THEN locks ELSE LocksCleared(n)
    /\ endpoint' = [endpoint EXCEPT ![n] = NoEndpoint]
    /\ unsettled' = unsettled \ endpoint[n].buffer

(* acceptNewConnection(): the replaced connection's buffer, if it had one. *)
BufferKept(n) == endpoint[n].buffer

\* replaceAsDuplicate() of the endpoint's pending or managed connection, if any
ReplacedPending(n) ==
    IF endpoint[n].at # "connecting" THEN pending
    ELSE [pending EXCEPT ![endpoint[n].socket][n] = IF @ = "waiting" THEN "replaced" ELSE @]

ReplacedManaged(n) ==
    IF endpoint[n].at # "connected" THEN managed
    ELSE [managed EXCEPT ![endpoint[n].socket][n] = "replaced"]

\* Seeded fault: either node takes a second connection.
AcceptRequestAlways(n, c) ==
    /\ Received(n, c, "request")
    /\ pending' = [ReplacedPending(n) EXCEPT ![c][n] = "stopped"]
    /\ managed' = [ReplacedManaged(n) EXCEPT ![c][n] = "used"]
    /\ wire' = Answer(n, c, <<"ok">> \o Flushed(n, BufferKept(n)))
    /\ Connected(n, c, BufferKept(n))
    /\ takenOver' = (takenOver \/ endpoint[n].at = "connected")
    /\ UNCHANGED <<open, sockets, leaving, lockVars, sends, socketFaults, disconnects>>

(* onServerSocketHandshakeRequest() with onNewConnection(): a second       *)
(* connection is taken if the other node is the offerer.                   *)
AcceptRequest(n, c) ==
    /\ Received(n, c, "request")
    /\ endpoint[n].at = "none" \/ Offerer # n
    /\ pending' = [ReplacedPending(n) EXCEPT ![c][n] = "stopped"]
    /\ managed' = [ReplacedManaged(n) EXCEPT ![c][n] = "used"]
    /\ wire' = Answer(n, c, <<"ok">> \o Flushed(n, BufferKept(n)))
    /\ Connected(n, c, BufferKept(n))
    /\ takenOver' = (takenOver \/ endpoint[n].at = "connected")
    /\ UNCHANGED <<open, sockets, leaving, lockVars, sends, socketFaults, disconnects>>

(* rejectHandshake(): the response, then the socket is destroyed silently. *)
Reject(n, c, error) ==
    /\ wire' = [Answer(n, c, <<error, "close">>) EXCEPT ![c][n] = << >>]
    /\ open' = [open EXCEPT ![c][n] = FALSE]
    /\ UNCHANGED <<endpoint, unsettled, pending, managed, connecting, sockets, leaving, lockVars, takenOver, sends,
                   disconnects>>

RejectDuplicate(n, c) ==
    /\ Received(n, c, "request")
    /\ endpoint[n].at # "none" /\ Offerer = n
    /\ Reject(n, c, "duplicate")
    /\ UNCHANGED socketFaults

\* an unsupported protocol version, or a request meant for another node
RefuseRequest(n, c) ==
    /\ Received(n, c, "request")
    /\ socketFaults < MaxSocketFaults /\ socketFaults' = socketFaults + 1
    /\ Reject(n, c, "refused")
-----------------------------------------------------------------------------
(* The outgoing handshaker's handshakeCompletedListener: a replaced        *)
(* pending connection emits nothing.                                       *)
ResponseOk(n, c) ==
    /\ Received(n, c, "ok")
    /\ wire' = Answer(n, c, IF pending[c][n] = "waiting" THEN Flushed(n, endpoint[n].buffer) ELSE << >>)
    /\ \/ /\ pending[c][n] = "waiting"
          /\ pending' = [pending EXCEPT ![c][n] = "stopped"]
          /\ managed' = [managed EXCEPT ![c][n] = "used"]
          /\ Connected(n, c, endpoint[n].buffer)
       \/ pending[c][n] # "waiting" /\ UNCHANGED <<pending, managed, endpoint, unsettled, connecting>>
    /\ UNCHANGED <<open, sockets, leaving, lockVars, takenOver, sends, socketFaults, disconnects>>

(* 'Wait for the other end to close the connection'                        *)
ResponseDuplicate(n, c) ==
    /\ Received(n, c, "duplicate")
    /\ wire' = Answer(n, c, << >>)
    /\ UNCHANGED <<endpoint, connecting, pending, managed, open, sockets, leaving, lockVars, takenOver, sends,
                   unsettled, socketFaults, disconnects>>

\* PendingConnection.close(), and what follows from its 'disconnected'
ClosePending(n, c) ==
    /\ pending' = [pending EXCEPT ![c][n] = "stopped"]
    /\ \/ /\ pending[c][n] = "waiting"
          /\ Disconnected(n)
          /\ connecting' = [connecting EXCEPT ![n] = NoSocket]
          /\ open' = [open EXCEPT ![c][n] = FALSE]
          /\ wire' = [wire EXCEPT ![c][n] = << >>, ![c][Other(n)] = Append(@, "close")]
       \/ /\ pending[c][n] = "replaced"
          /\ wire' = [wire EXCEPT ![c][n] = IF @ # << >> /\ Head(@) = "refused" THEN Tail(@) ELSE @]
          /\ UNCHANGED <<endpoint, unsettled, connecting, open, locks>>
    /\ UNCHANGED <<managed, sockets, leaving, privateMode, lockCalls, takenOver, sends>>

ResponseRefused(n, c) ==
    /\ Received(n, c, "refused")
    /\ ClosePending(n, c)
    /\ UNCHANGED <<stopping, socketFaults, disconnects>>

\* The timeout of a PendingConnection
PendingTimeout(n, c) ==
    /\ pending[c][n] \in {"waiting", "replaced"}
    /\ socketFaults < MaxSocketFaults /\ socketFaults' = socketFaults + 1
    /\ ~ Received(n, c, "refused")
    /\ ClosePending(n, c)
    /\ UNCHANGED <<stopping, disconnects>>
-----------------------------------------------------------------------------
(* The end n of c emits 'disconnected', to its pending connection and the  *)
(* client connector, or to its managed connection.                         *)
EndDisconnects(n, c) ==
    /\ open' = [open EXCEPT ![c][n] = FALSE]
    /\ pending' = [pending EXCEPT ![c][n] = IF @ = "none" THEN @ ELSE "stopped"]
    /\ managed' = [managed EXCEPT ![c][n] = "none"]
    /\ leaving' = [leaving EXCEPT ![n] = IF @ = c /\ managed[c][n] = "used" THEN NoSocket ELSE @]
    /\ connecting' = [connecting EXCEPT ![n] = IF @ = c THEN NoSocket ELSE @]
    /\ \/ /\ pending[c][n] = "waiting" \/ managed[c][n] = "used"
          /\ Disconnected(n)
       \/ /\ pending[c][n] # "waiting" /\ managed[c][n] # "used"
          /\ UNCHANGED <<endpoint, unsettled, locks>>

SocketClosed(n, c) ==
    /\ Received(n, c, "close")
    /\ wire' = Answer(n, c, << >>)
    /\ EndDisconnects(n, c)
    /\ UNCHANGED <<sockets, privateMode, lockCalls, stopping, takenOver, sends, socketFaults, disconnects>>

SocketLost(c) ==
    /\ \E n \in Ends : open[c][n]
    /\ socketFaults < MaxSocketFaults /\ socketFaults' = socketFaults + 1
    /\ wire' = [wire EXCEPT ![c] = [n \in Ends |-> Append(@[n], "close")]]
    /\ UNCHANGED <<endpoint, connecting, pending, managed, open, sockets, leaving, lockVars, takenOver, sends,
                   unsettled, disconnects>>

\* close() of the end n of c, with what n takes and sends before
CloseEnd(n, c, w) ==
    /\ EndDisconnects(n, c)
    /\ wire' = [w EXCEPT ![c][n] = << >>, ![c][Other(n)] = Append(@, "close")]
    /\ UNCHANGED <<sockets, privateMode, lockCalls, stopping, takenOver, sends, socketFaults>>

(* gracefullyDisconnectAsync(): a notice to the other end, and a wait for  *)
(* the connection's 'disconnected'                                         *)
GracefullyDisconnect(n) ==
    LET c == endpoint[n].socket IN
    /\ endpoint[n].at = "connected" /\ leaving[n] = NoSocket
    /\ leaving' = [leaving EXCEPT ![n] = c]
    /\ wire' = [wire EXCEPT ![c][Other(n)] = Append(@, "leave")]
    /\ UNCHANGED <<endpoint, connecting, pending, managed, open, sockets, locks, privateMode, lockCalls,
                   takenOver, sends, unsettled>>

(* Connections that are neither locked nor private may be collected.       *)
GarbageCollect(n) ==
    /\ ~IsLocked(n) /\ ~stopping[n]
    /\ disconnects < MaxDisconnects /\ disconnects' = disconnects + 1
    /\ GracefullyDisconnect(n)
    /\ UNCHANGED <<stopping, socketFaults>>

(* stop() asks no locks; a connection whose handshake is not completed is  *)
(* closed at once.                                                         *)
StopConnections(n) ==
    /\ ~stopping[n] /\ stopping' = [stopping EXCEPT ![n] = TRUE]
    /\ disconnects < MaxDisconnects /\ disconnects' = disconnects + 1
    /\ \/ GracefullyDisconnect(n)
       \/ /\ endpoint[n].at = "connecting" /\ pending[endpoint[n].socket][n] = "waiting"
          /\ ClosePending(n, endpoint[n].socket)
    /\ UNCHANGED socketFaults

\* After two seconds without that event the connection is closed.
DisconnectTimeout(n) ==
    LET c == leaving[n] IN
    /\ c # NoSocket
    /\ \/ managed[c][n] = "used" /\ CloseEnd(n, c, wire)
       \/ /\ managed[c][n] # "used" /\ leaving' = [leaving EXCEPT ![n] = NoSocket]
          /\ \/ /\ open[c][n] /\ open' = [open EXCEPT ![c][n] = FALSE]
                /\ wire' = [wire EXCEPT ![c][n] = << >>, ![c][Other(n)] = Append(@, "close")]
             \/ ~open[c][n] /\ UNCHANGED <<open, wire>>
          /\ UNCHANGED <<endpoint, connecting, pending, managed, unsettled, sockets, lockVars, takenOver, sends,
                         socketFaults>>
    /\ UNCHANGED disconnects

(* lockRequest(), unlockRequest() and setPrivate() of the other end's RPC  *)
(* act on its node id, whichever connection with it brought them; only a   *)
(* managed one hears them.                                                 *)
LockRpc(n, c) ==
    LET kind == Head(wire[c][n]) IN
    /\ open[c][n] /\ wire[c][n] # << >> /\ kind \in {"lock", "unlock", "private", "public"}
    /\ wire' = Answer(n, c, << >>)
    /\ locks' = CASE managed[c][n] = "none" -> locks
                  [] managed[c][n] # "none" /\ kind = "lock" -> Locked(n, "remote")
                  [] managed[c][n] # "none" /\ kind = "unlock" -> Unlocked(n, "remote")
                  [] managed[c][n] # "none" /\ kind = "private" ->
                        IF AllowIncomingPrivateConnections THEN Locked(n, "private") ELSE locks
                  [] managed[c][n] # "none" /\ kind = "public" -> Unlocked(n, "private")
    /\ UNCHANGED <<endpoint, connecting, pending, managed, open, sockets, leaving, privateMode,
                   lockCalls, stopping, takenOver, sends, unsettled, socketFaults, disconnects>>

(* gracefulDisconnect() of the other end's RPC: closeConnection() clears   *)
(* the locks and closes the endpoint's connection.                         *)
LeaveNoticed(n, c) ==
    LET used == endpoint[n].socket IN
    /\ Received(n, c, "leave")
    /\ \/ /\ managed[c][n] # "none" /\ endpoint[n].at = "connected"
          /\ CloseEnd(n, used, Answer(n, c, << >>))
       \/ /\ managed[c][n] # "none" /\ endpoint[n].at = "connecting" /\ pending[used][n] = "waiting"
          /\ CloseEnd(n, used, Answer(n, c, << >>))
       \/ /\ \/ managed[c][n] = "none" \/ endpoint[n].at = "none"
             \/ endpoint[n].at = "connecting" /\ pending[used][n] # "waiting"
          /\ wire' = Answer(n, c, << >>)
          /\ locks' = IF managed[c][n] = "none" THEN locks ELSE LocksCleared(n)
          /\ UNCHANGED <<endpoint, connecting, pending, managed, open, leaving, privateMode, lockCalls,
                         stopping, takenOver, unsettled, sockets, sends, socketFaults>>
    /\ UNCHANGED disconnects

ConnNext ==
    \/ \E n \in Ends :
          \/ SendData(n) \/ LockConnection(n) \/ UnlockConnection(n) \/ WeakLock(n) \/ SetPrivateMode(n)
          \/ GarbageCollect(n) \/ StopConnections(n) \/ DisconnectTimeout(n)
    \/ \E n \in Ends, c \in Sockets :
          \/ AcceptRequest(n, c) \/ RejectDuplicate(n, c) \/ RefuseRequest(n, c)
          \/ ResponseOk(n, c) \/ ResponseDuplicate(n, c) \/ ResponseRefused(n, c)
          \/ PendingTimeout(n, c) \/ SocketClosed(n, c) \/ LockRpc(n, c) \/ LeaveNoticed(n, c)
    \/ \E c \in Sockets : SocketLost(c)
-----------------------------------------------------------------------------
(* No send() is forgotten: a message whose send() has not settled is in    *)
(* the buffer of an endpoint that is connecting, through replacements,     *)
(* timeouts and losses of connections.                                     *)
SendsAreKept == unsettled = UNION {endpoint[n].buffer : n \in Ends}

\* Nothing is on the way, nobody waits for a closing connection.
Quiescent ==
    /\ \A c \in Sockets, n \in Ends : wire[c][n] = << >> \/ ~open[c][n]
    /\ leaving = [n \in Ends |-> NoSocket]

(* Two nodes that connect to each other at the same time end up with the   *)
(* same one connection, and neither of them waits in vain: as long as no   *)
(* socket is lost, refused, timed out or closed meanwhile (if one is, the  *)
(* replaced connection may be the one that the other end keeps).           *)
BothEndsAgree ==
    socketFaults = 0 /\ disconnects = 0 /\ Quiescent =>
       /\ \A n, m \in Ends : endpoint[n].at = endpoint[m].at /\ endpoint[n].socket = endpoint[m].socket
       /\ \A n \in Ends : endpoint[n].at # "connecting"

(* A lock that a node asked for goes with its connection: it is not there  *)
(* for the next one, which the other end knows nothing of.                 *)
LocksHaveConnections == \A n \in Ends : "local" \in locks[n] => endpoint[n].at # "none"

Joined(n) == endpoint[n].at = "connected" /\ endpoint[Other(n)] = endpoint[n]

(* When all is said, the ends of a connection agree on its locks, so that  *)
(* neither collects what the other has locked, and a node in private mode  *)
(* is known as such, through losses and new connections.  Exceptions: an   *)
(* established connection that is replaced passes on the locks of an end   *)
(* that has forgotten them; the mark of a private connection outlives the  *)
(* connection, and is taken back only over one.                            *)
LocksAgree ==
    Quiescent /\ ~takenOver => \A n \in Ends : Joined(n) =>
       /\ "local" \in locks[n] <=> "remote" \in locks[Other(n)]
       /\ AllowIncomingPrivateConnections /\ privateMode[n] => "private" \in locks[Other(n)]
       /\ "private" \in locks[Other(n)] /\ socketFaults = 0 /\ disconnects = 0 => privateMode[n]

(* A connection serves both its ends: what is sent while it is being made  *)
(* is kept until it can be sent, the ends agree on the one they use, and   *)
(* on who needs it.                                                        *)
ConnectionsServe == SendsAreKept /\ BothEndsAgree /\ LocksHaveConnections /\ LocksAgree
=============================================================================
