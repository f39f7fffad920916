----------------------------- MODULE Connectivity -----------------------------
(***************************************************************************)
(* How a node finds out how others reach it: DhtNode.start(), the          *)
(* DefaultConnectorFacade, and its WebsocketServerConnector.               *)
(*                                                                         *)
(* The server socket listens on the first free port of a range; an entry   *)
(* point connects back to it, and what it reports becomes the peer         *)
(* descriptor of the node.  With TLS and no certificate of its own the     *)
(* node first shows a self-signed one, gets a certificate from the auto    *)
(* certifier and is checked again; when that fails it starts over with a   *)
(* server socket without TLS.  A started node connects to a peer itself,   *)
(* asks the peer to connect, or leaves it to WebRTC.  A node that is given *)
(* its own descriptor announces that one and is not modelled.              *)
(***************************************************************************)
EXTENDS Naturals, FiniteSetsExt

CONSTANTS
    Ports,          \* websocketPortRange
    MaxEntryPoints, MaxConnectivityFaults

ASSUME ConnectivityAssumption ==
    /\ Ports \subseteq Nat \ {0} /\ MaxEntryPoints \in Nat /\ MaxConnectivityFaults \in Nat

VARIABLES
    config,         \* options: port range, TLS certificate, TLS, and the number of entry points
    taken,          \* the ports other processes listen on
    phase, round,   \* where start() is, and in which of its connectivity checks
    tries,          \* the shuffled entry points that are left
    response,       \* ConnectivityResponse.websocket
    connectors,     \* the first WebsocketServerConnector and the one that replaces it
    current,
    nodeDescriptor, facadeDescriptor,
    certifier,      \* AutoCertifierClientFacade: none, running, or given up while its client goes on
    stopFailed,     \* has stop() thrown?
    peer, request,  \* a peer, and its entry of ongoingConnectRequests with the PendingConnection
    connectivityFaults

connectivityVars == <<config, taken, phase, round, tries, response, connectors, current, nodeDescriptor, facadeDescriptor,
                      certifier, stopFailed, peer, request, connectivityFaults>>
startVars == <<config, peer>>
linkVars == <<nodeDescriptor, facadeDescriptor, stopFailed, request>>

NoPort == 0
NoWebsocket == [host |-> "none", port |-> NoPort, tls |-> FALSE]
NewConnector(tls) == [tls |-> tls, listening |-> FALSE, selectedPort |-> NoPort, cert |-> "none", host |-> "address"]
NoConnectRequest == [ongoing |-> FALSE, pending |-> "none", arrived |-> FALSE]
StartSettled(outcome) == [ongoing |-> FALSE, pending |-> outcome, arrived |-> TRUE]

ConnectivityTypeOK ==
    /\ phase \in {"new", "listen", "check", "describe", "certify", "started", "failed", "stopped"}
    /\ round \in {"first", "certified", "plain"} /\ tries \in 0 .. MaxEntryPoints
    /\ connectors \in [1 .. 2 -> [tls : BOOLEAN, listening : BOOLEAN, selectedPort : Ports \cup {NoPort},
                                  cert : {"none", "given", "self", "certified"}, host : {"address", "name"}]]
    /\ current \in 1 .. 2 /\ taken \subseteq Ports
    /\ request.ongoing \in BOOLEAN /\ request.pending \in {"none", "waiting", "connected", "closed"}

ConnectivityInit ==
    /\ config \in [range : BOOLEAN, certificate : BOOLEAN, tls : BOOLEAN, entryPoints : 0 .. MaxEntryPoints]
    /\ taken \in SUBSET Ports
    /\ phase = "new" /\ round = "first" /\ tries = 0 /\ response = NoWebsocket
    /\ connectors = [k \in 1 .. 2 |-> NewConnector(FALSE)] /\ current = 1
    /\ nodeDescriptor = NoWebsocket /\ facadeDescriptor = NoWebsocket
    /\ certifier = "none" /\ stopFailed = FALSE
    /\ peer \in [browser : BOOLEAN, websocket : BOOLEAN, tls : BOOLEAN]
    /\ request = NoConnectRequest /\ connectivityFaults = 0

Connector == connectors[current]
ServesTls(c) == c.cert # "none"

-----------------------------------------------------------------------------
(* start().                                                                *)

StartNode ==
    /\ phase = "new"
    /\ phase' = "listen"
    /\ connectors' = [connectors EXCEPT ![1] = NewConnector(config.tls)]
    /\ UNCHANGED <<startVars, linkVars, taken, round, tries, response, current, certifier, connectivityFaults>>

\* A certificate of the node's own is used whether TLS is enabled or not.
CertificateShown == IF config.certificate THEN "given" ELSE IF Connector.tls THEN "self" ELSE "none"

Free == Ports \ taken

\* WebsocketServer.start(): on the first port of the range that is free.
Listening(c) == [tls |-> c.tls, listening |-> TRUE, selectedPort |-> Min(Free), cert |-> CertificateShown, host |-> c.host]
Closed(c) == [c EXCEPT !.listening = FALSE]

\* WebsocketServerConnector.start(): without a range there is no server socket, without a free port no start.
Listen ==
    /\ phase = "listen"
    /\ phase' = IF config.range /\ Free = {} THEN "failed" ELSE "check"
    /\ connectors' = IF config.range /\ Free # {} THEN [connectors EXCEPT ![current] = Listening(@)] ELSE connectors
    /\ tries' = config.entryPoints
    /\ UNCHANGED <<startVars, linkVars, taken, round, response, current, certifier, connectivityFaults>>

\* Without entry points the options are all there is to go by.
CheckWithoutEntryPoints ==
    /\ phase = "check" /\ config.entryPoints = 0
    /\ response' = [host |-> Connector.host, port |-> Connector.selectedPort, tls |-> config.certificate]
    /\ phase' = "describe"
    /\ UNCHANGED <<startVars, linkVars, taken, round, tries, connectors, current, certifier, connectivityFaults>>

\* connectivityProbe(): the entry point connects as it is told, with or without TLS; a self-signed certificate is
\* good enough before the node has got a better one.
ProbeSucceeds ==
    /\ Connector.listening
    /\ ServesTls(Connector) = (config.range /\ Connector.tls)
    /\ Connector.cert = "self" => round = "first" /\ ~config.certificate /\ config.tls

\* handleIncomingConnectivityRequest(): no probe without a port, and one that may always fail.
Responses ==
    {NoWebsocket} \cup
    {[host |-> Connector.host, port |-> port, tls |-> Connector.tls] :
        port \in {p \in {Connector.selectedPort} : p # NoPort /\ ProbeSucceeds}}

\* sendConnectivityRequest().
EntryPointAnswers ==
    /\ phase = "check" /\ tries > 0
    /\ response' \in Responses
    /\ phase' = "describe"
    /\ UNCHANGED <<startVars, linkVars, taken, round, tries, connectors, current, certifier, connectivityFaults>>

\* restartWebsocketServerConnector(): destroy() closes the server socket, the new one has no TLS.
Restarted ==
    /\ connectors' = [k \in 1 .. 2 |-> IF k = 2 THEN NewConnector(FALSE)
                                       ELSE IF k = current THEN Closed(connectors[k]) ELSE connectors[k]]
    /\ current' = 2 /\ round' = "plain" /\ phase' = "listen"

\* No connection, no answer in time, or another version; after the last entry point the check throws.
EntryPointFails ==
    /\ phase = "check" /\ tries > 0 /\ connectivityFaults < MaxConnectivityFaults
    /\ connectivityFaults' = connectivityFaults + 1
    /\ tries' = tries - 1
    /\ IF tries > 1 THEN UNCHANGED <<connectors, current, round, phase>>
       ELSE IF round = "certified" THEN Restarted
       ELSE phase' = "failed" /\ UNCHANGED <<connectors, current, round>>
    /\ UNCHANGED <<startVars, linkVars, taken, response, certifier>>

HasWebsocket(d) == d # NoWebsocket

\* Seeded fault: only the first check sets the descriptor the connectors use.
SetLocalPeerDescriptorOnce == IF round = "first" THEN response ELSE facadeDescriptor

\* setLocalPeerDescriptor(), unless the node turned out not to be reachable with its new certificate.
NotReachable == round = "certified" /\ ~HasWebsocket(response)
SetLocalPeerDescriptor == IF NotReachable THEN facadeDescriptor ELSE response

\* createLocalPeerDescriptor(): the DhtNode keeps the descriptor too.
CreateLocalPeerDescriptor == response

ToBeCertified == round = "first" /\ HasWebsocket(response) /\ ~config.certificate /\ config.tls

\* The rest of start() once the node has been checked.
Describe ==
    /\ phase = "describe"
    /\ nodeDescriptor' = CreateLocalPeerDescriptor
    /\ facadeDescriptor' = SetLocalPeerDescriptor
    /\ \/ ToBeCertified /\ phase' = "certify" /\ UNCHANGED <<connectors, current, round>>
       \/ NotReachable /\ Restarted
       \/ ~ToBeCertified /\ ~NotReachable /\ phase' = "started" /\ UNCHANGED <<connectors, current, round>>
    /\ UNCHANGED <<startVars, taken, tries, response, certifier, stopFailed, request, connectivityFaults>>

\* 'updatedCertificate': setHost() and updateCertificate() of the connector that asked.
WithCertificate(c) ==
    [tls |-> c.tls, listening |-> c.listening, selectedPort |-> c.selectedPort,
     cert |-> IF c.cert = "none" THEN "none" ELSE "certified", host |-> "name"]

AutoCertify ==
    /\ phase = "certify"
    /\ connectors' = [connectors EXCEPT ![1] = WithCertificate(@)]
    /\ certifier' = "running"
    /\ phase' = "check" /\ round' = "certified" /\ tries' = config.entryPoints
    /\ UNCHANGED <<startVars, linkVars, taken, response, current, connectivityFaults>>

\* start() of the client rejects, or does not come to an end in START_TIMEOUT.
AutoCertifyFails ==
    /\ phase = "certify"
    /\ Restarted
    /\ certifier' = "given up"
    /\ UNCHANGED <<startVars, linkVars, taken, tries, response, connectivityFaults>>

\* The certificate of a client that was given up: its connector is not in use any more.
LateCertificate ==
    /\ certifier = "given up"
    /\ connectors' = [connectors EXCEPT ![1] = WithCertificate(@)]
    /\ certifier' = "running"
    /\ UNCHANGED <<startVars, linkVars, taken, phase, round, tries, response, current, connectivityFaults>>

PortTaken(port) ==
    /\ port \notin taken /\ connectivityFaults < MaxConnectivityFaults
    /\ \A k \in 1 .. 2 : connectors[k].listening => connectors[k].selectedPort # port
    /\ taken' = taken \cup {port} /\ connectivityFaults' = connectivityFaults + 1
    /\ UNCHANGED <<startVars, linkVars, phase, round, tries, response, connectors, current, certifier>>

\* stop() of a started node: its connect request is closed and its server socket with it.
StopDhtNode ==
    /\ phase = "started" /\ ~stopFailed
    /\ phase' = "stopped"
    /\ connectors' = [connectors EXCEPT ![current] = Closed(@)]
    /\ request' = IF request.ongoing THEN StartSettled("closed") ELSE request
    /\ UNCHANGED <<startVars, taken, round, tries, response, current, nodeDescriptor, facadeDescriptor, certifier,
                   stopFailed, connectivityFaults>>

\* stop() before start() has made the StoreManager throws, and does nothing when it is called again.
StopTooEarly ==
    /\ phase \in {"listen", "check", "describe", "certify"} /\ ~stopFailed
    /\ stopFailed' = TRUE
    /\ UNCHANGED <<startVars, taken, phase, round, tries, response, connectors, current, nodeDescriptor, facadeDescriptor,
                   certifier, request, connectivityFaults>>

-----------------------------------------------------------------------------
(* Connecting to a peer.                                                   *)

\* A browser opens no connection without TLS to a public address.
CanOpen(browser, tls) == ~browser \/ tls

\* expectedConnectionType() of one end, given the type of both and their websocket servers.
ExpectedConnectionType(localBrowser, localWs, localTls, remoteBrowser, remoteWs, remoteTls) ==
    IF remoteWs /\ CanOpen(localBrowser, remoteTls) THEN "client"
    ELSE IF localWs /\ CanOpen(remoteBrowser, localTls) THEN "server"
    ELSE "webrtc"

ConnectionTo ==
    ExpectedConnectionType(FALSE, HasWebsocket(facadeDescriptor), facadeDescriptor.tls, peer.browser, peer.websocket, peer.tls)

\* createConnection(): requestConnectionFromPeer(); the other two kinds are those of ConnectionManager and Webrtc.
RequestConnectionFromPeer ==
    /\ phase = "started" /\ request = NoConnectRequest /\ ConnectionTo = "server"
    /\ request' = [ongoing |-> TRUE, pending |-> "waiting", arrived |-> FALSE]
    /\ UNCHANGED <<startVars, taken, phase, round, tries, response, connectors, current, nodeDescriptor, facadeDescriptor,
                   certifier, stopFailed, connectivityFaults>>

\* requestConnection() at the peer, whose client connector then connects, if it has no connection with the node.
PeerIsAsked ==
    /\ request.ongoing /\ ~request.arrived
    /\ request' = [request EXCEPT !.arrived = TRUE]
    /\ UNCHANGED <<startVars, taken, phase, round, tries, response, connectors, current, nodeDescriptor, facadeDescriptor,
                   certifier, stopFailed, connectivityFaults>>

\* The peer has connected: onServerSocketHandshakeRequest() accepts the handshake on the PendingConnection of the
\* request, or refuses it; delFunc() either way.
PeerConnects ==
    /\ phase = "started" /\ request.ongoing /\ request.arrived
    /\ \E outcome \in {"connected", "closed"} : request' = StartSettled(outcome)
    /\ UNCHANGED <<startVars, taken, phase, round, tries, response, connectors, current, nodeDescriptor, facadeDescriptor,
                   certifier, stopFailed, connectivityFaults>>

\* The notification was lost, or the peer could not connect: the PendingConnection closes by itself.
ConnectRequestTimesOut ==
    /\ request.pending = "waiting"
    /\ request' = StartSettled("closed")
    /\ UNCHANGED <<startVars, taken, phase, round, tries, response, connectors, current, nodeDescriptor, facadeDescriptor,
                   certifier, stopFailed, connectivityFaults>>

-----------------------------------------------------------------------------
ConnectivityNext ==
    \/ StartNode \/ Listen \/ CheckWithoutEntryPoints \/ EntryPointAnswers \/ EntryPointFails \/ Describe
    \/ AutoCertify \/ AutoCertifyFails \/ LateCertificate \/ StopDhtNode \/ StopTooEarly
    \/ \E port \in Ports : PortTaken(port)
    \/ RequestConnectionFromPeer \/ PeerIsAsked \/ PeerConnects \/ ConnectRequestTimesOut

ConnectivitySpec == ConnectivityInit /\ [][ConnectivityNext]_connectivityVars

-----------------------------------------------------------------------------
(* Correctness.                                                            *)

\* The server socket is what the descriptor says: the port, TLS or not, with TLS a certificate that others accept
\* and, if it is one of the auto certifier, the name it is for.
IsServed(d) ==
    /\ Connector.listening /\ Connector.selectedPort = d.port /\ ServesTls(Connector) = d.tls
    /\ Connector.cert # "self" /\ (Connector.cert = "certified" <=> d.host = "name")

\* A started node announces a server socket only as it serves it, whichever way its start went: its DhtNode and its
\* connectors use the same descriptor, the socket of that descriptor listens, and a peer that is asked to connect to it
\* can, and would not ask in turn.  (A node without entry points announces what its options say; with TLS and no
\* certificate of its own that is a socket without TLS, which it does not have.)
AnnouncesWhatItServes ==
    phase = "started" /\ config.entryPoints > 0 =>
        /\ facadeDescriptor = nodeDescriptor
        /\ HasWebsocket(facadeDescriptor) => IsServed(facadeDescriptor)
        /\ request.ongoing =>
             /\ HasWebsocket(facadeDescriptor) /\ CanOpen(peer.browser, ServesTls(Connector))
             /\ ExpectedConnectionType(peer.browser, peer.websocket, peer.tls, FALSE, TRUE, facadeDescriptor.tls) = "client"
=============================================================================
