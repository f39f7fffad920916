------------------------------ MODULE MCNetwork ------------------------------
(***************************************************************************)
(* The layers of the DHT and its connections are checked by one run:       *)
(* `active` says which of them moves in a behaviour, the others stay in    *)
(* one initial state.                                                      *)
(***************************************************************************)
EXTENDS ConnectionManager, Routing, PeerDiscovery, DhtStore, Webrtc, AutoCertifier, Connectivity, TLC

VARIABLE active

\* With locks in play, fewer messages and losses.
MaxLockSends == 2
MaxLockFaults == 1

networkVars ==
    <<connVars, routingVars, discoveryVars, storeVars, webrtcVars, certifierVars, connectivityVars, active>>

\* Node 5 knows 3 and 4; the rest of the graph is any subset of some links.
MCTopologies ==
    {{{5, 3}, {5, 4}} \cup t : t \in SUBSET {{3, 1}, {4, 2}, {1, 2}, {0, 1}}}
\* Every peer knows every other one.
MCKnows == [n \in Peers |-> Peers \ {n}]

NetworkInit ==
    /\ active \in {"connections", "locks", "routing", "discovery", "store", "webrtc", "channel", "certifier", "start"}
    /\ ConnInit /\ RoutingInit /\ DiscoveryInit /\ DhtStoreInit /\ WebrtcInit /\ CertifierInit /\ ConnectivityInit
    /\ active # "routing" => links = {{5, 3}, {5, 4}} /\ mode = "route"
    /\ active # "certifier" => ~route53
    /\ active # "start" => /\ taken = {}
                           /\ config = [range |-> FALSE, certificate |-> FALSE, tls |-> FALSE, entryPoints |-> 0]
                           /\ peer = [browser |-> FALSE, websocket |-> FALSE, tls |-> FALSE]

NetworkNext ==
    /\ UNCHANGED active
    /\ \/ active = "connections" /\ ConnNext /\ UNCHANGED lockCalls
       \/ active = "locks" /\ ConnNext /\ Len(sends') <= MaxLockSends /\ socketFaults' <= MaxLockFaults
       \/ active = "routing" /\ RoutingNext
       \/ active = "discovery" /\ DiscoveryNext
       \/ active = "store" /\ DhtStoreNext
       \/ active = "webrtc" /\ WebrtcNext
       \/ active = "channel" /\ ChannelNext
       \/ active = "certifier" /\ CertifierNext
       \/ active = "start" /\ ConnectivityNext
    /\ active \notin {"connections", "locks"} => UNCHANGED connVars
    /\ active # "routing" => UNCHANGED routingVars
    /\ active # "discovery" => UNCHANGED discoveryVars
    /\ active # "store" => UNCHANGED storeVars
    /\ active \notin {"webrtc", "channel"} => UNCHANGED webrtcVars
    /\ active # "certifier" => UNCHANGED certifierVars
    /\ active # "start" => UNCHANGED connectivityVars

NetworkSpec == NetworkInit /\ [][NetworkNext]_networkVars

NetworkSymmetry == Permutations(Address)
=============================================================================
