----------------------------- MODULE MCDelivery -----------------------------
(***************************************************************************)
(* The parts that carry the messages of a stream part to its readers are   *)
(* checked by one run: `active` says which of them moves in a behaviour,   *)
(* the others stay in one initial state.                                   *)
(***************************************************************************)
EXTENDS Rpc, Neighbors, Delivery, Plumtree, ProxyClient, GapFilling

VARIABLE active

messagingVars == <<rpcVars, neighborVars, deliveryVars, inspectionVars, plumtreeVars, proxyVars,
                   gapVars, active>>

MCChain == <<<<1, 0>>, <<1, 1>>, <<2, 0>>, <<3, 0>>, <<3, 1>>>>
\* The newcomer wants three neighbours, so that it asks for interleaving.
MCTarget == [n \in Nodes |-> IF n = Newcomer THEN 3 ELSE 2]

MessagingInit ==
    /\ active \in {"rpc", "neighbors", "delivery", "inspection", "plumtree", "proxy", "gaps"}
    /\ RpcInit /\ NeighborsInit /\ DeliveryInit /\ InspectionInit /\ PlumtreeInit /\ ProxyInit /\ GapFillingInit
    /\ active # "delivery" => ~own
    /\ active # "gaps" => strategy = "full" /\ storedMessages = {}

MessagingNext ==
    /\ UNCHANGED active
    /\ \/ active = "rpc" /\ RpcNext
       \/ active = "neighbors" /\ NeighborsNext
       \/ active = "delivery" /\ DeliveryNext
       \/ active = "inspection" /\ InspectionNext
       \/ active = "plumtree" /\ PlumtreeNext
       \/ active = "proxy" /\ ProxyNext
       \/ active = "gaps" /\ GapFillingNext
    /\ active # "rpc" => UNCHANGED rpcVars
    /\ active # "neighbors" => UNCHANGED neighborVars
    /\ active # "delivery" => UNCHANGED deliveryVars
    /\ active # "inspection" => UNCHANGED inspectionVars
    /\ active # "plumtree" => UNCHANGED plumtreeVars
    /\ active # "proxy" => UNCHANGED proxyVars
    /\ active # "gaps" => UNCHANGED gapVars

MessagingSpec == MessagingInit /\ [][MessagingNext]_messagingVars
=============================================================================
