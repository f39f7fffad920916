------------------------------ MODULE MCClient ------------------------------
(***************************************************************************)
(* The parts of the client SDK and of the operator's services are checked  *)
(* by one run: `active` says which of them moves in a behaviour, the       *)
(* others stay in one initial state.                                       *)
(***************************************************************************)
EXTENDS StreamParts, NodeFacade, EncryptionKeys, Subscriptions, Registries, Operator,
        Autostaker, TLC

VARIABLE active

clientSuiteVars ==
    <<partVars, facadeVars, keyVars, subscriptionVars, resendVars, registryVars, fleetVars, dutyVars,
      autostakerVars, active>>

\* Two sponsorships of one stream, whose two parts rank the two nodes differently.
MCStreamOf == [s \in Sponsorship |-> "x"]
MCPartsOf == [x \in {"x"} |-> {"x0", "x1"}]
MCRank == [x0 |-> <<"n", "me">>, x1 |-> <<"me", "n">>]
MCStakeEvents == <<[kind |-> "staked", of |-> "s1"]>>
\* Three sponsorships: stakes below and above the minimum, payouts that change their order.
MCIds == <<"s1", "s2", "s3">>
MCStakes == {[s1 |-> a, s2 |-> b, s3 |-> 0] : a \in {0, 3}, b \in {0, 2}}
MCPayouts == {[s1 |-> a, s2 |-> b, s3 |-> c] : a \in {0, 1}, b \in {1, 3}, c \in {0, 1}}

ClientInit ==
    /\ active \in {"parts", "node", "keys", "subscriptions", "resend", "registries", "fleet",
                   "inspections", "values", "autostaker"}
    /\ StreamPartsInit /\ NodeFacadeInit /\ EncryptionKeysInit
    /\ SubscriptionsInit /\ ResendInit /\ RegistriesInit /\ OperatorFleetInit /\ OperatorDutiesInit
    /\ AutostakerInit
    /\ active # "parts" => ~knownEntryPoints
    /\ active # "keys" => signer = "user"
    /\ active # "resend" => orderMessages /\ stored = 0
    /\ active # "registries" => ~chain.exists /\ mapping = "metadataCache"
    /\ active # "autostaker" => /\ funds = 0 /\ queue = 0
                                /\ stakes = [s1 |-> 0, s2 |-> 0, s3 |-> 0]
                                /\ payouts = [s1 |-> 0, s2 |-> 1, s3 |-> 0]

ClientNext ==
    /\ UNCHANGED active
    /\ \/ active = "parts" /\ StreamPartsNext
       \/ active = "node" /\ FacadeNext
       \/ active = "keys" /\ EncryptionKeysNext
       \/ active = "subscriptions" /\ SubscriptionsNext
       \/ active = "resend" /\ ResendNext
       \/ active = "registries" /\ RegistriesNext
       \/ active = "fleet" /\ OperatorFleetNext
       \/ active = "inspections" /\ InspectionNext
       \/ active = "values" /\ ValueNext
       \/ active = "autostaker" /\ AutostakerNext
    /\ active # "parts" => UNCHANGED partVars
    /\ active # "node" => UNCHANGED facadeVars
    /\ active # "keys" => UNCHANGED keyVars
    /\ active # "subscriptions" => UNCHANGED subscriptionVars
    /\ active # "resend" => UNCHANGED resendVars
    /\ active # "registries" => UNCHANGED registryVars
    /\ active # "fleet" => UNCHANGED fleetVars
    /\ active \notin {"inspections", "values"} => UNCHANGED dutyVars
    /\ active # "autostaker" => UNCHANGED autostakerVars

ClientSpec == ClientInit /\ [][ClientNext]_clientSuiteVars

ClientSymmetry == Permutations(Reader) \cup Permutations(Write)
=============================================================================
