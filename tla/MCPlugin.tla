------------------------------- MODULE MCPlugin -------------------------------
(***************************************************************************)
(* The parts of the storage plugin that share no state with its write      *)
(* path, and the poller that tells it of assignments, are checked by one   *)
(* run: `active` says which of them moves in a behaviour, the others stay  *)
(* in one initial state.                                                   *)
(***************************************************************************)
EXTENDS SignedRequest, PomboGates, StorageReads, CassandraWatchdog, RetentionSchedule, ChainEventPoller, TLC

VARIABLE active

pluginVars == <<signedVars, pgVars, readVars, watchVars, vars, pollerVars, failoverVars, active>>

MCSignedTimes == 0 .. 6
\* Two listeners of two contracts; the second listener's event comes first, then both.
MCKind(l) == IF l = "l1" THEN <<"a", "s">> ELSE <<"b", "t">>
MCChains == {<<{<<"b", "t">>}, {<<"a", "s">>, <<"b", "t">>}>>}

PluginInit ==
    /\ active \in {"requests", "gates", "reads", "watchdog", "schedule", "polling", "failover"}
    /\ SignedInit /\ PgInit /\ ReadsInit /\ WatchInit /\ Init /\ PollerInit /\ FailoverInit
    /\ active # "reads" => bucketTable = {}
    /\ active # "gates" => chain[Gate] = "null"
    /\ active # "watchdog" => cassandra = "up"
    /\ active # "schedule" => clock = 0

PluginNext ==
    /\ UNCHANGED active
    /\ \/ active = "requests" /\ SignedNext
       \/ active = "gates" /\ PgNext
       \/ active = "reads" /\ ReadsNext
       \/ active = "watchdog" /\ WatchNext
       \/ active = "schedule" /\ Next
       \/ active = "polling" /\ PollerNext
       \/ active = "failover" /\ FailoverNext
    /\ active # "requests" => UNCHANGED signedVars
    /\ active # "gates" => UNCHANGED pgVars
    /\ active # "reads" => UNCHANGED readVars
    /\ active # "watchdog" => UNCHANGED watchVars
    /\ active # "schedule" => UNCHANGED vars
    /\ active # "polling" => UNCHANGED pollerVars
    /\ active # "failover" => UNCHANGED failoverVars

PluginSpec == PluginInit /\ [][PluginNext]_pluginVars

PluginSymmetry == Permutations(Slots) \cup Permutations(Providers)
=============================================================================
