----------------------------- MODULE Autostaker -----------------------------
(***************************************************************************)
(* The autostaker: on a timer, and whenever a sponsorship is created, the  *)
(* leader node asks The Graph for the stakes of its operator, the          *)
(* sponsorships it may stake to and the undelegation queue, plans the      *)
(* stakes in proportion to the payouts, and broadcasts one transaction per *)
(* change, with consecutive nonces, without waiting for them to be mined.  *)
(* The contract keeps the undelegation queue's amount out of reach and     *)
(* refuses stakes below the minimum.                                       *)
(***************************************************************************)
EXTENDS Integers, Sequences, SequencesExt, FiniteSetsExt

CONSTANTS
    Ids,                \* the sponsorships, in the order of their ids
    Full,               \* those that have all the operators they take
    InitialStakes, InitialPayouts, InitialFunds, InitialQueues,     \* what the operator may begin with
    MaxSponsorships,    \* maxSponsorshipCount
    MinTransaction,     \* minTransactionDataTokenAmount
    MinStake,           \* minimumStakeWei
    MaxNonce, MaxChanges, MaxSubmitFaults       \* bounds

Id == ToSet(Ids)

ASSUME AutostakerAssumption ==
    /\ IsInjective(Ids) /\ Full \subseteq Id /\ MinTransaction \in Nat /\ MinStake \in Nat \ {0} /\ MaxSponsorships \in Nat
    /\ MaxNonce \in Nat /\ MaxChanges \in Nat /\ MaxSubmitFaults \in Nat

VARIABLES
    stakes, funds, queue,   \* the operator contract: staked, not staked, queued for undelegation
    payouts,                \* payoutPerSec of what can be staked to, 0 if it cannot
    indexed,                \* the stakes The Graph knows
    run,                    \* triggerRun(): the plan of the run under way
    nonce, mempool,         \* transactions mined, and those broadcast after them
    changes, submitFaults   \* counters

contractVars == <<stakes, funds, queue>>
autostakerVars == <<contractVars, payouts, indexed, run, nonce, mempool, changes, submitFaults>>

IdleRun == [running |-> FALSE, plan |-> <<>>, first |-> 0, at |-> <<>>, fresh |-> FALSE, reverted |-> FALSE]
Total(f) == MapThenSumSet(LAMBDA s : f[s], DOMAIN f)

AutostakerTypeOK ==
    /\ stakes \in [Id -> Nat] /\ funds \in Nat /\ queue \in Nat
    /\ payouts \in [Id -> Nat] /\ indexed \in [Id -> Nat]
    /\ nonce \in 0 .. MaxNonce /\ DOMAIN mempool \subseteq nonce .. MaxNonce
    /\ Len(run.at) = Len(run.plan)

AutostakerInit ==
    /\ stakes \in InitialStakes /\ payouts \in InitialPayouts /\ funds \in InitialFunds /\ queue \in InitialQueues
    /\ queue <= funds + Total(stakes)
    /\ indexed = stakes /\ run = IdleRun /\ nonce = 0 /\ mempool = <<>> /\ changes = 0 /\ submitFaults = 0

-----------------------------------------------------------------------------
(* payoutProportionalStrategy: v is what the run sees.                     *)

\* BigInt division and Array.slice(0, n).
Div(a, b) == IF a < 0 THEN -((-a) \div b) ELSE a \div b
Slice(s, n) == IF n < 0 THEN SubSeq(s, 1, Len(s) + n) ELSE SubSeq(s, 1, Min({n, Len(s)}))

TotalStakeable(v) == Total(v.stakes) + v.unstaked - v.queue

\* Those it has a stake in first, then the others by their payout; as many as it can afford.
GetSelectedSponsorships(v) ==
    LET stakeable == SelectSeq(Ids, LAMBDA s : v.payouts[s] > 0)
        kept == SelectSeq(stakeable, LAMBDA s : v.stakes[s] > 0)
        potential == SelectSeq(stakeable, LAMBDA s : v.stakes[s] = 0)
        count == Min({Len(stakeable), MaxSponsorships, Div(TotalStakeable(v), MinStake)})
    IN  Slice(kept \o SortSeq(potential, LAMBDA s, t : v.payouts[s] > v.payouts[t]), count)

\* The changes toward the target stakes: the minimum and a share by payout for the selected, 0 for the others.
GetTargetStakes(v) ==
    LET selected == GetSelectedSponsorships(v)
        proportional == TotalStakeable(v) - Len(selected) * MinStake
        payoutSum == MapThenSumSet(LAMBDA s : v.payouts[s], ToSet(selected))
        unselected == SelectSeq(Ids, LAMBDA s : v.stakes[s] > 0 /\ s \notin ToSet(selected))
        target(s) == IF s \in ToSet(selected) THEN MinStake + Div(proportional * v.payouts[s], payoutSum) ELSE 0
        keys == selected \o unselected
    IN  [i \in 1 .. Len(keys) |-> [of |-> keys[i], difference |-> target(keys[i]) - v.stakes[keys[i]]]]

\* Changes of nothing, and too small ones unless the sponsorship has expired, are left out.
WorthIt(v, a) ==
    /\ a.difference # 0
    /\ v.payouts[a.of] > 0 => (IF a.difference < 0 THEN -a.difference ELSE a.difference) >= MinTransaction

SumOf(adjustments) == MapThenSumSet(LAMBDA i : adjustments[i].difference, DOMAIN adjustments)
Stakings(adjustments) == SelectSeq(adjustments, LAMBDA a : a.difference > 0)

\* Seeded fault: the undelegation queue counts as available.
ExcessIgnoresQueue(v, adjustments) == SumOf(adjustments) - v.unstaked

\* How much more would be staked than is available.
Excess(v, adjustments) == SumOf(adjustments) - v.unstaked + v.queue

\* How much a staking may be reduced.
Allowance(v, a) == Max({a.difference - Max({MinTransaction, IF v.stakes[a.of] > 0 THEN 0 ELSE MinStake}), 0})
TotalAllowance(v, adjustments) ==
    LET s == Stakings(adjustments) IN MapThenSumSet(LAMBDA i : Allowance(v, s[i]), DOMAIN s)

\* The adjustments without the k smallest stakings.
WithoutSmallest(adjustments, k) ==
    LET smallest == SubSeq(SortSeq(Stakings(adjustments), LAMBDA a, b : a.difference < b.difference), 1, k)
    IN  SelectSeq(adjustments, LAMBDA a : a \notin ToSet(smallest))

\* The smallest stakings are dropped until the others can be reduced by the excess; they are, in their order.
Balanced(v, adjustments) ==
    LET n == Len(Stakings(adjustments))
        enough(k) == LET rest == WithoutSmallest(adjustments, k)
                     IN  k = n \/ Excess(v, rest) <= Max({0, TotalAllowance(v, rest)})
        kept == WithoutSmallest(adjustments, Min({k \in 0 .. n : enough(k)}))
        excess == Max({0, Excess(v, kept)})
        before(i) == MapThenSumSet(LAMBDA j : IF kept[j].difference > 0 THEN Allowance(v, kept[j]) ELSE 0, 1 .. i - 1)
    IN  [i \in DOMAIN kept |->
           IF kept[i].difference < 0 THEN kept[i]
           ELSE [kept[i] EXCEPT !.difference = @ - Max({0, Min({Allowance(v, kept[i]), excess - before(i)})})]]

\* adjustStakes(): the unstakings come first.
AdjustStakes(v) ==
    LET balanced == Balanced(v, SelectSeq(GetTargetStakes(v), LAMBDA a : WorthIt(v, a)))
    IN  SelectSeq(balanced, LAMBDA a : a.difference < 0) \o Stakings(balanced)

-----------------------------------------------------------------------------
(* The plugin.                                                             *)

\* The Graph's answers; the stakes may lag.
GetMyCurrentStakes == {stakes, indexed}
GetUndelegationQueueAmount == queue

\* A full sponsorship is left out, unless the operator is in it.
GetStakeableSponsorships(known) == [s \in Id |-> IF s \in Full /\ known[s] = 0 THEN 0 ELSE payouts[s]]

\* What is not staked is the value in the contract less what The Graph says is staked.
View(known) == [stakes |-> known, payouts |-> GetStakeableSponsorships(known), queue |-> GetUndelegationQueueAmount,
                unstaked |-> funds + Total(stakes) - Total(known)]

\* The timer or sponsorshipCreated, if no run is under way and this node is the leader.
TriggerRun ==
    /\ ~run.running
    /\ \E known \in GetMyCurrentStakes :
         LET plan == AdjustStakes(View(known))
         IN  /\ nonce + Len(plan) <= MaxNonce
             /\ run' = [running |-> plan # <<>>, plan |-> plan, first |-> nonce, at |-> [i \in DOMAIN plan |-> "ready"],
                        fresh |-> known = stakes /\ mempool = <<>>, reverted |-> FALSE]
    /\ UNCHANGED <<contractVars, payouts, indexed, nonce, mempool, changes, submitFaults>>

NonceOf(i) == run.first + i - 1
WithEnded(r) == IF \A i \in DOMAIN r.at : r.at[i] \in {"mined", "failed"} THEN [r EXCEPT !.running = FALSE] ELSE r

\* stake() sends the amount, unstake() what is left of the stake it reads.
Transaction(a) ==
    IF a.difference > 0 THEN [type |-> "stake", of |-> a.of, amount |-> a.difference]
    ELSE [type |-> "reduceStakeTo", of |-> a.of, amount |-> stakes[a.of] + a.difference]

\* submitActionWithRetry(): broadcast, or refused because the nonce is taken; the last retry may fail too.
SubmitAction(i) ==
    /\ run.running /\ run.at[i] = "ready"
    /\ \/ /\ NonceOf(i) \notin DOMAIN mempool /\ NonceOf(i) >= nonce
          /\ mempool' = [n \in DOMAIN mempool \cup {NonceOf(i)} |->
                           IF n = NonceOf(i) THEN Transaction(run.plan[i]) ELSE mempool[n]]
          /\ run' = [run EXCEPT !.at[i] = "sent"]
          /\ UNCHANGED submitFaults
       \/ /\ NonceOf(i) \in DOMAIN mempool \/ NonceOf(i) < nonce
          /\ run' = WithEnded([run EXCEPT !.at[i] = "failed", !.fresh = FALSE])
          /\ UNCHANGED <<mempool, submitFaults>>
       \/ /\ submitFaults < MaxSubmitFaults /\ submitFaults' = submitFaults + 1
          /\ run' = WithEnded([run EXCEPT !.at[i] = "failed", !.fresh = FALSE])
          /\ UNCHANGED mempool
    /\ UNCHANGED <<contractVars, payouts, indexed, nonce, changes>>

\* External: the contract accepts the transaction, or it is reverted.
Accepted(t) ==
    IF t.type = "stake" THEN /\ t.amount <= funds - queue /\ stakes[t.of] + t.amount >= MinStake
                             /\ t.of \in Full => stakes[t.of] > 0
    ELSE t.amount = 0 \/ t.amount \in MinStake .. stakes[t.of]

\* External: the transaction of the next nonce is mined.
Mine ==
    /\ nonce \in DOMAIN mempool
    /\ LET t == mempool[nonce]
           now == IF t.type = "stake" THEN stakes[t.of] + t.amount ELSE t.amount
           mine == {i \in DOMAIN run.at : run.running /\ NonceOf(i) = nonce /\ run.at[i] = "sent"}
       IN  /\ IF Accepted(t) THEN /\ stakes' = [stakes EXCEPT ![t.of] = now]
                                  /\ funds' = funds + stakes[t.of] - now
                             ELSE UNCHANGED <<stakes, funds>>
           /\ run' = WithEnded([run EXCEPT !.at = [i \in DOMAIN @ |-> IF i \in mine THEN "mined" ELSE @[i]],
                                           !.reverted = @ \/ (mine # {} /\ ~Accepted(t))])
    /\ nonce' = nonce + 1
    /\ mempool' = [n \in DOMAIN mempool \ {nonce} |-> mempool[n]]
    /\ UNCHANGED <<queue, payouts, indexed, changes, submitFaults>>

\* The receipt does not come in TRANSACTION_TIMEOUT: the transaction stays in the mempool.
ReceiptTimeout(i) ==
    /\ run.running /\ run.at[i] = "sent" /\ nonce \notin DOMAIN mempool
    /\ \A j \in DOMAIN run.at : run.at[j] # "ready"
    /\ run' = WithEnded([run EXCEPT !.at[i] = "failed"])
    /\ UNCHANGED <<contractVars, payouts, indexed, nonce, mempool, changes, submitFaults>>

\* External: The Graph indexes what was mined.
IndexCatchesUp ==
    /\ indexed # stakes
    /\ indexed' = stakes
    /\ UNCHANGED <<contractVars, payouts, run, nonce, mempool, changes, submitFaults>>

\* Others act meanwhile: they delegate, ask their delegation back, deploy a sponsorship; one runs out of tokens.
WorldChanges ==
    /\ changes < MaxChanges /\ changes' = changes + 1
    /\ run' = [run EXCEPT !.fresh = FALSE]
    /\ UNCHANGED <<stakes, indexed, nonce, mempool, submitFaults>>

Delegate ==
    /\ WorldChanges
    /\ funds' = funds + 1
    /\ UNCHANGED <<queue, payouts>>

Undelegate ==
    /\ WorldChanges
    /\ queue < funds + Total(stakes) /\ queue' = queue + 1
    /\ UNCHANGED <<funds, payouts>>

DeploySponsorshipContract(s) ==
    /\ WorldChanges
    /\ payouts[s] = 0 /\ stakes[s] = 0 /\ payouts' = [payouts EXCEPT ![s] = 1]
    /\ UNCHANGED <<funds, queue>>

\* External.
SponsorshipExpires(s) ==
    /\ WorldChanges
    /\ payouts[s] > 0 /\ payouts' = [payouts EXCEPT ![s] = 0]
    /\ UNCHANGED <<funds, queue>>

AutostakerNext ==
    \/ TriggerRun \/ Mine \/ IndexCatchesUp \/ Delegate \/ Undelegate
    \/ \E s \in Id : DeploySponsorshipContract(s) \/ SponsorshipExpires(s)
    \/ \E i \in DOMAIN run.plan : SubmitAction(i) \/ ReceiptTimeout(i)

AutostakerSpec == AutostakerInit /\ [][AutostakerNext]_autostakerVars

-----------------------------------------------------------------------------
\* A plan made from the stakes of the moment is executed to the end: as long as nobody else acts, the contract
\* refuses none of its transactions, in the order of their nonces, and once it is executed the stakes are
\* settled: the next plan is empty.
FreshPlanSettles ==
    run.fresh =>
      /\ ~run.reverted
      /\ (run.plan # <<>> /\ ~run.running /\ mempool = <<>>) => AdjustStakes(View(stakes)) = <<>>
=============================================================================
