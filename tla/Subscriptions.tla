--------------------------- MODULE Subscriptions ----------------------------
(***************************************************************************)
(* The subscriptions of a client to one stream part.  The Subscriber keeps *)
(* a SubscriptionSession per part: the session joins the part in the node  *)
(* when it gets its first subscription and leaves it, for good, when it    *)
(* loses its last one.  A Scaffold serializes those steps and looks again  *)
(* after each one.  Messages of the node go to the raw subscriptions as    *)
(* they are and through the session's pipeline, where they are validated   *)
(* and decrypted, to the others.                                           *)
(***************************************************************************)
EXTENDS Naturals, Sequences, FiniteSets, SequencesExt

CONSTANTS
    Sub, Raw,       \* the subscriptions, and the raw ones
    ForContract,    \* those made on behalf of an ERC-1271 contract
    MaxSessions,
    Message,        \* 1 .. n, in the order in which they arrive
    Invalid         \* the messages that cannot be validated or decrypted

ASSUME SubscriptionsAssumption ==
    /\ Raw \subseteq Sub /\ ForContract \subseteq Sub
    /\ MaxSessions \in Nat /\ Message \subseteq Nat /\ Invalid \subseteq Message

VARIABLES
    sessions,       \* in the order in which they were made
    subSession,     \* the one in subSessions, 0 if none
    sub,            \* where each subscription is
    received,       \* what each subscription was given
    errors,         \* the messages whose error each subscription was told
    messagesCame,   \* how many messages the node received
    sentTo,         \* for each message, the subscriptions that were there when it came
    partState       \* whether the node is "in" the part, "out" of it or "leaving" it

subscriptionVars == <<sessions, subSession, sub, received, errors, messagesCame, sentTo, partState>>

NewSubSession == [subs |-> {}, listeners |-> 0, stopped |-> FALSE, up |-> FALSE, step |-> "check",
               failed |-> FALSE, runs |-> <<>>, pipeline |-> <<>>, leaves |-> FALSE, lostJoin |-> FALSE]

SubscriptionsTypeOK ==
    /\ subSession \in 0 .. Len(sessions)
    /\ \A i \in 1 .. Len(sessions) :
         /\ sessions[i].subs \subseteq Sub
         /\ sessions[i].step \in {"check", "joining", "leaving"}
         /\ sessions[i].runs \in Seq([sub : Sub, call : {"add", "remove"}])
    /\ \A s \in Sub : sub[s].at \in {"new", "adding", "active", "ending", "removing", "rejected", "done"}
    /\ partState \in {"in", "out", "leaving"}

SubscriptionsInit ==
    /\ sessions = <<>> /\ subSession = 0
    /\ sub = [s \in Sub |-> [at |-> "new", session |-> 0, late |-> FALSE]]
    /\ received = [s \in Sub |-> <<>>] /\ errors = [s \in Sub |-> {}]
    /\ messagesCame = 0 /\ sentTo = [m \in Message |-> {}]
    /\ partState = "out"

-----------------------------------------------------------------------------
(* subscribe() and unsubscribe().                                          *)

\* getERC1271ContractAddress() of the session differs from that of the subscription.
ContractMismatch(session, s) ==
    session.subs # {} /\ (session.subs \cap ForContract # {}) # (s \in ForContract)

\* Subscriber.add(): the session of the part, a new one if there is none.
AddSubscription(s) ==
    LET i == IF subSession # 0 THEN subSession ELSE Len(sessions) + 1
        ss == IF subSession # 0 THEN sessions ELSE Append(sessions, NewSubSession)
    IN  /\ sub[s].at = "new" /\ i <= MaxSessions
        /\ subSession' = i
        /\ IF ContractMismatch(ss[i], s)
           THEN sub' = [sub EXCEPT ![s].at = "rejected"] /\ sessions' = ss
           ELSE /\ sessions' = [ss EXCEPT ![i].subs = @ \cup {s}, ![i].runs = Append(@, [sub |-> s, call |-> "add"])]
                /\ sub' = [sub EXCEPT ![s] = [at |-> "adding", session |-> i, late |-> ss[i].step = "leaving"]]
        /\ UNCHANGED <<received, errors, messagesCame, sentTo, partState>>

\* The session, or the node, was still leaving the part when the subscription came.
CameTooEarly(s) == sub[s].late \/ sessions[sub[s].session].lostJoin

\* SubscriptionSession.remove(): the subscription ends, then the session is updated.
BeginRemove(s) ==
    /\ sessions' = [sessions EXCEPT ![sub[s].session].subs = @ \ {s}]
    /\ sub' = [sub EXCEPT ![s].at = "ending"]

\* unsubscribe() of a subscription whose session is not in subSessions any more does nothing.
Unsubscribe(s) ==
    /\ sub[s].at = "active" /\ sub[s].session = subSession
    /\ BeginRemove(s)
    /\ UNCHANGED <<subSession, received, errors, messagesCame, sentTo, partState>>

\* The application ends its iteration: onBeforeFinally removes the subscription from its own session.
IterationEnds(s) ==
    /\ sub[s].at = "active" /\ s \in sessions[sub[s].session].subs
    /\ BeginRemove(s)
    /\ UNCHANGED <<subSession, received, errors, messagesCame, sentTo, partState>>

SubscriptionEnded(s) ==
    /\ sub[s].at = "ending"
    /\ sub' = [sub EXCEPT ![s].at = "removing"]
    /\ sessions' = [sessions EXCEPT ![sub[s].session].runs = Append(@, [sub |-> s, call |-> "remove"])]
    /\ UNCHANGED <<subSession, received, errors, messagesCame, sentTo, partState>>

-----------------------------------------------------------------------------
(* The Scaffold of session i: one run per call, in their order; each goes  *)
(* up or down until the check agrees.                                      *)

ShouldBeSubscribed(session) == ~session.stopped /\ session.subs # {}

\* Seeded fault: a session that retired stays in subSessions.
WithoutRetiredKept(i) == subSession

\* onRetired: the session is taken out of subSessions.
WithoutRetired(i) == IF subSession = i THEN 0 ELSE subSession

\* stop(): the pipeline ends and the session is retired.
Stopped(session) == [session EXCEPT !.stopped = TRUE, !.pipeline = <<>>]

StepUp(i) ==
    LET session == sessions[i]
    IN  /\ session.runs # <<>> /\ session.step = "check"
        /\ ShouldBeSubscribed(session) /\ ~session.up /\ ~session.failed
        /\ sessions' = [sessions EXCEPT ![i].step = "joining", ![i].listeners = @ + 1]
        /\ UNCHANGED <<subSession, sub, received, errors, messagesCame, sentTo, partState>>

\* A leave() that found the part is under way, and will delete whatever is then the part.
LeaveUnderWay == \E j \in 1 .. Len(sessions) : sessions[j].step = "leaving" /\ sessions[j].leaves

(* join() returns at once while the part is being left.  The leave takes   *)
(* the node out, and so does one that is still under way after another one *)
(* has already deleted the part.                                           *)
JoinEnds(i, fails) ==
    /\ sessions[i].step = "joining"
    /\ sessions' = [sessions EXCEPT ![i].step = "check", ![i].up = ~fails, ![i].failed = fails,
                                    ![i].lostJoin = ~fails /\ LeaveUnderWay]
    /\ partState' = IF ~fails /\ partState = "out" THEN "in" ELSE partState
    /\ UNCHANGED <<subSession, sub, received, errors, messagesCame, sentTo>>

\* unsubscribe() of the session, up to the leave, which does nothing if the node is not in the part.
StepDown(i) ==
    LET session == sessions[i]
    IN  /\ session.runs # <<>> /\ session.step = "check"
        /\ ~ShouldBeSubscribed(session) /\ session.up
        /\ sessions' = [sessions EXCEPT ![i].step = "leaving", ![i].listeners = 0, ![i].pipeline = <<>>,
                                        ![i].leaves = partState # "out"]
        /\ partState' = IF partState = "out" THEN "out" ELSE "leaving"
        /\ UNCHANGED <<subSession, sub, received, errors, messagesCame, sentTo>>

\* The end of the pipeline stops the session, a few turns after the step down began.
PipelineEnds(i) ==
    /\ sessions[i].step = "leaving" /\ ~sessions[i].stopped
    /\ sessions' = [sessions EXCEPT ![i] = Stopped(@)]
    /\ subSession' = WithoutRetired(i)
    /\ UNCHANGED <<sub, received, errors, messagesCame, sentTo, partState>>

LeaveEnds(i) ==
    /\ sessions[i].step = "leaving" /\ sessions[i].stopped
    /\ sessions' = [sessions EXCEPT ![i].step = "check", ![i].up = FALSE]
    /\ partState' = IF sessions[i].leaves THEN "out" ELSE partState
    /\ UNCHANGED <<subSession, sub, received, errors, messagesCame, sentTo>>

(* A run has nothing more to do: its call returns, or throws what failed.  *)
(* A session without subscriptions is stopped; a failed add is removed.    *)
QueuedNextEnds(i) ==
    LET session == sessions[i]
        call == Head(session.runs)
        rest == [session EXCEPT !.runs = Tail(@), !.failed = FALSE]
        stop == ~session.failed /\ ~ShouldBeSubscribed(session) /\ ~session.stopped
    IN  /\ session.runs # <<>> /\ session.step = "check"
        /\ session.failed \/ (ShouldBeSubscribed(session) = session.up)
        /\ IF session.failed /\ call.call = "add" /\ call.sub \in session.subs
           THEN /\ sessions' = [sessions EXCEPT ![i] = [rest EXCEPT !.subs = @ \ {call.sub}]]
                /\ sub' = [sub EXCEPT ![call.sub].at = "ending"]
           ELSE /\ sessions' = [sessions EXCEPT ![i] = IF stop THEN Stopped(rest) ELSE rest]
                /\ sub' = [sub EXCEPT ![call.sub].at =
                             IF call.call = "remove" THEN "done" ELSE IF @ = "adding" THEN "active" ELSE @]
        /\ subSession' = IF stop THEN WithoutRetired(i) ELSE subSession
        /\ UNCHANGED <<received, errors, messagesCame, sentTo, partState>>

-----------------------------------------------------------------------------
(* Messages.                                                               *)

\* How often onMessageInput() of session i is called, and heeded, for a message: once per listener.
InputCalls(i) == IF sessions[i].stopped THEN 0 ELSE sessions[i].listeners

(* onMessageInput().  A session whose first join failed listens twice.     *)
(* The pipeline, which orders messages, drops the second copy; raw         *)
(* subscriptions get both.                                                 *)
NodeReceives ==
    LET m == messagesCame + 1
        raw(s) == IF s \in Raw /\ sub[s].session # 0 /\ s \in sessions[sub[s].session].subs
                  THEN [k \in 1 .. InputCalls(sub[s].session) |-> [msg |-> m, as |-> "raw"]] ELSE <<>>
    IN  /\ partState = "in" /\ m \in Message
        /\ messagesCame' = m
        /\ received' = [s \in Sub |-> received[s] \o raw(s)]
        /\ sessions' = [i \in 1 .. Len(sessions) |->
                          IF InputCalls(i) > 0 /\ sessions[i].subs \ Raw # {} THEN [sessions[i] EXCEPT !.pipeline = Append(@, m)]
                          ELSE sessions[i]]
        /\ sentTo' = [sentTo EXCEPT ![m] = {s \in Sub : sub[s].at = "active" /\ ~CameTooEarly(s)}]
        /\ UNCHANGED <<subSession, sub, errors, partState>>

\* What is left of the pipeline after a message that failed.
AfterFailure(pipeline) == Tail(pipeline)

\* distributeMessage(): to all subscriptions of the session, the raw ones too; an error is told to all.
Processed(i) ==
    LET session == sessions[i]
        m == Head(session.pipeline)
    IN  /\ session.pipeline # <<>>
        /\ \/ /\ m \notin Invalid
              /\ received' = [s \in Sub |-> IF s \in session.subs THEN Append(received[s], [msg |-> m, as |-> "processed"])
                                            ELSE received[s]]
              /\ sessions' = [sessions EXCEPT ![i].pipeline = Tail(@)]
              /\ UNCHANGED errors
           \/ /\ m \in Invalid
              /\ errors' = [s \in Sub |-> IF s \in session.subs THEN errors[s] \cup {m} ELSE errors[s]]
              /\ sessions' = [sessions EXCEPT ![i].pipeline = AfterFailure(@)]
              /\ UNCHANGED received
        /\ UNCHANGED <<subSession, sub, messagesCame, sentTo, partState>>

SubscriptionsNext ==
    \/ \E s \in Sub : AddSubscription(s) \/ Unsubscribe(s) \/ IterationEnds(s) \/ SubscriptionEnded(s)
    \/ \E i \in 1 .. Len(sessions) :
         \/ StepUp(i) \/ StepDown(i) \/ PipelineEnds(i) \/ LeaveEnds(i) \/ QueuedNextEnds(i) \/ Processed(i)
         \/ \E fails \in BOOLEAN : JoinEnds(i, fails)
    \/ NodeReceives

SubscriptionsSpec == SubscriptionsInit /\ [][SubscriptionsNext]_subscriptionVars

-----------------------------------------------------------------------------
(***************************************************************************)
(* A subscription that subscribe() returned gets its messages until it is  *)
(* ended: its session is the one of the part, it listens, and the node is  *)
(* in the part.  The exception is a subscription that came while the       *)
(* session, or the node, was still leaving the part.                       *)
(***************************************************************************)
ActiveIsConnected ==
    \A s \in Sub : (sub[s].at = "active" /\ ~CameTooEarly(s)) =>
        /\ sub[s].session = subSession
        /\ LET session == sessions[subSession]
           IN  s \in session.subs /\ session.listeners > 0 /\ session.up /\ ~session.stopped
        /\ partState = "in"

(***************************************************************************)
(* A subscription that is not raw is given every message that came while   *)
(* it was there, in order and once, or the error of the message, unless it *)
(* waits in the pipeline still.                                            *)
(***************************************************************************)
EveryMessageGiven ==
    \A s \in Sub \ Raw :
        LET got == received[s]
        IN  /\ \A i \in 1 .. Len(got) - 1 : got[i].msg < got[i + 1].msg
            /\ sub[s].at = "active" =>
                 \A m \in Message : s \in sentTo[m] =>
                     \/ \E i \in 1 .. Len(got) : got[i].msg = m
                     \/ m \in errors[s]
                     \/ Contains(sessions[sub[s].session].pipeline, m)

(***************************************************************************)
(* subscribe() keeps its promise: the subscription is connected until it   *)
(* is ended, and is given every message, or its error, once and in order.  *)
(***************************************************************************)
SubscriptionsAreServed == ActiveIsConnected /\ EveryMessageGiven

-----------------------------------------------------------------------------
(***************************************************************************)
(* A subscription with a resend: what a storage node holds is read first,  *)
(* through a pipeline of its own, then what came from the network in the   *)
(* meantime and comes later.  Every stage ends in a PushBuffer: a push     *)
(* waits while the buffer is full, a read while it is empty, and each gate *)
(* may be locked for good.  Messages are 1, 2, ... of one message chain;   *)
(* those up to Published were published before the subscription was made.  *)
(* What is missing between two messages is the subject of GapFilling.      *)
(***************************************************************************)

CONSTANTS
    Published, MaxPublished,    \* messages before the subscription, and in all
    BufferSize,
    MaxResendFaults             \* lookups and fetches that fail

ASSUME ResendAssumption ==
    /\ Published \in Nat /\ MaxPublished \in Nat /\ Published <= MaxPublished
    /\ BufferSize \in Nat \ {0} /\ MaxResendFaults \in Nat

VARIABLES
    orderMessages,  \* of the configuration
    stored,         \* how many messages the storage node holds
    fetch,          \* the HTTP request: where pull() is, what is left to come
    resentMsgs, processed, realtime, outBuffer,    \* the buffers
    stage,          \* of resendThenRealtime
    publishedCount,      \* how many messages were published
    distributing,   \* the session waits for its push
    unsub,          \* how far unsubscribe() is
    given, told,    \* the messages, and whether an error, reached the application
    resendFaults

resendVars == <<orderMessages, stored, fetch, resentMsgs, processed, realtime, outBuffer, stage,
                publishedCount, distributing, unsub, given, told, resendFaults>>

Buffers == [items : Seq(1 .. MaxPublished), error : BOOLEAN, writeLocked : BOOLEAN, readLocked : BOOLEAN]

ResendTypeOK ==
    /\ {resentMsgs, processed, realtime, outBuffer} \subseteq Buffers
    /\ fetch.at \in {"none", "fetching", "pulling", "pushing", "done"}
    /\ fetch.next \in Nat /\ fetch.last \in Nat
    /\ stage \in {"resolving", "resending", "realtime", "ended"}
    /\ unsub \in {"no", "ending", "yes"}
    /\ given \in Seq(1 .. MaxPublished)

-----------------------------------------------------------------------------
(* PushBuffer.                                                             *)

NewBuffer == [items |-> <<>>, error |-> FALSE, writeLocked |-> FALSE, readLocked |-> FALSE]

IsWritable(b) == ~b.writeLocked /\ ~b.readLocked

\* push(): nothing is added to a buffer that is done.
Push(b, m) == IF IsWritable(b) THEN [b EXCEPT !.items = Append(@, m)] ELSE b

\* check() of the write gate, which every push and every read sets anew.
WriteGateIsClosed(b) == ~b.writeLocked /\ Len(b.items) >= BufferSize

End(b) == [b EXCEPT !.writeLocked = TRUE, !.readLocked = TRUE]

\* Seeded fault: the end of the writing drops what was not read yet.
EndWriteUnflushed(b, failed) == [End(b) EXCEPT !.items = <<>>, !.error = failed]

\* endWrite(): what is buffered is still read, then the error is thrown.
EndWrite(b, failed) == [b EXCEPT !.writeLocked = TRUE, !.error = @ \/ failed]

\* iterate(): the next item, if there is one and reading goes on.
HasNext(b) == b.items # <<>> /\ ~b.readLocked

\* iterate() leaves its loop: reading is locked, or everything was read and writing is.
IsOver(b) == ~HasNext(b) /\ (b.readLocked \/ b.writeLocked)

Shift(b) == [b EXCEPT !.items = Tail(@)]

\* The finally of iterate().
Finished(b) == [End(b) EXCEPT !.items = <<>>, !.error = FALSE]

-----------------------------------------------------------------------------
(* The subscription is made; the first read starts the resend.             *)

ResendInit ==
    /\ orderMessages \in BOOLEAN
    /\ stored \in 0 .. Published /\ publishedCount = Published
    /\ fetch = [at |-> "none", next |-> 1, last |-> 0, failed |-> FALSE]
    /\ resentMsgs = NewBuffer /\ processed = NewBuffer /\ realtime = NewBuffer /\ outBuffer = NewBuffer
    /\ stage = "resolving" /\ distributing = FALSE /\ unsub = "no"
    /\ given = <<>> /\ told = FALSE /\ resendFaults = 0

(* resends.resend(): the storage nodes of the stream and the metadata of   *)
(* one are looked up.  Without storage nodes the resend is skipped; any    *)
(* other failure is told.  A listener of onBeforeFinally that comes after  *)
(* the trigger is called at once.                                          *)
ResendResolves(outcome) ==
    /\ stage = "resolving"
    /\ \/ /\ outcome = "found"
          /\ stage' = "resending" /\ fetch' = [fetch EXCEPT !.at = "fetching"]
          /\ resentMsgs' = IF unsub = "yes" THEN End(resentMsgs) ELSE resentMsgs
          /\ UNCHANGED <<told, resendFaults>>
       \/ /\ outcome = "none"
          /\ stage' = "realtime"
          /\ UNCHANGED <<fetch, resentMsgs, told, resendFaults>>
       \/ /\ outcome = "failed" /\ resendFaults < MaxResendFaults
          /\ stage' = "realtime" /\ told' = TRUE /\ resendFaults' = resendFaults + 1
          /\ fetch' = [fetch EXCEPT !.failed = TRUE]
          /\ UNCHANGED resentMsgs
    /\ UNCHANGED <<orderMessages, stored, processed, realtime, outBuffer, publishedCount, distributing, unsub, given>>

-----------------------------------------------------------------------------
(* The fetch: pull() pushes the frames of the HTTP response.               *)

fetchRest == <<orderMessages, stored, processed, realtime, outBuffer, stage, publishedCount, distributing, unsub, given, told>>

\* The response comes: the rows the storage node held when it ran the query.
FetchAnswered ==
    /\ fetch.at = "fetching"
    /\ fetch' = [fetch EXCEPT !.at = "pulling", !.last = stored]
    /\ UNCHANGED <<resentMsgs, resendFaults>> /\ UNCHANGED fetchRest

\* The fetch ends with an error, which the reader gets after what came before it.
FetchThrows ==
    /\ resendFaults < MaxResendFaults
    /\ fetch' = [fetch EXCEPT !.at = "done", !.failed = TRUE]
    /\ resentMsgs' = EndWrite(resentMsgs, TRUE)
    /\ resendFaults' = resendFaults + 1
    /\ UNCHANGED fetchRest

\* No connection, or an error status.
FetchFails == fetch.at = "fetching" /\ FetchThrows

\* A lost connection, or a frame that cannot be converted: map() has no onError and rethrows.
FrameFails == fetch.at = "pulling" /\ FetchThrows

PullMessage ==
    /\ fetch.at = "pulling" /\ fetch.next <= fetch.last
    /\ resentMsgs' = Push(resentMsgs, fetch.next)
    /\ fetch' = [fetch EXCEPT !.at = "pushing", !.next = IF IsWritable(resentMsgs) THEN @ + 1 ELSE @]
    /\ UNCHANGED resendFaults /\ UNCHANGED fetchRest

\* The write gate lets pull() go on, or is locked: then the response is not read further.
PushEnds ==
    /\ fetch.at = "pushing" /\ ~WriteGateIsClosed(resentMsgs)
    /\ fetch' = [fetch EXCEPT !.at = IF IsWritable(resentMsgs) THEN "pulling" ELSE "done"]
    /\ resentMsgs' = IF IsWritable(resentMsgs) THEN resentMsgs ELSE EndWrite(resentMsgs, FALSE)
    /\ UNCHANGED resendFaults /\ UNCHANGED fetchRest

PullEnds ==
    /\ fetch.at = "pulling" /\ fetch.next > fetch.last
    /\ fetch' = [fetch EXCEPT !.at = "done"]
    /\ resentMsgs' = EndWrite(resentMsgs, FALSE)
    /\ UNCHANGED resendFaults /\ UNCHANGED fetchRest

\* The resend's own pipeline: a loop reads, validates and decrypts ahead of its reader.
ProcessResent ==
    /\ stage = "resending" /\ ~processed.writeLocked
    /\ \/ /\ HasNext(resentMsgs)
          /\ resentMsgs' = Shift(resentMsgs)
          /\ processed' = Push(processed, Head(resentMsgs.items))
       \/ /\ IsOver(resentMsgs)
          /\ resentMsgs' = Finished(resentMsgs)
          /\ processed' = EndWrite(processed, resentMsgs.error)
    /\ UNCHANGED <<orderMessages, stored, fetch, realtime, outBuffer, stage, publishedCount, distributing,
                   unsub, given, told, resendFaults>>

-----------------------------------------------------------------------------
(* resendThenRealtime and the ordering stage.                              *)

\* The newest message that passed the ordering stage.
LastOrdered == Max(ToSet(given) \cup ToSet(outBuffer.items) \cup {0})

(* A message leaves resendThenRealtime: to the chain, which drops what it  *)
(* has passed, and from there to outBuffer, or to the application.         *)
Deliver(m) ==
    IF orderMessages
    THEN /\ outBuffer' = IF m > LastOrdered THEN Push(outBuffer, m) ELSE outBuffer
         /\ UNCHANGED given
    ELSE /\ given' = Append(given, m)
         /\ UNCHANGED outBuffer

(* The generator takes one step.  With ordering, the loop of addMessages() *)
(* takes it ahead of the application, and stops at the first message after *)
(* destroy(); without, the application takes it, until return().           *)
NextOfStage ==
    /\ \/ /\ stage = "resending" /\ HasNext(processed) /\ unsub # "yes"
          /\ Deliver(Head(processed.items))
          /\ processed' = Shift(processed)
          /\ UNCHANGED <<stage, realtime, told>>
       \/ /\ stage = "resending" /\ IsOver(processed) /\ unsub # "yes"
          /\ stage' = "realtime"
          /\ told' = (told \/ processed.error)
          /\ processed' = Finished(processed)
          /\ UNCHANGED <<realtime, outBuffer, given>>
       \/ /\ stage = "realtime" /\ HasNext(realtime)
          /\ Deliver(Head(realtime.items))
          /\ realtime' = Shift(realtime)
          /\ UNCHANGED <<stage, processed, told>>
       \/ /\ \/ stage = "realtime" /\ IsOver(realtime)
             \/ stage = "resending" /\ unsub = "yes" /\ (HasNext(processed) \/ IsOver(processed))
          /\ stage' = "ended"
          /\ realtime' = Finished(realtime) /\ processed' = Finished(processed)
          /\ outBuffer' = EndWrite(outBuffer, FALSE)
          /\ UNCHANGED <<given, told>>
    /\ UNCHANGED <<orderMessages, stored, fetch, resentMsgs, publishedCount, distributing, unsub, resendFaults>>

\* The application reads what the ordering stage let through.
ReadOrdered ==
    /\ orderMessages /\ unsub # "yes" /\ HasNext(outBuffer)
    /\ given' = Append(given, Head(outBuffer.items))
    /\ outBuffer' = Shift(outBuffer)
    /\ UNCHANGED <<orderMessages, stored, fetch, resentMsgs, processed, realtime, stage, publishedCount,
                   distributing, unsub, told, resendFaults>>

-----------------------------------------------------------------------------
(* The network and the storage node.                                       *)

othersRest == <<orderMessages, fetch, processed, outBuffer, stage, given, told, resendFaults>>

\* distributeMessage(): the session gives its next message once the last push has ended.
RealtimeArrives ==
    /\ publishedCount < MaxPublished /\ ~distributing
    /\ publishedCount' = publishedCount + 1
    /\ IF unsub = "no"
       THEN realtime' = Push(realtime, publishedCount') /\ distributing' = TRUE
       ELSE UNCHANGED <<realtime, distributing>>
    /\ UNCHANGED <<stored, resentMsgs, unsub>> /\ UNCHANGED othersRest

DistributeEnds ==
    /\ distributing /\ ~WriteGateIsClosed(realtime)
    /\ distributing' = FALSE
    /\ UNCHANGED <<stored, resentMsgs, realtime, publishedCount, unsub>> /\ UNCHANGED othersRest

\* The storage node stores a message, some time after it was published.
MessageIsStored ==
    /\ stored < publishedCount
    /\ stored' = stored + 1
    /\ UNCHANGED <<resentMsgs, realtime, publishedCount, distributing, unsub>> /\ UNCHANGED othersRest

\* unsubscribe(): end(), and return() up to the listeners of onBeforeFinally.
Unsubscribes ==
    /\ unsub = "no"
    /\ unsub' = "ending" /\ realtime' = End(realtime)
    /\ UNCHANGED <<stored, resentMsgs, publishedCount, distributing>> /\ UNCHANGED othersRest

\* The listeners: the resend, once it is there, is ended and the ordering stage destroyed.
BeforeFinally ==
    /\ unsub = "ending"
    /\ unsub' = "yes"
    /\ resentMsgs' = IF stage = "resolving" THEN resentMsgs ELSE End(resentMsgs)
    /\ outBuffer' = EndWrite(outBuffer, FALSE)
    /\ UNCHANGED <<orderMessages, stored, fetch, processed, realtime, stage, publishedCount, distributing,
                   given, told, resendFaults>>

ResendNext ==
    \/ \E outcome \in {"found", "none", "failed"} : ResendResolves(outcome)
    \/ FetchAnswered \/ FetchFails \/ FrameFails \/ PullMessage \/ PushEnds \/ PullEnds \/ ProcessResent
    \/ NextOfStage \/ ReadOrdered \/ RealtimeArrives \/ DistributeEnds \/ MessageIsStored
    \/ Unsubscribes \/ BeforeFinally

ResendSpec == ResendInit /\ [][ResendNext]_resendVars

-----------------------------------------------------------------------------
(***************************************************************************)
(* The handover from the resend to the network loses nothing and blocks    *)
(* nobody.  When the realtime messages begin, every message that was       *)
(* fetched has been passed on, and the application knows of a fetch that   *)
(* failed; every message that came from the network meanwhile waits or was *)
(* passed on; with ordering, no message is given twice or after a later    *)
(* one.  After unsubscribe() the fetch adds nothing more, and neither it   *)
(* nor the session, which serves other subscriptions, waits for a reader.  *)
(***************************************************************************)
ResendThenRealtime ==
    LET passed == ToSet(given) \cup ToSet(outBuffer.items)
    IN  /\ (stage = "realtime" /\ unsub = "no") =>
              /\ 1 .. fetch.next - 1 \subseteq passed
              /\ told = fetch.failed
        /\ unsub = "no" => Published + 1 .. publishedCount \subseteq passed \cup ToSet(realtime.items)
        /\ orderMessages => \A i \in 1 .. Len(given) - 1 : given[i] < given[i + 1]
        /\ unsub # "no" => ~WriteGateIsClosed(realtime)
        /\ (unsub = "yes" /\ fetch.at # "none") => ~IsWritable(resentMsgs)
=============================================================================
