------------------------------- MODULE Webrtc -------------------------------
(***************************************************************************)
(* The WebrtcConnectors of two nodes and the WebrtcConnections they make.  *)
(* One of the two always offers: the other one asks it to.  The signals    *)
(* (request, offer, answer, ICE candidate) go through the DHT, late, in    *)
(* any order or not at all.  Each node has at most one connect attempt     *)
(* with the other; a connection that closes takes its attempt with it.     *)
(* Once the data channel is open, what does not fit into its buffer waits  *)
(* in the message queue of the connection.                                 *)
(***************************************************************************)
EXTENDS Naturals, Sequences

CONSTANTS
    MaxAttempts,            \* connections per node
    Low, High,              \* bufferThresholdLow, bufferThresholdHigh, in messages
    MaxWritten              \* messages written to the channel

ASSUME WebrtcAssumption == MaxAttempts \in Nat \ {0} /\ Low \in Nat /\ High \in Nat /\ Low < High /\ MaxWritten \in Nat

RtcPeer == {"offerer", "answerer"}
Instance == 1 .. MaxAttempts
NoAttempt == 0
Opposite(n) == IF n = "offerer" THEN "answerer" ELSE "offerer"

VARIABLES
    attempt,    \* ongoingConnectAttempts.get(the other node)
    made,       \* how many connections each node has made
    rtc,        \* the WebrtcConnections of each node, with their PendingConnections
    signals,    \* the signals under way
    halted,     \* the connectors that are stopped
    channel     \* the sending side of a data channel

webrtcVars == <<attempt, made, rtc, signals, halted, channel>>

NoConnection == [at |-> "none", id |-> <<>>, remoteDescriptionSet |-> FALSE, described |-> FALSE, early |-> FALSE,
                 pending |-> "none", listened |-> FALSE]

\* WebrtcConnection's constructor and start(): with an id of its own and the early timeout.
NewConnection(n, k) == [at |-> "open", id |-> <<n, k>>, remoteDescriptionSet |-> FALSE, described |-> FALSE, early |-> TRUE,
                        pending |-> "waiting", listened |-> TRUE]

Channel(buffered, queue, lowEvent, written) ==
    [buffered |-> buffered, queue |-> queue, lowEvent |-> lowEvent, written |-> written]

WebrtcTypeOK ==
    /\ attempt \in [RtcPeer -> Instance \cup {NoAttempt}] /\ made \in [RtcPeer -> 0 .. MaxAttempts]
    /\ \A n \in RtcPeer, k \in Instance :
         /\ rtc[n][k].at \in {"none", "open", "closed"}
         /\ rtc[n][k].pending \in {"none", "waiting", "connected", "closed"}
    /\ halted \subseteq RtcPeer
    /\ channel.buffered \in 0 .. High /\ channel.queue \in 0 .. MaxWritten

WebrtcInit ==
    /\ attempt = [n \in RtcPeer |-> NoAttempt] /\ made = [n \in RtcPeer |-> 0]
    /\ rtc = [n \in RtcPeer |-> [k \in Instance |-> NoConnection]]
    /\ signals = {} /\ halted = {}
    /\ channel = Channel(0, 0, FALSE, 0)

-----------------------------------------------------------------------------
(* WebrtcConnector.                                                        *)

Signal(to, kind, id) == [to |-> to, kind |-> kind, id |-> id]

\* connect() without an attempt under way: the answerer asks the offerer to offer.
Connect(n) ==
    LET k == made[n] + 1
    IN  /\ made[n] < MaxAttempts
        /\ made' = [made EXCEPT ![n] = k]
        /\ attempt' = [attempt EXCEPT ![n] = k]
        /\ rtc' = [rtc EXCEPT ![n][k] = NewConnection(n, k)]

ConnectsByItself(n) ==
    /\ n \notin halted /\ attempt[n] = NoAttempt
    /\ Connect(n)
    /\ signals' = IF n = "offerer" THEN signals ELSE signals \cup {Signal("offerer", "request", <<>>)}
    /\ UNCHANGED <<halted, channel>>

\* Seeded fault: delFunc() stays registered, and is called again when the connection closes later.
DelFuncAgain(n, c) == [attempt EXCEPT ![n] = NoAttempt]

\* delFunc(): the entry of the node id goes, whichever it is, and no event calls delFunc() again.
DelFunc(n, c) == IF c.listened THEN [attempt EXCEPT ![n] = NoAttempt] ELSE attempt

\* doClose(): the handshaker closes the PendingConnection too.
DoClose(n, k) ==
    /\ rtc[n][k].at = "open"
    /\ rtc' = [rtc EXCEPT ![n][k] = [rtc[n][k] EXCEPT !.at = "closed", !.early = FALSE, !.listened = FALSE,
                                        !.pending = IF @ = "waiting" THEN "closed" ELSE @]]
    /\ attempt' = DelFunc(n, rtc[n][k])

\* The local description: with the start for the offerer, once it has the offer for the answerer.
\* It is sent with the id the connection has by then.
LocalDescription(n, k) ==
    /\ rtc[n][k].at = "open" /\ ~rtc[n][k].described
    /\ n = "answerer" => rtc[n][k].remoteDescriptionSet
    /\ rtc' = [rtc EXCEPT ![n][k].described = TRUE]
    /\ signals' = signals \cup {Signal(Opposite(n), IF n = "offerer" THEN "offer" ELSE "answer", rtc[n][k].id)}
    /\ UNCHANGED <<attempt, made, halted, channel>>

LocalCandidate(n, k) ==
    /\ rtc[n][k].at = "open" /\ rtc[n][k].described
    /\ signals' = signals \cup {Signal(Opposite(n), "candidate", rtc[n][k].id)}
    /\ UNCHANGED <<attempt, made, rtc, halted, channel>>

\* stop(): the connections of the attempts are destroyed, the PendingConnections closed.
Stop(n) ==
    /\ n \notin halted
    /\ halted' = halted \cup {n}
    /\ IF attempt[n] = NoAttempt THEN UNCHANGED <<attempt, rtc>> ELSE DoClose(n, attempt[n])
    /\ UNCHANGED <<made, signals, channel>>

-----------------------------------------------------------------------------
(* WebrtcConnectorRpcLocal: a signal comes.                                *)

Take(s) == s \in signals /\ s.to \notin halted

\* requestConnection()
RequestConnection(s) ==
    /\ Take(s) /\ s.kind = "request"
    /\ signals' = signals \ {s}
    /\ IF attempt[s.to] # NoAttempt THEN UNCHANGED <<attempt, made, rtc>> ELSE Connect(s.to)
    /\ UNCHANGED <<halted, channel>>

\* setRemoteDescription(): the early timer is cleared; a second description is refused by the connection.
Described(c, id) == [c EXCEPT !.id = id, !.remoteDescriptionSet = TRUE, !.early = FALSE]

\* rtcOffer(): to the attempt under way, or a new one; the offerer's id is used.
RtcOffer(s) ==
    LET k == IF attempt["answerer"] = NoAttempt THEN made["answerer"] + 1 ELSE attempt["answerer"]
    IN  /\ Take(s) /\ s.kind = "offer" /\ k <= MaxAttempts
        /\ made' = [made EXCEPT !["answerer"] = IF k > @ THEN k ELSE @]
        /\ attempt' = [attempt EXCEPT !["answerer"] = k]
        /\ rtc' = [rtc EXCEPT !["answerer"][k] =
                     Described(IF attempt["answerer"] = NoAttempt THEN NewConnection("answerer", k) ELSE @, s.id)]
        /\ signals' = signals \ {s}
        /\ UNCHANGED <<halted, channel>>

\* Does the signal belong to the connection of the attempt?
IsForAttempt(s) == attempt[s.to] # NoAttempt /\ rtc[s.to][attempt[s.to]].id = s.id

\* rtcAnswer(): ignored if it has another id.
RtcAnswer(s) ==
    /\ Take(s) /\ s.kind = "answer"
    /\ rtc' = IF IsForAttempt(s) THEN [rtc EXCEPT ![s.to][attempt[s.to]] = Described(@, s.id)] ELSE rtc
    /\ signals' = signals \ {s}
    /\ UNCHANGED <<attempt, made, halted, channel>>

\* iceCandidate(), addRemoteCandidate(): one that comes before the description closes the connection.
RemoteCandidate(s) ==
    /\ Take(s) /\ s.kind = "candidate"
    /\ signals' = signals \ {s}
    /\ IF IsForAttempt(s) /\ ~rtc[s.to][attempt[s.to]].remoteDescriptionSet
         THEN DoClose(s.to, attempt[s.to]) ELSE UNCHANGED <<attempt, rtc>>
    /\ UNCHANGED <<made, halted, channel>>

-----------------------------------------------------------------------------
(* WebrtcConnection.                                                       *)

\* EARLY_TIMEOUT without a remote description; the PendingConnection's timeout; the ConnectionManager's close.
EarlyTimeout(n, k) ==
    /\ rtc[n][k].early
    /\ DoClose(n, k)
    /\ UNCHANGED <<made, signals, halted, channel>>
RtcPendingTimeout(n, k) ==
    /\ rtc[n][k].pending = "waiting"
    /\ DoClose(n, k)
    /\ UNCHANGED <<made, signals, halted, channel>>

\* onStateChange(): closed, disconnected or failed; the data channel closes.
StateFails(n, k) ==
    /\ rtc[n][k].remoteDescriptionSet
    /\ DoClose(n, k)
    /\ UNCHANGED <<made, signals, halted, channel>>

\* The data channel is open and the handshake over it is completed: the PendingConnection is 'connected'.
HandshakeCompleted(n, k) ==
    /\ rtc[n][k].at = "open" /\ rtc[n][k].pending = "waiting"
    /\ rtc[n][k].remoteDescriptionSet /\ rtc[n][k].described
    /\ rtc' = [rtc EXCEPT ![n][k].pending = "connected", ![n][k].listened = FALSE]
    /\ attempt' = DelFunc(n, rtc[n][k])
    /\ UNCHANGED <<made, signals, halted, channel>>

-----------------------------------------------------------------------------
(* The data channel: onBufferedAmountLow comes when the buffered amount    *)
(* falls to the threshold.                                                 *)

ChannelOnly == UNCHANGED <<attempt, made, rtc, signals, halted>>

\* send(): to the channel while its buffer is below the threshold, else to the message queue.
WriteToChannel ==
    /\ channel.written < MaxWritten
    /\ channel' = IF channel.buffered < High
                  THEN Channel(channel.buffered + 1, channel.queue, channel.lowEvent, channel.written + 1)
                  ELSE Channel(channel.buffered, channel.queue + 1, channel.lowEvent, channel.written + 1)
    /\ ChannelOnly

\* External: the network takes a message off the buffer.
Transmit ==
    /\ channel.buffered > 0
    /\ channel' = Channel(channel.buffered - 1, channel.queue,
                          channel.lowEvent \/ channel.buffered = Low + 1, channel.written)
    /\ ChannelOnly

\* As many messages as the queue has and the buffer takes.
DrainedCount == IF channel.queue < High - channel.buffered THEN channel.queue ELSE High - channel.buffered

\* onBufferedAmountLow
OnBufferedAmountLow ==
    /\ channel.lowEvent
    /\ channel' = Channel(channel.buffered + DrainedCount, channel.queue - DrainedCount, FALSE, channel.written)
    /\ ChannelOnly

WebrtcNext ==
    \/ \E n \in RtcPeer : ConnectsByItself(n) \/ Stop(n)
    \/ \E n \in RtcPeer, k \in Instance :
         \/ LocalDescription(n, k) \/ LocalCandidate(n, k)
         \/ EarlyTimeout(n, k) \/ RtcPendingTimeout(n, k) \/ StateFails(n, k) \/ HandshakeCompleted(n, k)
    \/ \E s \in signals : RequestConnection(s) \/ RtcOffer(s) \/ RtcAnswer(s) \/ RemoteCandidate(s)

\* The data channel shares nothing with the connecting.
ChannelNext == WriteToChannel \/ Transmit \/ OnBufferedAmountLow

WebrtcSpec == WebrtcInit /\ [][WebrtcNext \/ ChannelNext]_webrtcVars

-----------------------------------------------------------------------------
\* The attempts are those that can still succeed: connect() never returns a connection that is closed, and a
\* connection that still waits is the one of the attempt, so that its signals reach it.
AttemptIsAlive ==
    \A n \in RtcPeer, k \in Instance :
      (attempt[n] = k) <=> (rtc[n][k].at = "open" /\ rtc[n][k].pending = "waiting")

\* A message that waits in the queue is not forgotten: while one does, the buffer is still above the
\* threshold whose crossing empties the queue, or that event is on its way.
QueueIsDrained == channel.queue > 0 => (channel.buffered > Low \/ channel.lowEvent)

(* A connection being made is not forgotten, and what was queued on an     *)
(* open one is sent.                                                       *)
ConnectsAndSends == AttemptIsAlive /\ QueueIsDrained
=============================================================================
