------------------------------ MODULE NodeFacade ------------------------------
(***************************************************************************)
(* The life of the network node of a client: NetworkNodeFacade starts it   *)
(* on the first call that needs it, in one task that all calls share       *)
(* (pOnce), and stops it when the client is destroyed, which may happen at *)
(* any point of the start.  The destroy signal runs its listeners one      *)
(* after the other; the persistence of keys is closed by a later one.      *)
(***************************************************************************)
EXTENDS Naturals, FiniteSets

CONSTANT Caller     \* the calls that need the node

TaskOf(status, at) == [status |-> status, at |-> at]

NoTask == TaskOf("init", "none")

VARIABLES
    cachedNode,             \* whether it is set
    startNodeComplete,
    startTask,              \* the current call of startNodeTask (pOnce)
    oldTasks,               \* the calls of startNodeTask that destroy() reset
    node,                   \* the NetworkNode: "none", "created", "running", "failed", "stopped"
    started,                \* whether the node was started
    calls,                  \* a call: what it waits for or how it ended
    triggered,              \* isDestroyed()
    destroying,             \* destroy() of the facade: where it is
    abortSignaled,
    persistenceClosed,
    destroyOutcome,
    startOverlapped         \* destroy() came while the node was starting

facadeVars == <<cachedNode, startNodeComplete, startTask, oldTasks, node, started, calls, triggered,
                destroying, abortSignaled, persistenceClosed, destroyOutcome, startOverlapped>>

Task == [status : {"init", "pending", "fulfilled", "rejected"}, at : {"none", "options", "starting", "stopping"}]

NodeFacadeTypeOK ==
    /\ {cachedNode, startNodeComplete, started, triggered, abortSignaled, persistenceClosed, startOverlapped} \subseteq BOOLEAN
    /\ startTask \in Task /\ oldTasks \subseteq Task
    /\ node \in {"none", "created", "running", "failed", "stopped"}
    /\ calls \in [Caller -> {"idle", "waiting", "node", "destroyed", "error"}]
    /\ destroying \in {"none", "waiting", "stopping", "done"}
    /\ destroyOutcome \in {"none", "fulfilled", "rejected"}

NodeFacadeInit ==
    /\ cachedNode = FALSE /\ startNodeComplete = FALSE
    /\ startTask = NoTask /\ oldTasks = {}
    /\ node = "none" /\ started = FALSE
    /\ calls = [c \in Caller |-> "idle"]
    /\ triggered = FALSE /\ destroying = "none"
    /\ abortSignaled = FALSE /\ persistenceClosed = FALSE /\ destroyOutcome = "none"
    /\ startOverlapped = FALSE

-----------------------------------------------------------------------------
(* Calls and the start task.                                               *)

\* The calls that wait for the current start task get its outcome.
Settle(outcome) == calls' = [c \in Caller |-> IF calls[c] = "waiting" THEN outcome ELSE calls[c]]

\* getNode(): the first call starts the task, whose first step is the wait for getNetworkOptions().
GetNode(c) ==
    /\ calls[c] = "idle"
    /\ \/ /\ triggered
          /\ calls' = [calls EXCEPT ![c] = "destroyed"]
          /\ UNCHANGED startTask
       \/ /\ ~triggered /\ startTask.status = "init"
          /\ startTask' = TaskOf("pending", "options")
          /\ calls' = [calls EXCEPT ![c] = "waiting"]
       \/ /\ ~triggered /\ startTask.status # "init"
          /\ calls' = [calls EXCEPT ![c] = IF startTask.status = "pending" THEN "waiting"
                                           ELSE IF startTask.status = "fulfilled" THEN "node"
                                           ELSE "error"]
          /\ UNCHANGED startTask
    /\ UNCHANGED <<cachedNode, startNodeComplete, oldTasks, node, started, triggered, destroying,
                   abortSignaled, persistenceClosed, destroyOutcome, startOverlapped>>

\* inspect(), setProxies(), setStreamPartEntryPoints() and createExternalRpcClient() do not ask whether the
\* client is destroyed: they use the cached node, after the start task if the node is starting.
IsStarting == ~cachedNode \/ ~startNodeComplete

UseCachedNode(c) ==
    /\ calls[c] = "idle"
    /\ \/ /\ IsStarting /\ startTask.status = "init"
          /\ startTask' = IF triggered THEN TaskOf("rejected", "none")
                          ELSE TaskOf("pending", "options")
          /\ calls' = [calls EXCEPT ![c] = IF triggered THEN "destroyed" ELSE "waiting"]
       \/ /\ ~IsStarting \/ startTask.status # "init"
          /\ calls' = [calls EXCEPT ![c] = IF IsStarting /\ startTask.status = "pending" THEN "waiting"
                                           ELSE IF cachedNode THEN "node"
                                           ELSE "error"]
          /\ UNCHANGED startTask
    /\ UNCHANGED <<cachedNode, startNodeComplete, oldTasks, node, started, triggered, destroying,
                   abortSignaled, persistenceClosed, destroyOutcome, startOverlapped>>

\* A task that is reset goes on; the calls that wait for it keep their promise.
TaskGoesOn(t, u) ==
    IF t = startTask
    THEN startTask' = u /\ UNCHANGED oldTasks
    ELSE oldTasks' = (oldTasks \ {t}) \cup {u} /\ UNCHANGED startTask

Running(at) == {t \in {startTask} \cup oldTasks : t.status = "pending" /\ t.at = at}

\* The node is created and, unless the client is destroyed by now, cached and started.  Otherwise it is
\* stopped though it never started, which throws: its externalNetworkRpc is undefined.
OptionsArrive(t) ==
    /\ t \in Running("options")
    /\ node' = "created"
    /\ IF triggered
       THEN /\ TaskGoesOn(t, TaskOf("rejected", "none"))
            /\ Settle("error")
            /\ startNodeComplete' = TRUE
            /\ UNCHANGED cachedNode
       ELSE /\ TaskGoesOn(t, TaskOf("pending", "starting"))
            /\ cachedNode' = TRUE
            /\ UNCHANGED <<calls, startNodeComplete>>
    /\ UNCHANGED <<started, triggered, destroying, abortSignaled, persistenceClosed, destroyOutcome, startOverlapped>>

\* getNetworkOptions() fails: the task stays rejected.
OptionsFail(t) ==
    /\ t \in Running("options")
    /\ TaskGoesOn(t, TaskOf("rejected", "none"))
    /\ Settle("error")
    /\ startNodeComplete' = TRUE
    /\ UNCHANGED <<cachedNode, node, started, triggered, destroying, abortSignaled, persistenceClosed,
                   destroyOutcome, startOverlapped>>

\* Seeded fault: the node that started is not stopped when the client is destroyed meanwhile.
NodeStartedUnchecked(t) ==
    /\ t \in Running("starting")
    /\ started' = TRUE /\ node' = "running"
    /\ TaskGoesOn(t, TaskOf(IF triggered THEN "rejected" ELSE "fulfilled", "none"))
    /\ Settle(IF triggered THEN "destroyed" ELSE "node")
    /\ startNodeComplete' = TRUE
    /\ UNCHANGED <<cachedNode, triggered, destroying, abortSignaled, persistenceClosed, destroyOutcome, startOverlapped>>

\* start() of the node is over; a node of a destroyed client is stopped at once.
NodeStarted(t) ==
    /\ t \in Running("starting")
    /\ started' = TRUE
    /\ IF triggered
       THEN /\ node' = "running"
            /\ TaskGoesOn(t, TaskOf("pending", "stopping"))
            /\ UNCHANGED <<calls, startNodeComplete>>
       ELSE /\ node' = "running"
            /\ TaskGoesOn(t, TaskOf("fulfilled", "none"))
            /\ Settle("node")
            /\ startNodeComplete' = TRUE
    /\ UNCHANGED <<cachedNode, triggered, destroying, abortSignaled, persistenceClosed, destroyOutcome, startOverlapped>>

\* start() of the node fails half-way.
NodeStartFails(t) ==
    /\ t \in Running("starting")
    /\ node' = "failed"
    /\ TaskGoesOn(t, TaskOf("rejected", "none"))
    /\ Settle("error")
    /\ startNodeComplete' = TRUE
    /\ UNCHANGED <<cachedNode, started, triggered, destroying, abortSignaled, persistenceClosed, destroyOutcome, startOverlapped>>

\* The stop() of a node that started too late is over; the task fails, as the client is destroyed.
LateNodeStopped(t) ==
    /\ t \in Running("stopping")
    /\ node' = "stopped"
    /\ TaskGoesOn(t, TaskOf("rejected", "none"))
    /\ Settle("destroyed")
    /\ startNodeComplete' = TRUE
    /\ UNCHANGED <<cachedNode, started, triggered, destroying, abortSignaled, persistenceClosed, destroyOutcome, startOverlapped>>

-----------------------------------------------------------------------------
(* destroy() of the client: the signal is triggered once, and its          *)
(* listeners run in sequence: the abort controller, then destroy() of the  *)
(* facade, then the close of the persistence.                              *)

Trigger ==
    /\ ~triggered
    /\ triggered' = TRUE /\ abortSignaled' = TRUE
    /\ cachedNode' = FALSE
    /\ startOverlapped' = (startTask.status = "pending")
    /\ IF cachedNode
       THEN /\ destroying' = IF startNodeComplete THEN "stopping" ELSE "waiting"
            /\ oldTasks' = IF startNodeComplete THEN oldTasks ELSE oldTasks \cup {startTask}
       ELSE /\ destroying' = "done"
            /\ oldTasks' = oldTasks \cup {startTask}
    /\ startTask' = IF destroying' = "stopping" THEN startTask ELSE NoTask
    /\ destroyOutcome' = IF destroying' = "done" THEN "fulfilled" ELSE "none"
    /\ persistenceClosed' = (destroying' = "done")
    /\ UNCHANGED <<startNodeComplete, node, started, calls>>

\* The start task that destroy() waited for is over.  It has failed, so destroy() fails too and the
\* listeners after it do not run.
DestroySeesStart ==
    /\ destroying = "waiting"
    /\ \A t \in oldTasks : t.status # "pending"
    /\ destroying' = "done" /\ destroyOutcome' = "rejected"
    /\ UNCHANGED <<cachedNode, startNodeComplete, startTask, oldTasks, node, started, calls, triggered,
                   abortSignaled, persistenceClosed, startOverlapped>>

\* stop() of the node is over.  On a node whose start() failed it throws, as on one that never started.
NodeStopped ==
    /\ destroying = "stopping"
    /\ node' = IF started THEN "stopped" ELSE node
    /\ destroying' = "done" /\ destroyOutcome' = IF started THEN "fulfilled" ELSE "rejected"
    /\ persistenceClosed' = started
    /\ oldTasks' = oldTasks \cup {startTask} /\ startTask' = NoTask
    /\ UNCHANGED <<cachedNode, startNodeComplete, started, calls, triggered, abortSignaled, startOverlapped>>

FacadeNext ==
    \/ \E c \in Caller : GetNode(c) \/ UseCachedNode(c)
    \/ \E t \in {startTask} \cup oldTasks : OptionsArrive(t) \/ OptionsFail(t) \/ NodeStarted(t)
                                               \/ NodeStartFails(t) \/ LateNodeStopped(t)
    \/ Trigger \/ DestroySeesStart \/ NodeStopped

FacadeSpec == NodeFacadeInit /\ [][FacadeNext]_facadeVars

-----------------------------------------------------------------------------
(***************************************************************************)
(* When the client is destroyed and nothing is in progress, no node is     *)
(* left running, every call has its answer, no call was given a node after *)
(* the destruction, and the persistence is closed unless the destruction   *)
(* came while the node was starting or its start had failed.               *)
(***************************************************************************)
NothingOutlivesDestroy ==
    (destroyOutcome # "none" /\ \A t \in {startTask} \cup oldTasks : t.status # "pending") =>
        /\ node # "running"
        /\ \A c \in Caller : calls[c] # "waiting"
        /\ abortSignaled
        /\ persistenceClosed \/ startOverlapped \/ node = "failed"
        /\ started => node = "stopped"
=============================================================================
