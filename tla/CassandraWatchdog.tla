------------------------- MODULE CassandraWatchdog -------------------------
(***************************************************************************)
(* CassandraWatchdog: a check every checkIntervalMs; the process exits     *)
(* when checks have found no usable host for maxUnreachableMs.  A check is *)
(* a query that is awaited: time passes and stop() may come meanwhile.     *)
(***************************************************************************)
EXTENDS Naturals

CONSTANTS
    CheckInterval, MaxUnreachable,
    QueryTimeout,   \* the driver answers or gives up within this time
    LastWatchTime   \* the clock stops here

ASSUME CassandraWatchdogAssumption ==
    /\ CheckInterval \in Nat \ {0} /\ MaxUnreachable \in Nat
    /\ QueryTimeout \in Nat /\ LastWatchTime \in Nat

VARIABLES
    wdNow,
    unreachableSince,   \* time, or NotSince
    checkTimer,         \* when the next check is due, or NotSince
    checkStarted,       \* when the query in progress was sent, or NotSince
    stopped,
    exited,
    lastHost,           \* history: when a check last found a connection
    downSince,          \* history: when cassandra last changed
    cassandra           \* "up", "slow" (a connection that times out), "down"

watchVars == <<wdNow, unreachableSince, checkTimer, checkStarted, stopped, exited, lastHost, downSince, cassandra>>

NotSince == LastWatchTime + CheckInterval + 1

WatchTypeOK ==
    /\ wdNow \in 0 .. LastWatchTime
    /\ unreachableSince \in 0 .. wdNow \cup {NotSince}
    /\ checkTimer = NotSince \/ checkStarted = NotSince
    /\ lastHost \in 0 .. wdNow
    /\ stopped \in BOOLEAN /\ exited \in BOOLEAN

(* start()                                                                 *)
WatchInit ==
    /\ wdNow = 0 /\ lastHost = 0 /\ downSince = 0
    /\ unreachableSince = NotSince /\ checkStarted = NotSince
    /\ checkTimer = CheckInterval
    /\ stopped = FALSE /\ exited = FALSE
    /\ cassandra \in {"up", "slow", "down"}

CassandraChanges ==
    /\ cassandra' \in {"up", "slow", "down"} \ {cassandra}
    /\ downSince' = wdNow
    /\ UNCHANGED <<wdNow, unreachableSince, checkTimer, checkStarted, stopped, exited, lastHost>>

CheckStarts ==
    /\ checkTimer <= wdNow
    /\ checkTimer' = NotSince
    /\ checkStarted' = wdNow
    /\ UNCHANGED <<wdNow, unreachableSince, stopped, exited, lastHost, downSince, cassandra>>

\* schedule(): nothing once stopped.
NextCheck == IF stopped THEN NotSince ELSE wdNow + CheckInterval

(* The query succeeds, or fails otherwise than with NoHostAvailableError.  *)
CheckFindsHost ==
    /\ checkStarted # NotSince
    /\ cassandra \in {"up", "slow"}
    /\ unreachableSince' = NotSince
    /\ lastHost' = wdNow
    /\ checkStarted' = NotSince
    /\ checkTimer' = NextCheck
    /\ UNCHANGED <<wdNow, stopped, exited, downSince, cassandra>>

\* Seeded fault: unreachable time is counted from the last check that found a host.
CheckFindsNoHostFromLastHost ==
    /\ checkStarted # NotSince
    /\ cassandra = "down"
    /\ unreachableSince' = IF unreachableSince = NotSince THEN lastHost ELSE unreachableSince
    /\ checkStarted' = NotSince
    /\ \/ /\ wdNow >= unreachableSince' + MaxUnreachable
          /\ stopped' = TRUE /\ exited' = TRUE /\ checkTimer' = NotSince
       \/ /\ wdNow < unreachableSince' + MaxUnreachable
          /\ checkTimer' = NextCheck /\ UNCHANGED <<stopped, exited>>
    /\ UNCHANGED <<wdNow, lastHost, downSince, cassandra>>

(* NoHostAvailableError: the first one starts the count.  onUnreachable()  *)
(* exits the process.                                                      *)
CheckFindsNoHost ==
    /\ checkStarted # NotSince
    /\ cassandra = "down"
    /\ unreachableSince' = IF unreachableSince = NotSince THEN wdNow ELSE unreachableSince
    /\ checkStarted' = NotSince
    /\ \/ /\ wdNow >= unreachableSince' + MaxUnreachable
          /\ stopped' = TRUE /\ exited' = TRUE /\ checkTimer' = NotSince
       \/ /\ wdNow < unreachableSince' + MaxUnreachable
          /\ checkTimer' = NextCheck /\ UNCHANGED <<stopped, exited>>
    /\ UNCHANGED <<wdNow, lastHost, downSince, cassandra>>

WatchStop ==
    /\ ~stopped
    /\ stopped' = TRUE /\ checkTimer' = NotSince
    /\ UNCHANGED <<wdNow, unreachableSince, checkStarted, exited, lastHost, downSince, cassandra>>

WatchTick ==
    /\ wdNow < LastWatchTime
    /\ checkTimer > wdNow
    /\ checkStarted + QueryTimeout > wdNow
    /\ wdNow' = wdNow + 1
    /\ UNCHANGED <<unreachableSince, checkTimer, checkStarted, stopped, exited, lastHost, downSince, cassandra>>

WatchNext ==
    \/ CassandraChanges \/ CheckStarts \/ CheckFindsHost \/ CheckFindsNoHost
    \/ WatchStop \/ WatchTick

WatchSpec == WatchInit /\ [][WatchNext]_watchVars
-----------------------------------------------------------------------------
(* The node exits when it has to, and only then: not before a check after  *)
(* the last one that found a connection found none and maxUnreachableMs    *)
(* more have passed (a short outage, or timeouts on a live connection,     *)
(* never add up to it), and at the latest two checks past that time, also  *)
(* if checks are slow.                                                     *)
ExitsOnlyAndAlwaysAfterOutage ==
    /\ exited => wdNow >= lastHost + CheckInterval + MaxUnreachable
    /\ cassandra = "down" /\ ~stopped =>
          wdNow <= downSince + MaxUnreachable + 2 * (CheckInterval + QueryTimeout)
=============================================================================
