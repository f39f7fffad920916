--------------------------- MODULE RetentionSchedule ---------------------------
(***************************************************************************)
(* packages/node/src/plugins/storage/RetentionScheduler.ts, start(),       *)
(* schedule() and the last-run file: when retention runs, over restarts of *)
(* the node and changes of the clock. Timers count down in real time, the  *)
(* file holds the time of the clock.                                       *)
(***************************************************************************)
EXTENDS Integers

CONSTANTS
    IntervalHours,
    StartupDelay,       \* STARTUP_DELAY_MS
    MaxTime,            \* bound: the clock
    MaxClockChanges,    \* bound: how often the clock is set
    MaxRestarts         \* bound: the restarts of the node

\* The schema's minimum for intervalHours is an hour; the startup delay is ten minutes.
ASSUME IntervalAssumption ==
    /\ StartupDelay \in Nat \ {0}
    /\ IntervalHours \in Nat
    /\ StartupDelay <= IntervalHours
ASSUME ScheduleBounds == MaxTime \in Nat /\ MaxClockChanges \in Nat /\ MaxRestarts \in Nat

Time == 0 .. MaxTime
NoTime == -1

VARIABLES
    clock,          \* Date.now()
    stateFile,      \* the time in the last-run file, NoTime if there is none
    mode,           \* "down", "waiting" for the timer or "running"
    timer,          \* what is left of the timer
    sinceRecorded,  \* real time since the last run that was recorded, IntervalHours at most (history)
    clockChanges,
    restarts

vars == <<clock, stateFile, mode, timer, sinceRecorded, clockChanges, restarts>>

TypeOK ==
    /\ clock \in Time
    /\ stateFile \in Time \cup {NoTime}
    /\ mode \in {"down", "waiting", "running"}
    /\ timer \in Nat
    /\ mode # "waiting" => timer = 0      \* a stopped scheduler leaves no timer behind
    /\ sinceRecorded \in 0 .. IntervalHours
    /\ clockChanges \in 0 .. MaxClockChanges
    /\ restarts \in 0 .. MaxRestarts

Init ==
    /\ clock \in Time
    /\ stateFile = NoTime
    /\ mode = "down"
    /\ timer = 0
    /\ sinceRecorded = IntervalHours
    /\ clockChanges = 0
    /\ restarts = 0

-----------------------------------------------------------------------------
\* firstRunDelay: a file that is missing, from the future or older than the interval
\* defers nothing.
FirstRunDelay ==
    IF stateFile = NoTime \/ clock < stateFile \/ clock - stateFile >= IntervalHours
    THEN StartupDelay
    ELSE IF IntervalHours - (clock - stateFile) > StartupDelay
         THEN IntervalHours - (clock - stateFile) ELSE StartupDelay

Start ==
    /\ mode = "down"
    /\ mode' = "waiting"
    /\ timer' = FirstRunDelay
    /\ UNCHANGED <<clock, stateFile, sinceRecorded, clockChanges, restarts>>

\* Seeded fault: the start of the run is not written to the file.
RunStartsUnrecorded ==
    /\ mode = "waiting"
    /\ timer = 0
    /\ mode' = "running"
    /\ sinceRecorded' = 0
    /\ UNCHANGED <<clock, stateFile, timer, clockChanges, restarts>>

\* The timer: recordRun() writes the file, then runOnce() starts.
RunStarts ==
    /\ mode = "waiting"
    /\ timer = 0
    /\ mode' = "running"
    /\ stateFile' = clock
    /\ sinceRecorded' = 0
    /\ UNCHANGED <<clock, timer, clockChanges, restarts>>

\* The file cannot be written: a warning, and the run starts all the same.
RunStartsWithoutRecord ==
    /\ mode = "waiting"
    /\ timer = 0
    /\ mode' = "running"
    /\ UNCHANGED <<clock, stateFile, timer, sinceRecorded, clockChanges, restarts>>

\* runOnce() ends or fails: the next run comes an interval later.
RunEnds ==
    /\ mode = "running"
    /\ mode' = "waiting"
    /\ timer' = IntervalHours
    /\ UNCHANGED <<clock, stateFile, sinceRecorded, clockChanges, restarts>>

\* stop(), or a crash, at any time.
Stop ==
    /\ mode # "down"
    /\ restarts < MaxRestarts
    /\ restarts' = restarts + 1
    /\ mode' = "down"
    /\ timer' = 0
    /\ UNCHANGED <<clock, stateFile, sinceRecorded, clockChanges>>

Tick ==
    /\ clock < MaxTime
    /\ clock' = clock + 1
    /\ timer' = IF timer > 0 THEN timer - 1 ELSE 0
    /\ sinceRecorded' = IF sinceRecorded < IntervalHours THEN sinceRecorded + 1 ELSE sinceRecorded
    /\ UNCHANGED <<stateFile, mode, clockChanges, restarts>>

SetClock(t) ==
    /\ clockChanges < MaxClockChanges
    /\ clockChanges' = clockChanges + 1
    /\ clock' = t
    /\ UNCHANGED <<stateFile, mode, timer, sinceRecorded, restarts>>

Next ==
    \/ Start \/ RunStarts \/ RunStartsWithoutRecord \/ RunEnds \/ Stop \/ Tick
    \/ \E t \in Time : SetClock(t)

Spec == Init /\ [][Next]_vars

-----------------------------------------------------------------------------
\* "a node that keeps restarting does not repeat a full run on every start": however
\* often the node restarts, also in the middle of a run, a run starts at least
\* IntervalHours after the last recorded one (firstRunDelay, recordRun), unless the
\* clock was set.
RunsAreSpaced ==
    [][mode = "waiting" /\ mode' = "running" => sinceRecorded = IntervalHours \/ clockChanges > 0]_vars

\* No file, however wrong the clock that wrote it, defers a run by more than the
\* interval.
NeverDeferredLonger == timer <= IntervalHours

\* What RunsAreSpaced rests on: the file tells how long ago the last recorded run was,
\* and a timer outlasts what is left of its interval.
\* This is the inductive invariant.
ScheduleInv ==
    clockChanges = 0 =>
        /\ stateFile = NoTime => sinceRecorded = IntervalHours
        /\ stateFile # NoTime =>
              /\ stateFile <= clock
              /\ sinceRecorded = IF clock - stateFile < IntervalHours THEN clock - stateFile
                                 ELSE IntervalHours
        /\ mode = "waiting" => sinceRecorded + timer >= IntervalHours

\* The runs keep to the interval, from both sides: no file defers a run by more than
\* the interval, whatever clock wrote it, and no restart brings a run forward.
OnSchedule == []NeverDeferredLonger /\ RunsAreSpaced
=============================================================================
