---------------------------- MODULE ScheduleRecord ----------------------------
(***************************************************************************)
(* One stored schedule and the pure functions ScheduleService applies to   *)
(* it.  Time is counted in units of which Period make one cadence step; a  *)
(* cron cadence differs only in the length of its steps.  Of a run, the id *)
(* and the status are kept; names, prompts, targets and outputs are not.   *)
(***************************************************************************)
EXTENDS Naturals, Sequences, FiniteSets

CONSTANTS
    Period,         \* computeNextRunAt(t) - t
    None            \* "null"

ASSUME PeriodAssumption == Period \in Nat \ {0}
ASSUME NoneAssumption == None \notin Nat

Status == {"active", "paused", "completed"}
Run == [id : Nat \ {0}, status : {"running", "succeeded", "failed"}]
StoredSchedule == [status : Status, nextRunAt : Nat \cup {None}, expiresAt : Nat \cup {None},
                   maxRuns : (Nat \ {0}) \cup {None}, runs : Seq(Run)]

countCompletedRuns(r) == Cardinality({i \in DOMAIN r.runs : r.runs[i].status # "running"})

shouldCompleteSchedule(r, now) ==
    \/ r.expiresAt # None /\ r.expiresAt <= now
    \/ r.maxRuns # None /\ countCompletedRuns(r) >= r.maxRuns

completeSchedule(r) == [r EXCEPT !.status = "completed", !.nextRunAt = None]

(* Variant: one cadence step only, however long ago the last run was due. *)
oneStepAfter(after, now) == after + Period

(* The while loop: the first cadence step after `after` that is still ahead. *)
nextRunAfter(after, now) ==
    IF after + Period > now THEN after + Period
    ELSE after + Period * (((now - after) \div Period) + 1)

paused(r) == [r EXCEPT !.status = "paused", !.nextRunAt = None]

resumed(r, now) == [r EXCEPT !.status = "active", !.nextRunAt = now + Period]

(* update: a new cadence recomputes nextRunAt; the limits are replaced when given. *)
cadenceUpdated(r, now) ==
    [r EXCEPT !.nextRunAt = IF r.status = "active" THEN now + Period ELSE None]

limitsUpdated(r, maxRuns, expiresAt) ==
    [r EXCEPT !.maxRuns = maxRuns, !.expiresAt = expiresAt]

withRun(r, id) == [r EXCEPT !.runs = Append(@, [id |-> id, status |-> "running"])]

runEnded(r, id, status) ==
    [r EXCEPT !.runs = [i \in DOMAIN @ |-> IF @[i].id = id THEN [@[i] EXCEPT !.status = status]
                                           ELSE @[i]]]

(* Variant: a schedule that goes on is left without a next run. *)
finishForgetsNextRun(r, id, status, manual, now) ==
    LET ended == runEnded(r, id, status)
    IN  IF manual THEN ended
        ELSE IF shouldCompleteSchedule(ended, now) THEN completeSchedule(ended)
        ELSE [ended EXCEPT !.nextRunAt = None]

(* finishRun: what the file is to hold once the run is over. *)
finishRun(r, id, status, manual, now) ==
    LET ended == runEnded(r, id, status)
        after == IF r.nextRunAt = None THEN now ELSE r.nextRunAt
    IN  IF manual THEN ended
        ELSE IF shouldCompleteSchedule(ended, now) THEN completeSchedule(ended)
        ELSE IF r.status = "paused" THEN [ended EXCEPT !.nextRunAt = None]
        ELSE [ended EXCEPT !.nextRunAt = nextRunAfter(after, now)]

isDue(r, now) == r.status = "active" /\ r.nextRunAt # None /\ r.nextRunAt <= now

(* Variant: gives the run a status the file's schema does not know. *)
interruptedRunCompleted(r) ==
    [r EXCEPT !.runs = [i \in DOMAIN @ |-> IF @[i].status = "running"
                                           THEN [@[i] EXCEPT !.status = "completed"] ELSE @[i]]]

(* recoverInterruptedRuns: fails the first run still marked running. *)
interruptedRunFailed(r) ==
    LET running == {i \in DOMAIN r.runs : r.runs[i].status = "running"}
        first == CHOOSE i \in running : \A k \in running : i <= k
    IN  IF running = {} THEN r ELSE [r EXCEPT !.runs[first].status = "failed"]

recovered(r, now) ==
    LET failed == interruptedRunFailed(r)
    IN  IF isDue(r, now) THEN [failed EXCEPT !.nextRunAt = nextRunAfter(@, now)] ELSE failed

=============================================================================
