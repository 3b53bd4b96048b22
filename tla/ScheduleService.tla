---------------------------- MODULE ScheduleService ----------------------------
(***************************************************************************)
(* ScheduleService and its file store: overlapping ticks, pause, resume,   *)
(* update, delete and run-once calls, each reading a schedule's file,      *)
(* waiting, and writing the whole file back.                               *)
(*                                                                         *)
(* A job is one asynchronous activation: a tick of the 1 s timer or an API *)
(* call.  Each await is a program counter.  writeFile truncates the file   *)
(* and then writes it, so a file can be seen empty, and two overlapping    *)
(* writes can leave text that no longer parses.  list() reads the files in *)
(* one step: reading them one after the other only adds staler snapshots.  *)
(***************************************************************************)
EXTENDS ScheduleRecord

CONSTANTS
    NumSchedules,   \* bound: schedules ever created
    Job,            \* slots for activations in progress
    Ops,            \* Ops[j]: what slot j is used for
    Expiry,         \* expiresAt values a create or an update may give
    RunLimit,       \* maxRuns values a create or an update may give
    Missing, Empty, Corrupt,    \* a file that is absent, truncated, unparsable
    MaxTime,        \* bound: the clock
    MaxRunIds,      \* bound: runs ever started
    MaxFailures,    \* bound: writes that fail
    MaxCrashes      \* bound: daemon crashes

(* Ids in the order of createdAt, which is the order list() returns. *)
Schedule == 1..NumSchedules

Operation == {"tick", "create", "pause", "resume", "update", "runOnce", "delete"}
ReadingOps == {"pause", "resume", "update", "runOnce"}

ASSUME OpsAssumption == Ops \in [Job -> SUBSET Operation]
ASSUME LimitAssumption == Expiry \subseteq Nat \cup {None} /\ RunLimit \subseteq (Nat \ {0}) \cup {None}
ASSUME ScheduleBounds == {NumSchedules, MaxTime, MaxRunIds, MaxFailures, MaxCrashes} \subseteq Nat
ASSUME FileAssumption == {Missing, Empty, Corrupt} \cap StoredSchedule = {}

VARIABLES
    file,           \* file[s]: a StoredSchedule, Missing, Empty or Corrupt
    created,        \* how many ids have been handed out
    runningIds,     \* runningScheduleIds
    job,            \* job[j]: the activation in slot j
    clock,          \* the time
    nextRunId,      \* the next run id
    up,             \* "down", "recovering" or "ready" (the timer is set)
    toRecover,      \* schedules recoverInterruptedRuns has not written yet
    bootedAt,       \* the `now` of recoverInterruptedRuns
    failures, crashes

vars == <<file, created, runningIds, job, clock, nextRunId, up, toRecover, bootedAt, failures,
          crashes>>
daemon == <<up, toRecover, bootedAt, crashes>>

File == StoredSchedule \cup {Missing, Empty, Corrupt}
parses(f) == f \notin {Missing, Empty, Corrupt}

idleJob == [op |-> "none", pc |-> "idle", s |-> 1, list |-> [s \in Schedule |-> Missing],
            now |-> 0, snap |-> Missing, then |-> "return", run |-> 0, ok |-> FALSE]

JobState == [op : Operation \cup {"none"},
             pc : {"idle", "listing", "loop", "inspecting", "inspected", "opening", "writing",
                   "unlinked", "executing", "finishing"},
             s : 1..(NumSchedules + 1), list : [Schedule -> File], now : 0..MaxTime, snap : File,
             then : {"return", "loop", "execute", "finally"}, run : 0..MaxRunIds, ok : BOOLEAN]

TypeOK ==
    /\ file \in [Schedule -> File]
    /\ created \in 0..NumSchedules
    /\ runningIds \subseteq Schedule
    /\ job \in [Job -> JobState]
    /\ clock \in 0..MaxTime
    /\ nextRunId \in 1..(MaxRunIds + 1)
    /\ up \in {"down", "recovering", "ready"}
    /\ toRecover \subseteq Schedule
    /\ bootedAt \in 0..MaxTime
    /\ failures \in 0..MaxFailures
    /\ crashes \in 0..MaxCrashes

Init ==
    /\ file = [s \in Schedule |-> Missing]
    /\ created = 0
    /\ runningIds = {}
    /\ job = [j \in Job |-> idleJob]
    /\ clock = 0
    /\ nextRunId = 1
    /\ up = "ready"
    /\ toRecover = {}
    /\ bootedAt = 0
    /\ failures = 0
    /\ crashes = 0

-----------------------------------------------------------------------------
(* Steps shared by every kind of activation. *)

Starts(j, op) == job[j].pc = "idle" /\ up = "ready" /\ op \in Ops[j]

Returns(j) == job' = [job EXCEPT ![j] = idleJob]

Puts(j, r, then) ==
    job' = [job EXCEPT ![j] = [@ EXCEPT !.pc = "opening", !.snap = r, !.then = then]]

manual(j) == job[j].op = "runOnce"

(* After runSchedule has resolved: the tick goes on, runOnce inspects and returns. *)
afterRun(j) ==
    IF manual(j) THEN idleJob
    ELSE [job[j] EXCEPT !.pc = "loop", !.s = @ + 1, !.snap = Missing, !.run = 0, !.ok = FALSE]

(* The put has resolved. *)
AfterPut(j) ==
    /\ runningIds' = IF job[j].then = "finally" THEN runningIds \ {job[j].s} ELSE runningIds
    /\ job' = [job EXCEPT ![j] = CASE @.then = "return" -> idleJob
                                   [] @.then = "loop" -> afterRun(j)
                                   [] @.then = "execute" -> [@ EXCEPT !.pc = "executing", !.snap = Missing]
                                   [] @.then = "finally" -> afterRun(j)]

PutOpens(j) ==
    /\ job[j].pc = "opening"
    /\ file' = [file EXCEPT ![job[j].s] = Empty]
    /\ job' = [job EXCEPT ![j].pc = "writing"]
    /\ UNCHANGED <<created, runningIds, clock, nextRunId, failures>> /\ UNCHANGED daemon

(* Over text another put wrote since the open, a shorter text leaves its tail. *)
PutWrites(j) ==
    /\ job[j].pc \in {"writing", "unlinked"}
    /\ LET s == job[j].s IN
       \E text \in (IF job[j].pc = "unlinked" THEN {file[s]}
                    ELSE IF file[s] = Empty THEN {job[j].snap} ELSE {job[j].snap, Corrupt}) :
           file' = [file EXCEPT ![s] = text]
    /\ AfterPut(j)
    /\ UNCHANGED <<created, clock, nextRunId, failures>> /\ UNCHANGED daemon

(* finishRun threw: once more with "failed" from the catch clause, then give up. *)
FinishThrows(j) ==
    IF job[j].ok
    THEN /\ job' = [job EXCEPT ![j] = [@ EXCEPT !.ok = FALSE, !.pc = "finishing"]]
         /\ UNCHANGED runningIds
    ELSE /\ runningIds' = runningIds \ {job[j].s}
         /\ Returns(j)

(* The put of the running record is outside the try: its id is never removed. *)
PutFails(j) ==
    /\ job[j].pc = "opening"
    /\ failures < MaxFailures
    /\ failures' = failures + 1
    /\ IF job[j].then = "finally" THEN FinishThrows(j) ELSE Returns(j) /\ UNCHANGED runningIds
    /\ UNCHANGED <<file, created, clock, nextRunId>> /\ UNCHANGED daemon

-----------------------------------------------------------------------------
(* create, pause, resume, update, delete. *)

Create(j) ==
    /\ Starts(j, "create")
    /\ created < NumSchedules
    /\ created' = created + 1
    /\ \E runOnCreate \in BOOLEAN, e \in Expiry, m \in RunLimit :
           job' = [job EXCEPT ![j] =
                     [@ EXCEPT !.op = "create", !.pc = "opening", !.s = created + 1,
                               !.snap = [status |-> "active", expiresAt |-> e, maxRuns |-> m,
                                         nextRunAt |-> IF runOnCreate THEN clock ELSE clock + Period,
                                         runs |-> <<>>]]]
    /\ UNCHANGED <<file, runningIds, clock, nextRunId, failures>> /\ UNCHANGED daemon

ScheduleCall(j) ==
    /\ \E op \in ReadingOps, s \in 1..created :
           /\ Starts(j, op)
           /\ job' = [job EXCEPT ![j] = [@ EXCEPT !.op = op, !.pc = "inspecting", !.s = s]]
    /\ UNCHANGED <<file, created, runningIds, clock, nextRunId, failures>> /\ UNCHANGED daemon

(* What each call may store in place of r; nothing when it throws or returns early. *)
Edits(op, r) ==
    CASE op = "pause"  -> IF r.status = "active" THEN {paused(r)} ELSE {}
      [] op = "resume" -> IF r.status = "paused" THEN {resumed(r, clock)} ELSE {}
      [] op = "update" -> {limitsUpdated(base, m, e) : base \in {r, cadenceUpdated(r, clock)},
                                                      m \in RunLimit \cup {r.maxRuns},
                                                      e \in Expiry \cup {r.expiresAt}}

Inspected(j) ==
    /\ job[j].pc = "inspecting"
    /\ LET f == file[job[j].s] IN
       \/ ~parses(f) /\ Returns(j)
       \/ /\ parses(f) /\ job[j].op = "runOnce"
          /\ job' = [job EXCEPT ![j] = [@ EXCEPT !.pc = "inspected", !.snap = f]]
       \/ /\ parses(f) /\ job[j].op # "runOnce"
          /\ IF Edits(job[j].op, f) = {} THEN Returns(j)
             ELSE \E r \in Edits(job[j].op, f) : Puts(j, r, "return")
    /\ UNCHANGED <<file, created, runningIds, clock, nextRunId, failures>> /\ UNCHANGED daemon

(* rm: a put that has the file open goes on writing to an unlinked file. *)
Delete(j) ==
    /\ Starts(j, "delete")
    /\ \E s \in 1..created :
          /\ file' = [file EXCEPT ![s] = Missing]
          /\ job' = [k \in Job |-> IF job[k].pc = "writing" /\ job[k].s = s
                                   THEN [job[k] EXCEPT !.pc = "unlinked"] ELSE job[k]]
    /\ UNCHANGED <<created, runningIds, clock, nextRunId, failures>> /\ UNCHANGED daemon

-----------------------------------------------------------------------------
(* runSchedule, for a tick and for runOnce. *)

BeginRun(j, r) ==
    /\ nextRunId <= MaxRunIds
    /\ nextRunId' = nextRunId + 1
    /\ runningIds' = runningIds \cup {job[j].s}
    /\ job' = [job EXCEPT ![j] = [@ EXCEPT !.pc = "opening", !.then = "execute", !.run = nextRunId,
                                           !.snap = withRun(r, nextRunId)]]

(* Variant: runOnce does not look for a run in progress. *)
runOnceAllowsOverlap(j) == job[j].snap.status # "completed"

runOnceAllowed(j) == job[j].snap.status # "completed" /\ job[j].s \notin runningIds

RunOnce(j) ==
    /\ job[j].pc = "inspected"
    /\ IF runOnceAllowed(j) THEN BeginRun(j, job[j].snap)
       ELSE Returns(j) /\ UNCHANGED <<runningIds, nextRunId>>
    /\ UNCHANGED <<file, created, clock, failures>> /\ UNCHANGED daemon

(* The agent's run has ended, one way or the other. *)
RunnerReturns(j) ==
    /\ job[j].pc = "executing"
    /\ \E ok \in BOOLEAN :
           job' = [job EXCEPT ![j] = [@ EXCEPT !.pc = "finishing", !.ok = ok, !.snap = Missing]]
    /\ UNCHANGED <<file, created, runningIds, clock, nextRunId, failures>> /\ UNCHANGED daemon

FinishRun(j) ==
    /\ job[j].pc = "finishing"
    /\ LET f == file[job[j].s] IN
       IF parses(f)
       THEN /\ Puts(j, finishRun(f, job[j].run, IF job[j].ok THEN "succeeded" ELSE "failed",
                                 manual(j), clock), "finally")
            /\ UNCHANGED runningIds
       ELSE FinishThrows(j)
    /\ UNCHANGED <<file, created, clock, nextRunId, failures>> /\ UNCHANGED daemon

-----------------------------------------------------------------------------
(* tick: one list(), then one schedule after the other. *)

(* Variant: a tick waits for the one before it. *)
TimerFiresAlone(j) ==
    /\ Starts(j, "tick")
    /\ \A k \in Job : job[k].op # "tick"
    /\ job' = [job EXCEPT ![j] = [@ EXCEPT !.op = "tick", !.pc = "listing", !.now = clock]]
    /\ UNCHANGED <<file, created, runningIds, clock, nextRunId, failures>> /\ UNCHANGED daemon

TimerFires(j) ==
    /\ Starts(j, "tick")
    /\ job' = [job EXCEPT ![j] = [@ EXCEPT !.op = "tick", !.pc = "listing", !.now = clock]]
    /\ UNCHANGED <<file, created, runningIds, clock, nextRunId, failures>> /\ UNCHANGED daemon

(* One file that does not parse rejects the whole list. *)
ListReads(j) ==
    /\ job[j].pc = "listing"
    /\ IF \E s \in Schedule : file[s] \in {Empty, Corrupt} THEN Returns(j)
       ELSE job' = [job EXCEPT ![j] = [@ EXCEPT !.pc = "loop", !.list = file]]
    /\ UNCHANGED <<file, created, runningIds, clock, nextRunId, failures>> /\ UNCHANGED daemon

listed(j) == job[j].list[job[j].s]

InLoop(j) == job[j].pc = "loop" /\ job[j].s \in Schedule

considers(j) ==
    /\ parses(listed(j)) /\ listed(j).status = "active" /\ listed(j).nextRunAt # None
    /\ job[j].s \notin runningIds

TickSkips(j) ==
    /\ InLoop(j)
    /\ considers(j) => /\ ~shouldCompleteSchedule(listed(j), job[j].now)
                       /\ ~isDue(listed(j), job[j].now)
    /\ job' = [job EXCEPT ![j].s = @ + 1]
    /\ UNCHANGED <<file, created, runningIds, clock, nextRunId, failures>> /\ UNCHANGED daemon

TickCompletes(j) ==
    /\ InLoop(j) /\ considers(j)
    /\ shouldCompleteSchedule(listed(j), job[j].now)
    /\ Puts(j, completeSchedule(listed(j)), "loop")
    /\ UNCHANGED <<file, created, runningIds, clock, nextRunId, failures>> /\ UNCHANGED daemon

TickRuns(j) ==
    /\ InLoop(j) /\ considers(j)
    /\ ~shouldCompleteSchedule(listed(j), job[j].now)
    /\ isDue(listed(j), job[j].now)
    /\ BeginRun(j, listed(j))
    /\ UNCHANGED <<file, created, clock, failures>> /\ UNCHANGED daemon

TickEnds(j) ==
    /\ job[j].pc = "loop" /\ job[j].s \notin Schedule
    /\ Returns(j)
    /\ UNCHANGED <<file, created, runningIds, clock, nextRunId, failures>> /\ UNCHANGED daemon

-----------------------------------------------------------------------------
(* The daemon: crash, start with recoverInterruptedRuns, and the clock. *)

(* A crash in the middle of recovery may leave the files it was writing empty. *)
Crash ==
    /\ crashes < MaxCrashes
    /\ up # "down"
    /\ crashes' = crashes + 1
    /\ \E torn \in SUBSET toRecover :
           file' = [s \in Schedule |-> IF s \in torn THEN Empty ELSE file[s]]
    /\ job' = [j \in Job |-> idleJob]
    /\ runningIds' = {}
    /\ up' = "down"
    /\ toRecover' = {}
    /\ UNCHANGED <<created, clock, nextRunId, bootedAt, failures>>

(* A file that does not parse rejects start(), and the daemon does not come up. *)
Start ==
    /\ up = "down"
    /\ \A s \in Schedule : file[s] \notin {Empty, Corrupt}
    /\ up' = "recovering"
    /\ bootedAt' = clock
    /\ toRecover' = {s \in Schedule : parses(file[s]) /\ recovered(file[s], clock) # file[s]}
    /\ UNCHANGED <<file, created, runningIds, job, clock, nextRunId, failures, crashes>>

RecoverInterruptedRun(s) ==
    /\ up = "recovering" /\ s \in toRecover
    /\ file' = [file EXCEPT ![s] = recovered(@, bootedAt)]
    /\ toRecover' = toRecover \ {s}
    /\ UNCHANGED <<created, runningIds, job, clock, nextRunId, up, bootedAt, failures, crashes>>

Ready ==
    /\ up = "recovering" /\ toRecover = {}
    /\ up' = "ready"
    /\ UNCHANGED <<file, created, runningIds, job, clock, nextRunId, toRecover, bootedAt, failures,
                   crashes>>

TimePasses ==
    /\ clock < MaxTime
    /\ clock' = clock + 1
    /\ UNCHANGED <<file, created, runningIds, job, nextRunId, failures>> /\ UNCHANGED daemon

PutStep(j) == PutOpens(j) \/ PutWrites(j) \/ PutFails(j)
CallStep(j) == Create(j) \/ ScheduleCall(j) \/ Inspected(j) \/ Delete(j)
RunStep(j) == RunOnce(j) \/ RunnerReturns(j) \/ FinishRun(j)
TickStep(j) ==
    TimerFires(j) \/ ListReads(j) \/ TickSkips(j) \/ TickCompletes(j) \/ TickRuns(j) \/ TickEnds(j)

Next ==
    \/ \E j \in Job : PutStep(j) \/ CallStep(j) \/ RunStep(j) \/ TickStep(j)
    \/ Crash \/ Start \/ Ready \/ TimePasses
    \/ \E s \in Schedule : RecoverInterruptedRun(s)

Spec == Init /\ [][Next]_vars

(* The timer keeps firing and the event loop serves every await of its own; *)
(* nothing forces an API call, the clock, or an agent to finish its run.    *)
Fairness ==
    \A j \in Job : /\ WF_vars(TickStep(j))
                   /\ WF_vars(PutOpens(j) \/ PutWrites(j))
                   /\ WF_vars(RunOnce(j) \/ FinishRun(j))

FairSpec == Spec /\ Fairness

-----------------------------------------------------------------------------
(* Safety. *)

(* Between the add to runningScheduleIds and the finally clause. *)
inRun(x) ==
    \/ x.pc \in {"executing", "finishing"}
    \/ x.pc \in {"opening", "writing", "unlinked"} /\ x.then \in {"execute", "finally"}

Running(j, s) == job[j].s = s /\ inRun(job[j])

(* Two runs of one schedule never overlap, though ticks overlap, work on     *)
(* stale lists and race with run-once calls (service.ts:319 and :333).       *)
OneRunPerSchedule ==
    \A i, j \in Job, s \in Schedule : Running(i, s) /\ Running(j, s) => i = j

(* A schedule stored as active always has a next run, whichever mix of       *)
(* snapshots and edits wrote it: without one, tick skips it for ever and     *)
(* does not even complete it when it expires (service.ts:330).               *)
ActiveHasNextRun ==
    \A s \in Schedule : parses(file[s]) /\ file[s].status = "active" => file[s].nextRunAt # None

(* A restart does not make up for runs missed while the daemon was down, nor *)
(* for those it has interrupted: once recovery is over, no schedule is due   *)
(* at the time it took for now, whatever its writes found                    *)
(* (service.test.ts:422).                                                    *)
NothingDueAfterRecovery ==
    [][up = "recovering" /\ up' = "ready" =>
         \A s \in Schedule : parses(file[s]) => ~isDue(file[s], bootedAt)]_vars

(* A deleted schedule's file never comes back (public-docs/mcp.md:52).       *)
DeletedForGood ==
    [][\A s \in Schedule :
          /\ s <= created /\ file[s] = Missing
          /\ \A j \in Job : ~(job[j].op = "create" /\ job[j].s = s)
          => file'[s] = Missing]_vars

(* Liveness. *)

(* A due schedule gets its run, or stops being due, although runs of other   *)
(* schedules may never end and a tick waits for each run it starts.          *)
DueScheduleRuns ==
    \A s \in Schedule :
        (parses(file[s]) /\ isDue(file[s], clock))
            ~> (s \in runningIds \/ ~parses(file[s]) \/ ~isDue(file[s], clock) \/ nextRunId > MaxRunIds)

=============================================================================
