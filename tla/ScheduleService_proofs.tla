------------------------ MODULE ScheduleService_proofs ------------------------
(***************************************************************************)
(* Theorems about ScheduleService for any number of schedules, activations, *)
(* failing writes and crashes.                                             *)
(***************************************************************************)
EXTENDS ScheduleService, ScheduleRecord_proofs

-----------------------------------------------------------------------------
(* The inductive invariant. *)

(* What a file, a snapshot or an entry of a list may hold. *)
Stored(f) == f \in File /\ (parses(f) => HasNextRun(f))

WellFormed(x) ==
    /\ x \in JobState
    /\ x.pc = "idle" => x = idleJob
    /\ x.pc = "inspecting" => x.op \in ReadingOps
    /\ x.pc \notin {"idle", "listing", "loop"} => x.s \in Schedule
    /\ x.pc = "inspected" => parses(x.snap)
    /\ Stored(x.snap)
    /\ \A s \in Schedule : Stored(x.list[s])

(* Every copy of a record in use has a next run if it is active. *)
Records ==
    /\ \A s \in Schedule : Stored(file[s])
    /\ \A j \in Job : WellFormed(job[j])

(* A run in progress holds the id of its schedule. *)
RunOwnsId == \A j \in Job : inRun(job[j]) => job[j].s \in runningIds

(* No activation runs before recovery is over, and a schedule that recovery *)
(* has no more to write is not due.                                          *)
Recovery ==
    /\ up # "ready" => \A j \in Job : job[j].pc = "idle"
    /\ up = "recovering" =>
         \A s \in Schedule : IF s \in toRecover THEN parses(file[s])
                             ELSE parses(file[s]) => ~isDue(file[s], bootedAt)

IInv == TypeOK /\ Records /\ RunOwnsId /\ OneRunPerSchedule /\ Recovery

(* The part of TypeOK that speaks of counters. *)
Counters ==
    /\ created \in 0..NumSchedules
    /\ clock \in 0..MaxTime
    /\ nextRunId \in 1..(MaxRunIds + 1)
    /\ failures \in 0..MaxFailures

-----------------------------------------------------------------------------
(* Lemmas on files and activations. *)

LEMMA StoredRecord ==
    ASSUME NEW f, Stored(f), parses(f)
    PROVE  f \in StoredSchedule /\ HasNextRun(f)
BY DEF Stored, File, parses

LEMMA RecordStored ==
    ASSUME NEW r \in StoredSchedule, HasNextRun(r)
    PROVE  Stored(r)
BY DEF Stored, File

LEMMA NoRecordStored == Stored(Missing) /\ Stored(Empty) /\ Stored(Corrupt)
BY DEF Stored, File, parses

LEMMA IdleWellFormed == WellFormed(idleJob) /\ ~inRun(idleJob)
<1>1. 1 \in 1..(NumSchedules + 1) /\ 0 \in 0..MaxTime /\ 0 \in 0..MaxRunIds
    BY ScheduleBounds
<1>2. Missing \in File
    BY DEF File
<1>3. idleJob \in JobState
    BY <1>1, <1>2 DEF idleJob, JobState
<1>4. QED
    BY <1>3, NoRecordStored DEF WellFormed, idleJob, inRun

(* What is known of an activation, for use one fact at a time. *)
LEMMA JobFacts ==
    ASSUME IInv, NEW j \in Job
    PROVE  /\ WellFormed(job[j]) /\ job[j] \in JobState
           /\ job[j].pc \notin {"idle", "listing", "loop"} => job[j].s \in Schedule
           /\ job[j].pc # "idle" => up = "ready"
           /\ job[j].s \in Schedule => Stored(file[job[j].s]) /\ Stored(job[j].list[job[j].s])
           /\ Stored(job[j].snap)
BY DEF IInv, TypeOK, Records, WellFormed, Recovery

(* One activation moves: it keeps its schedule's id, takes a free id, or     *)
(* gives back the id it holds.                                               *)
LEMMA JobStep ==
    ASSUME IInv, NEW j \in Job, NEW x, WellFormed(x),
           job' = [job EXCEPT ![j] = x],
           up = "ready", UNCHANGED daemon,
           file' \in [Schedule -> File], \A s \in Schedule : Stored(file'[s]),
           Counters',
           \/ runningIds' = runningIds /\ (inRun(x) => inRun(job[j]) /\ x.s = job[j].s)
           \/ runningIds' = runningIds \cup {x.s} /\ x.s \in Schedule \ runningIds
           \/ runningIds' = runningIds \ {job[j].s} /\ inRun(job[j]) /\ ~inRun(x)
    PROVE  IInv'
<1>1. job \in [Job -> JobState] /\ x \in JobState
    BY DEF IInv, TypeOK, WellFormed
<1>2. /\ job' \in [Job -> JobState]
      /\ job'[j] = x
      /\ \A k \in Job \ {j} : job'[k] = job[k]
    BY <1>1
<1>3. TypeOK'
    <2>1. runningIds' \subseteq Schedule
        BY DEF IInv, TypeOK
    <2>2. QED
        BY <1>2, <2>1 DEF IInv, TypeOK, daemon, Counters
<1>4. Records'
    BY <1>2 DEF IInv, Records
<1>5. \A k \in Job : inRun(job[k]) /\ job[k].s = job[j].s /\ inRun(job[j]) => k = j
    BY DEF IInv, OneRunPerSchedule, Running, WellFormed, Records, JobState, inRun
<1>6. RunOwnsId'
    BY <1>2, <1>5 DEF IInv, RunOwnsId
<1>7. OneRunPerSchedule'
    <2> SUFFICES ASSUME NEW i \in Job, NEW k \in Job, NEW s \in Schedule,
                        Running(i, s)', Running(k, s)'
                 PROVE  i = k
        BY DEF OneRunPerSchedule
    <2>1. job'[i].s = s /\ inRun(job'[i]) /\ job'[k].s = s /\ inRun(job'[k])
        BY DEF Running, inRun
    <2>2. CASE i # j /\ k # j
        BY <2>1, <2>2, <1>2 DEF IInv, OneRunPerSchedule, Running
    <2>3. ASSUME NEW m \in Job \ {j}, inRun(job[m]), job[m].s = x.s, x.s = s, inRun(x)
          PROVE FALSE
        <3>1. x.s \in runningIds
            BY <2>3 DEF IInv, RunOwnsId
        <3>2. inRun(job[j]) /\ x.s = job[j].s
            BY <3>1, <2>3
        <3>3. QED
            BY <3>2, <2>3, <1>5
    <2>4. QED
        BY <2>1, <2>2, <2>3, <1>2
<1>8. Recovery'
    BY DEF Recovery, daemon
<1>9. QED
    BY <1>3, <1>4, <1>6, <1>7, <1>8 DEF IInv

LEMMA FilesKept ==
    ASSUME IInv, file' = file
    PROVE  file' \in [Schedule -> File] /\ \A s \in Schedule : Stored(file'[s])
BY DEF IInv, TypeOK, Records

LEMMA FileWritten ==
    ASSUME IInv, NEW s \in Schedule, NEW f, Stored(f), file' = [file EXCEPT ![s] = f]
    PROVE  file' \in [Schedule -> File] /\ \A k \in Schedule : Stored(file'[k])
BY DEF IInv, TypeOK, Records, Stored

LEMMA CountersKept ==
    ASSUME IInv, UNCHANGED <<created, clock, nextRunId, failures>>
    PROVE  Counters'
BY DEF IInv, TypeOK, Counters

(* An activation that only moves on, outside or inside its run. *)
LEMMA Moves ==
    ASSUME IInv, NEW j \in Job, NEW x, WellFormed(x), job' = [job EXCEPT ![j] = x], up = "ready",
           UNCHANGED <<file, created, runningIds, clock, nextRunId, failures>>, UNCHANGED daemon,
           inRun(x) => inRun(job[j]) /\ x.s = job[j].s
    PROVE  IInv'
BY JobStep, FilesKept, CountersKept

(* Putting a record, for a purpose inside the run only if the run is on. *)
LEMMA PutWellFormed ==
    ASSUME NEW x, WellFormed(x), x.s \in Schedule, NEW r \in StoredSchedule, HasNextRun(r),
           NEW then \in {"return", "loop", "execute", "finally"}
    PROVE  /\ WellFormed([x EXCEPT !.pc = "opening", !.snap = r, !.then = then])
           /\ inRun([x EXCEPT !.pc = "opening", !.snap = r, !.then = then])
                <=> then \in {"execute", "finally"}
           /\ [x EXCEPT !.pc = "opening", !.snap = r, !.then = then].s = x.s
<1>1. Stored(r) /\ r \in File
    BY RecordStored DEF File
<1>2. QED
    BY <1>1 DEF WellFormed, JobState, inRun

(* Where an activation stands once its run, or the put before it, is done. *)
LEMMA AfterRunWellFormed ==
    ASSUME IInv, NEW j \in Job, job[j].s \in Schedule
    PROVE  WellFormed(afterRun(j)) /\ ~inRun(afterRun(j))
<1>1. CASE manual(j)
    BY <1>1, IdleWellFormed DEF afterRun
<1>2. CASE ~manual(j)
    <2> DEFINE x == [job[j] EXCEPT !.pc = "loop", !.s = @ + 1, !.snap = Missing, !.run = 0, !.ok = FALSE]
    <2>1. afterRun(j) = x
        BY <1>2 DEF afterRun
    <2>2. /\ job[j].s + 1 \in 1..(NumSchedules + 1)
          /\ 0 \in 0..MaxRunIds
          /\ Missing \in File /\ Stored(Missing)
        BY ScheduleBounds, NoRecordStored DEF Schedule, File
    <2>3. job[j] \in JobState /\ \A s \in Schedule : Stored(job[j].list[s])
        BY JobFacts DEF WellFormed
    <2>4. x \in JobState /\ x.pc = "loop" /\ x.snap = Missing /\ x.list = job[j].list
        BY <2>2, <2>3 DEF JobState
    <2> HIDE DEF x
    <2>5. QED
        BY <2>1, <2>2, <2>3, <2>4 DEF WellFormed, inRun
<1>3. QED
    BY <1>1, <1>2

-----------------------------------------------------------------------------
(* One lemma per action: it preserves the invariant. *)

LEMMA PutOpensInv ==
    ASSUME IInv, NEW j \in Job, PutOpens(j)
    PROVE  IInv'
<1> USE DEF PutOpens
<1> DEFINE x == [job[j] EXCEPT !.pc = "writing"]
<1>1. job[j].s \in Schedule /\ WellFormed(job[j]) /\ job[j] \in JobState /\ up = "ready"
    BY JobFacts
<1>2. WellFormed(x) /\ x.s = job[j].s /\ (inRun(x) => inRun(job[j]))
    BY <1>1 DEF WellFormed, JobState, inRun
<1>3. job' = [job EXCEPT ![j] = x]
    BY <1>1 DEF IInv, TypeOK
<1>4. file' \in [Schedule -> File] /\ \A k \in Schedule : Stored(file'[k])
    BY <1>1, FileWritten, NoRecordStored
<1> HIDE DEF x
<1>5. QED
    BY <1>1, <1>2, <1>3, <1>4, JobStep, CountersKept

(* AfterPut moves one activation: see JobStep for the three cases of its id. *)
LEMMA AfterPutStep ==
    ASSUME IInv, NEW j \in Job, job[j].pc \in {"writing", "unlinked"}, AfterPut(j)
    PROVE  \E x : /\ WellFormed(x)
                 /\ job' = [job EXCEPT ![j] = x]
                 /\ \/ runningIds' = runningIds /\ (inRun(x) => inRun(job[j]) /\ x.s = job[j].s)
                    \/ runningIds' = runningIds \ {job[j].s} /\ inRun(job[j]) /\ ~inRun(x)
<1>1. job[j].s \in Schedule /\ WellFormed(job[j]) /\ job[j] \in JobState
    BY JobFacts
<1>2. WellFormed(afterRun(j)) /\ ~inRun(afterRun(j))
    BY <1>1, AfterRunWellFormed
<1>3. job[j].then \in {"return", "loop", "execute", "finally"}
    BY <1>1 DEF JobState
<1>4. job \in [Job -> JobState]
    BY DEF IInv, TypeOK
<1>5. CASE job[j].then = "return"
    <2>1. job' = [job EXCEPT ![j] = idleJob] /\ runningIds' = runningIds
        BY <1>4, <1>5 DEF AfterPut
    <2>2. QED
        BY <2>1, IdleWellFormed
<1>6. CASE job[j].then = "loop"
    <2>1. job' = [job EXCEPT ![j] = afterRun(j)] /\ runningIds' = runningIds
        BY <1>4, <1>6 DEF AfterPut
    <2>2. QED
        BY <2>1, <1>2
<1>7. CASE job[j].then = "execute"
    <2> DEFINE x == [job[j] EXCEPT !.pc = "executing", !.snap = Missing]
    <2>1. job' = [job EXCEPT ![j] = x] /\ runningIds' = runningIds
        BY <1>4, <1>7 DEF AfterPut
    <2>2. WellFormed(x) /\ x.s = job[j].s
        BY <1>1, NoRecordStored DEF WellFormed, JobState, File
    <2>3. inRun(job[j])
        BY <1>7 DEF inRun
    <2> HIDE DEF x
    <2>4. QED
        BY <2>1, <2>2, <2>3
<1>8. CASE job[j].then = "finally"
    <2>1. job' = [job EXCEPT ![j] = afterRun(j)] /\ runningIds' = runningIds \ {job[j].s}
        BY <1>4, <1>8 DEF AfterPut
    <2>2. inRun(job[j])
        BY <1>8 DEF inRun
    <2>3. QED
        BY <2>1, <2>2, <1>2
<1>9. QED
    BY <1>3, <1>5, <1>6, <1>7, <1>8

LEMMA PutWritesInv ==
    ASSUME IInv, NEW j \in Job, PutWrites(j)
    PROVE  IInv'
<1>1. job[j].pc \in {"writing", "unlinked"} /\ AfterPut(j)
    BY DEF PutWrites
<1>2. /\ job[j].s \in Schedule /\ up = "ready"
      /\ Stored(job[j].snap) /\ Stored(file[job[j].s])
    BY <1>1, JobFacts
<1>3. PICK text \in {file[job[j].s], job[j].snap, Corrupt} : file' = [file EXCEPT ![job[j].s] = text]
    BY DEF PutWrites
<1>4. file' \in [Schedule -> File] /\ \A k \in Schedule : Stored(file'[k])
    BY <1>2, <1>3, FileWritten, NoRecordStored
<1>5. UNCHANGED <<created, clock, nextRunId, failures>> /\ UNCHANGED daemon
    BY DEF PutWrites
<1>6. QED
    BY <1>1, <1>2, <1>4, <1>5, AfterPutStep, JobStep, CountersKept

(* FinishThrows, from a run that is on: retried once, then given up. *)
LEMMA FinishThrowsStep ==
    ASSUME IInv, NEW j \in Job, inRun(job[j]), FinishThrows(j)
    PROVE  \E x : /\ WellFormed(x)
                 /\ job' = [job EXCEPT ![j] = x]
                 /\ \/ runningIds' = runningIds /\ (inRun(x) => inRun(job[j]) /\ x.s = job[j].s)
                    \/ runningIds' = runningIds \ {job[j].s} /\ inRun(job[j]) /\ ~inRun(x)
<1>1. WellFormed(job[j]) /\ job[j] \in JobState /\ job \in [Job -> JobState]
    BY JobFacts DEF IInv, TypeOK
<1>2. CASE job[j].ok
    <2> DEFINE x == [job[j] EXCEPT !.ok = FALSE, !.pc = "finishing"]
    <2>1. job' = [job EXCEPT ![j] = x] /\ runningIds' = runningIds
        BY <1>1, <1>2 DEF FinishThrows
    <2>2. job[j].s \in Schedule
        BY <1>1 DEF inRun, WellFormed
    <2>3. WellFormed(x) /\ x.s = job[j].s
        BY <1>1, <2>2 DEF WellFormed, JobState
    <2> HIDE DEF x
    <2>4. QED
        BY <2>1, <2>3
<1>3. CASE ~job[j].ok
    <2>1. job' = [job EXCEPT ![j] = idleJob] /\ runningIds' = runningIds \ {job[j].s}
        BY <1>3 DEF FinishThrows, Returns
    <2>2. QED
        BY <2>1, IdleWellFormed
<1>4. QED
    BY <1>2, <1>3

LEMMA PutFailsInv ==
    ASSUME IInv, NEW j \in Job, PutFails(j)
    PROVE  IInv'
<1>1. /\ job[j].pc = "opening" /\ failures < MaxFailures /\ failures' = failures + 1
      /\ UNCHANGED <<file, created, clock, nextRunId>> /\ UNCHANGED daemon
    BY DEF PutFails
<1>2. up = "ready" /\ Counters'
    BY <1>1, JobFacts, ScheduleBounds DEF IInv, TypeOK, Counters
<1>3. CASE job[j].then = "finally"
    <2>1. inRun(job[j]) /\ FinishThrows(j)
        BY <1>1, <1>3 DEF inRun, PutFails
    <2>2. QED
        BY <1>1, <1>2, <2>1, FinishThrowsStep, JobStep, FilesKept
<1>4. CASE job[j].then # "finally"
    <2>1. job' = [job EXCEPT ![j] = idleJob] /\ runningIds' = runningIds
        BY <1>4 DEF PutFails, Returns
    <2>2. QED
        BY <1>1, <1>2, <2>1, IdleWellFormed, JobStep, FilesKept
<1>5. QED
    BY <1>3, <1>4

LEMMA IdleJobs ==
    ASSUME IInv, NEW j \in Job, up = "ready"
    PROVE  /\ job[j] \in JobState /\ WellFormed(job[j]) /\ job \in [Job -> JobState]
           /\ job[j].s \in Nat
BY JobFacts, ScheduleBounds DEF IInv, TypeOK, JobState

LEMMA CreateInv ==
    ASSUME IInv, NEW j \in Job, Create(j)
    PROVE  IInv'
<1>1. /\ job[j].pc = "idle" /\ up = "ready" /\ created < NumSchedules /\ created' = created + 1
      /\ UNCHANGED <<file, runningIds, clock, nextRunId, failures>> /\ UNCHANGED daemon
    BY DEF Create, Starts
<1>2. PICK runOnCreate \in BOOLEAN, e \in Expiry, m \in RunLimit :
          job' = [job EXCEPT ![j] =
                    [@ EXCEPT !.op = "create", !.pc = "opening", !.s = created + 1,
                              !.snap = [status |-> "active", expiresAt |-> e, maxRuns |-> m,
                                        nextRunAt |-> IF runOnCreate THEN clock ELSE clock + Period,
                                        runs |-> <<>>]]]
    BY DEF Create
<1> DEFINE r == [status |-> "active", expiresAt |-> e, maxRuns |-> m,
                 nextRunAt |-> IF runOnCreate THEN clock ELSE clock + Period, runs |-> <<>>]
           x == [job[j] EXCEPT !.op = "create", !.pc = "opening", !.s = created + 1, !.snap = r]
<1>3. /\ clock \in Nat /\ Counters'
      /\ created + 1 \in Schedule /\ created + 1 \in 1..(NumSchedules + 1)
    BY <1>1, ScheduleBounds DEF IInv, TypeOK, Counters, Schedule
<1>4. r \in StoredSchedule /\ HasNextRun(r)
    <2>1. <<>> \in Seq(Run)
        OBVIOUS
    <2>2. (IF runOnCreate THEN clock ELSE clock + Period) \in Nat
        BY <1>3, PeriodAssumption
    <2>3. e \in Nat \cup {None} /\ m \in (Nat \ {0}) \cup {None}
        BY LimitAssumption
    <2>4. QED
        BY <2>1, <2>2, <2>3, NoneAssumption DEF StoredSchedule, Status, HasNextRun
<1> HIDE DEF r
<1>5. Stored(r) /\ r \in File
    BY <1>4, RecordStored DEF File
<1>6. job[j] \in JobState /\ WellFormed(job[j]) /\ job \in [Job -> JobState]
    BY <1>1, IdleJobs
<1>7. job' = [job EXCEPT ![j] = x]
    BY <1>2, <1>6 DEF r
<1>8. WellFormed(x)
    BY <1>3, <1>5, <1>6 DEF WellFormed, JobState, Operation
<1>9. ~inRun(x)
    <2>1. job[j].then = "return"
        BY <1>1, <1>6 DEF WellFormed, idleJob
    <2>2. x.pc = "opening" /\ x.then = "return"
        BY <2>1, <1>6 DEF JobState
    <2>3. QED
        BY <2>2 DEF inRun
<1>10. QED
    BY <1>1, <1>3, <1>7, <1>8, <1>9, JobStep, FilesKept

LEMMA ScheduleCallInv ==
    ASSUME IInv, NEW j \in Job, ScheduleCall(j)
    PROVE  IInv'
<1>1. PICK op \in ReadingOps, s \in 1..created :
          /\ job[j].pc = "idle" /\ up = "ready"
          /\ job' = [job EXCEPT ![j] = [@ EXCEPT !.op = op, !.pc = "inspecting", !.s = s]]
    BY DEF ScheduleCall, Starts
<1> DEFINE x == [job[j] EXCEPT !.op = op, !.pc = "inspecting", !.s = s]
<1>2. job[j] \in JobState /\ WellFormed(job[j]) /\ job \in [Job -> JobState]
    BY <1>1, IdleJobs
<1>3. s \in Schedule /\ s \in 1..(NumSchedules + 1) /\ op \in Operation
    BY ScheduleBounds DEF IInv, TypeOK, Schedule, ReadingOps, Operation
<1>4. WellFormed(x) /\ ~inRun(x)
    BY <1>2, <1>3 DEF WellFormed, JobState, inRun
<1>5. job' = [job EXCEPT ![j] = x]
    BY <1>1, <1>2
<1> HIDE DEF x
<1>6. QED
    BY <1>1, <1>4, <1>5, Moves DEF ScheduleCall

(* pause, resume and update store well-formed records that keep their next run. *)
LEMMA EditsStored ==
    ASSUME IInv, NEW r \in StoredSchedule, HasNextRun(r), NEW op \in ReadingOps \ {"runOnce"},
           NEW e \in Edits(op, r)
    PROVE  e \in StoredSchedule /\ HasNextRun(e)
<1>1. clock \in Nat
    BY ScheduleBounds DEF IInv, TypeOK
<1>2. CASE op = "pause"
    <2>1. e = paused(r)
        BY <1>2 DEF Edits
    <2>2. QED
        BY <2>1, <1>1, Edited
<1>3. CASE op = "resume"
    <2>1. e = resumed(r, clock)
        BY <1>3 DEF Edits
    <2>2. QED
        BY <2>1, <1>1, Edited
<1>4. CASE op = "update"
    <2>1. PICK base \in {r, cadenceUpdated(r, clock)}, m \in RunLimit \cup {r.maxRuns},
               x \in Expiry \cup {r.expiresAt} : e = limitsUpdated(base, m, x)
        BY <1>4 DEF Edits
    <2>2. base \in StoredSchedule /\ HasNextRun(base)
        BY <2>1, <1>1, Edited
    <2>3. m \in (Nat \ {0}) \cup {None} /\ x \in Nat \cup {None}
        BY LimitAssumption DEF StoredSchedule
    <2>4. QED
        BY <2>1, <2>2, <2>3, Limited
<1>5. QED
    BY <1>2, <1>3, <1>4 DEF ReadingOps

LEMMA InspectedInv ==
    ASSUME IInv, NEW j \in Job, Inspected(j)
    PROVE  IInv'
<1> DEFINE f == file[job[j].s]
<1>1. /\ job[j].pc = "inspecting"
      /\ UNCHANGED <<file, created, runningIds, clock, nextRunId, failures>> /\ UNCHANGED daemon
    BY DEF Inspected
<1>2. /\ job[j] \in JobState /\ WellFormed(job[j]) /\ job[j].s \in Schedule
      /\ Stored(f) /\ up = "ready"
    BY <1>1, JobFacts
<1>3. job \in [Job -> JobState]
    BY DEF IInv, TypeOK
<1>4. CASE Returns(j)
    BY <1>1, <1>2, <1>4, IdleWellFormed, Moves DEF Returns
<1>5. CASE parses(f) /\ job' = [job EXCEPT ![j] = [@ EXCEPT !.pc = "inspected", !.snap = f]]
    <2> DEFINE x == [job[j] EXCEPT !.pc = "inspected", !.snap = f]
    <2>1. WellFormed(x) /\ ~inRun(x)
        BY <1>2, <1>5 DEF WellFormed, JobState, inRun, Stored
    <2>2. job' = [job EXCEPT ![j] = x]
        BY <1>3, <1>5
    <2> HIDE DEF x, f
    <2>3. QED
        BY <1>1, <1>2, <2>1, <2>2, Moves
<1>6. CASE /\ parses(f) /\ job[j].op \in ReadingOps \ {"runOnce"}
           /\ \E r \in Edits(job[j].op, f) : Puts(j, r, "return")
    <2>1. PICK r \in Edits(job[j].op, f) : Puts(j, r, "return")
        BY <1>6
    <2>2. f \in StoredSchedule /\ HasNextRun(f)
        BY <1>2, <1>6, StoredRecord
    <2>3. r \in StoredSchedule /\ HasNextRun(r)
        BY <1>6, <2>2, EditsStored
    <2>4. QED
        BY <1>1, <1>2, <1>3, <2>1, <2>3, PutWellFormed, Moves DEF Puts
<1>7. QED
    BY <1>1, <1>2, <1>4, <1>5, <1>6 DEF Inspected, WellFormed

(* A put that has the file open goes on as "unlinked": nothing else changes. *)
LEMMA DeleteInv ==
    ASSUME IInv, NEW j \in Job, Delete(j)
    PROVE  IInv'
<1>1. PICK s \in 1..created :
          /\ file' = [file EXCEPT ![s] = Missing]
          /\ job' = [k \in Job |-> IF job[k].pc = "writing" /\ job[k].s = s
                                   THEN [job[k] EXCEPT !.pc = "unlinked"] ELSE job[k]]
    BY DEF Delete
<1>2. /\ up = "ready" /\ UNCHANGED <<created, runningIds, clock, nextRunId, failures>>
      /\ UNCHANGED daemon
    BY DEF Delete, Starts
<1>3. s \in Schedule
    BY <1>1, ScheduleBounds DEF IInv, TypeOK, Schedule
<1>4. file' \in [Schedule -> File] /\ \A k \in Schedule : Stored(file'[k])
    BY <1>1, <1>3, FileWritten, NoRecordStored
<1>5. ASSUME NEW k \in Job
      PROVE  WellFormed(job'[k]) /\ job'[k].s = job[k].s /\ (inRun(job'[k]) <=> inRun(job[k]))
    <2>1. WellFormed(job[k]) /\ job[k] \in JobState
        BY JobFacts
    <2>2. CASE job[k].pc = "writing" /\ job[k].s = s
        <3>1. job'[k] = [job[k] EXCEPT !.pc = "unlinked"]
            BY <1>1, <2>2
        <3>2. QED
            BY <2>1, <2>2, <3>1 DEF WellFormed, JobState, inRun
    <2>3. CASE ~(job[k].pc = "writing" /\ job[k].s = s)
        BY <1>1, <2>1, <2>3
    <2>4. QED
        BY <2>2, <2>3
<1>6. TypeOK'
    <2>1. job' \in [Job -> JobState]
        BY <1>1, <1>5 DEF WellFormed
    <2>2. QED
        BY <1>2, <1>4, <2>1 DEF IInv, TypeOK, daemon
<1>7. Records'
    BY <1>4, <1>5 DEF Records
<1>8. RunOwnsId'
    BY <1>2, <1>5 DEF IInv, RunOwnsId
<1>9. OneRunPerSchedule'
    BY <1>5 DEF IInv, OneRunPerSchedule, Running
<1>10. Recovery'
    BY <1>2 DEF Recovery, daemon
<1>11. QED
    BY <1>6, <1>7, <1>8, <1>9, <1>10 DEF IInv

(* A run begins from a good record, for a schedule whose id is free. *)
LEMMA BeginRunInv ==
    ASSUME IInv, NEW j \in Job, NEW r \in StoredSchedule, HasNextRun(r), BeginRun(j, r),
           job[j].s \in Schedule \ runningIds, up = "ready",
           UNCHANGED <<file, created, clock, failures>>, UNCHANGED daemon
    PROVE  IInv'
<1> DEFINE x == [job[j] EXCEPT !.pc = "opening", !.then = "execute", !.run = nextRunId,
                               !.snap = withRun(r, nextRunId)]
<1>1. job[j] \in JobState /\ WellFormed(job[j]) /\ job \in [Job -> JobState]
    BY JobFacts DEF IInv, TypeOK
<1>2. /\ nextRunId \in Nat \ {0} /\ nextRunId \in 0..MaxRunIds
      /\ nextRunId' = nextRunId + 1 /\ nextRunId' \in 1..(MaxRunIds + 1)
      /\ runningIds' = runningIds \cup {job[j].s}
    BY ScheduleBounds DEF IInv, TypeOK, BeginRun
<1>3. withRun(r, nextRunId) \in StoredSchedule /\ HasNextRun(withRun(r, nextRunId))
    BY <1>2, WithRun DEF HasNextRun
<1>4. Stored(withRun(r, nextRunId)) /\ withRun(r, nextRunId) \in File
    BY <1>3, RecordStored DEF File
<1>5. job' = [job EXCEPT ![j] = x]
    BY <1>1 DEF BeginRun
<1>6. WellFormed(x) /\ x.s = job[j].s
    BY <1>1, <1>2, <1>4 DEF WellFormed, JobState
<1>7. Counters'
    BY <1>2 DEF IInv, TypeOK, Counters
<1> HIDE DEF x
<1>8. QED
    BY <1>2, <1>5, <1>6, <1>7, JobStep, FilesKept

LEMMA RunOnceInv ==
    ASSUME IInv, NEW j \in Job, RunOnce(j)
    PROVE  IInv'
<1>1. job[j].pc = "inspected" /\ UNCHANGED <<file, created, clock, failures>> /\ UNCHANGED daemon
    BY DEF RunOnce
<1>2. /\ job[j].s \in Schedule /\ Stored(job[j].snap) /\ parses(job[j].snap) /\ up = "ready"
    BY <1>1, JobFacts DEF WellFormed
<1>3. CASE runOnceAllowed(j)
    <2>1. BeginRun(j, job[j].snap) /\ job[j].s \notin runningIds
        BY <1>3 DEF RunOnce, runOnceAllowed
    <2>2. QED
        BY <1>1, <1>2, <2>1, StoredRecord, BeginRunInv
<1>4. CASE ~runOnceAllowed(j)
    <2>1. job' = [job EXCEPT ![j] = idleJob] /\ UNCHANGED <<runningIds, nextRunId>>
        BY <1>4 DEF RunOnce, Returns
    <2>2. QED
        BY <1>1, <1>2, <2>1, IdleWellFormed, Moves
<1>5. QED
    BY <1>3, <1>4

LEMMA RunnerReturnsInv ==
    ASSUME IInv, NEW j \in Job, RunnerReturns(j)
    PROVE  IInv'
<1>1. PICK ok \in BOOLEAN :
          job' = [job EXCEPT ![j] = [@ EXCEPT !.pc = "finishing", !.ok = ok, !.snap = Missing]]
    BY DEF RunnerReturns
<1> DEFINE x == [job[j] EXCEPT !.pc = "finishing", !.ok = ok, !.snap = Missing]
<1>2. job[j].pc = "executing" /\ UNCHANGED <<file, created, runningIds, clock, nextRunId, failures>>
      /\ UNCHANGED daemon
    BY DEF RunnerReturns
<1>3. /\ job[j] \in JobState /\ WellFormed(job[j]) /\ job[j].s \in Schedule /\ up = "ready"
      /\ job \in [Job -> JobState]
    BY <1>2, JobFacts DEF IInv, TypeOK
<1>4. WellFormed(x) /\ x.s = job[j].s /\ inRun(job[j])
    BY <1>2, <1>3, NoRecordStored DEF WellFormed, JobState, inRun, File
<1>5. job' = [job EXCEPT ![j] = x]
    BY <1>1, <1>3
<1> HIDE DEF x
<1>6. QED
    BY <1>2, <1>3, <1>4, <1>5, Moves

LEMMA FinishRunInv ==
    ASSUME IInv, NEW j \in Job, FinishRun(j)
    PROVE  IInv'
<1> DEFINE f == file[job[j].s]
           r == finishRun(f, job[j].run, IF job[j].ok THEN "succeeded" ELSE "failed", manual(j), clock)
<1>1. job[j].pc = "finishing" /\ UNCHANGED <<file, created, clock, nextRunId, failures>>
      /\ UNCHANGED daemon
    BY DEF FinishRun
<1>2. /\ job[j] \in JobState /\ WellFormed(job[j]) /\ job[j].s \in Schedule /\ up = "ready"
      /\ Stored(f) /\ inRun(job[j])
    BY <1>1, JobFacts DEF inRun
<1>3. CASE parses(f)
    <2>1. f \in StoredSchedule /\ HasNextRun(f)
        BY <1>2, <1>3, StoredRecord
    <2>2. clock \in Nat /\ manual(j) \in BOOLEAN
        BY ScheduleBounds DEF IInv, TypeOK, manual
    <2>3. r \in StoredSchedule /\ HasNextRun(r)
        BY <2>1, <2>2, Finished
    <2>4. Puts(j, r, "finally") /\ UNCHANGED runningIds
        BY <1>3 DEF FinishRun
    <2> HIDE DEF r, f
    <2> DEFINE x == [job[j] EXCEPT !.pc = "opening", !.snap = r, !.then = "finally"]
    <2>5. job' = [job EXCEPT ![j] = x]
        BY <2>4, SMTT(30) DEF Puts, IInv, TypeOK
    <2>6. WellFormed(x) /\ x.s = job[j].s
        BY <1>2, <2>3, PutWellFormed
    <2> HIDE DEF x
    <2>7. QED
        BY <1>1, <1>2, <2>4, <2>5, <2>6, Moves
<1>4. CASE ~parses(f)
    <2>1. FinishThrows(j)
        BY <1>4 DEF FinishRun
    <2>2. QED
        BY <1>1, <1>2, <2>1, FinishThrowsStep, JobStep, FilesKept, CountersKept
<1>5. QED
    BY <1>3, <1>4

LEMMA TimerFiresInv ==
    ASSUME IInv, NEW j \in Job, TimerFires(j)
    PROVE  IInv'
<1> DEFINE x == [job[j] EXCEPT !.op = "tick", !.pc = "listing", !.now = clock]
<1>1. /\ job[j].pc = "idle" /\ up = "ready" /\ UNCHANGED daemon
      /\ UNCHANGED <<file, created, runningIds, clock, nextRunId, failures>>
    BY DEF TimerFires, Starts
<1>2. job[j] \in JobState /\ WellFormed(job[j]) /\ job \in [Job -> JobState] /\ clock \in 0..MaxTime
    BY <1>1, IdleJobs DEF IInv, TypeOK
<1>3. WellFormed(x) /\ ~inRun(x)
    BY <1>2 DEF WellFormed, JobState, inRun, Operation
<1>4. job' = [job EXCEPT ![j] = x]
    BY <1>2 DEF TimerFires
<1> HIDE DEF x
<1>5. QED
    BY <1>1, <1>3, <1>4, Moves

LEMMA ListReadsInv ==
    ASSUME IInv, NEW j \in Job, ListReads(j)
    PROVE  IInv'
<1> DEFINE x == [job[j] EXCEPT !.pc = "loop", !.list = file]
<1>1. /\ job[j].pc = "listing" /\ UNCHANGED daemon
      /\ UNCHANGED <<file, created, runningIds, clock, nextRunId, failures>>
    BY DEF ListReads
<1>2. /\ job[j] \in JobState /\ WellFormed(job[j]) /\ job \in [Job -> JobState] /\ up = "ready"
      /\ file \in [Schedule -> File] /\ \A s \in Schedule : Stored(file[s])
    BY <1>1, JobFacts DEF IInv, TypeOK, Records
<1>3. WellFormed(x) /\ ~inRun(x)
    BY <1>2 DEF WellFormed, JobState, inRun
<1>4. job' = [job EXCEPT ![j] = idleJob] \/ job' = [job EXCEPT ![j] = x]
    BY <1>2 DEF ListReads, Returns
<1> HIDE DEF x
<1>5. QED
    BY <1>1, <1>2, <1>3, <1>4, IdleWellFormed, Moves

LEMMA TickSkipsInv ==
    ASSUME IInv, NEW j \in Job, TickSkips(j)
    PROVE  IInv'
<1> DEFINE x == [job[j] EXCEPT !.s = @ + 1]
<1>1. /\ job[j].pc = "loop" /\ job[j].s \in Schedule /\ UNCHANGED daemon
      /\ UNCHANGED <<file, created, runningIds, clock, nextRunId, failures>>
    BY DEF TickSkips, InLoop
<1>2. job[j] \in JobState /\ WellFormed(job[j]) /\ job \in [Job -> JobState] /\ up = "ready"
    BY <1>1, JobFacts DEF IInv, TypeOK
<1>3. job[j].s + 1 \in 1..(NumSchedules + 1)
    BY <1>1, ScheduleBounds DEF Schedule
<1>4. WellFormed(x) /\ ~inRun(x)
    BY <1>1, <1>2, <1>3 DEF WellFormed, JobState, inRun
<1>5. job' = [job EXCEPT ![j] = x]
    BY <1>2 DEF TickSkips
<1> HIDE DEF x
<1>6. QED
    BY <1>1, <1>2, <1>4, <1>5, Moves

(* What a tick acts on is an active record from its list, on a free id. *)
LEMMA Considered ==
    ASSUME IInv, NEW j \in Job, InLoop(j), considers(j)
    PROVE  /\ listed(j) \in StoredSchedule /\ HasNextRun(listed(j))
           /\ job[j].s \in Schedule \ runningIds /\ up = "ready"
           /\ job[j] \in JobState /\ WellFormed(job[j]) /\ job \in [Job -> JobState]
<1>1. job[j].pc = "loop" /\ job[j].s \in Schedule
    BY DEF InLoop
<1>2. parses(listed(j)) /\ job[j].s \notin runningIds
    BY DEF considers
<1>3. Stored(listed(j))
    BY <1>1, JobFacts DEF listed
<1>4. QED
    BY <1>1, <1>2, <1>3, StoredRecord, JobFacts DEF IInv, TypeOK

LEMMA TickCompletesInv ==
    ASSUME IInv, NEW j \in Job, TickCompletes(j)
    PROVE  IInv'
<1> DEFINE r == completeSchedule(listed(j))
           x == [job[j] EXCEPT !.pc = "opening", !.snap = r, !.then = "loop"]
<1>1. /\ InLoop(j) /\ considers(j) /\ Puts(j, r, "loop") /\ UNCHANGED daemon
      /\ UNCHANGED <<file, created, runningIds, clock, nextRunId, failures>>
    BY DEF TickCompletes
<1>2. r \in StoredSchedule /\ HasNextRun(r)
    BY <1>1, Considered, Completed
<1> HIDE DEF r
<1>3. WellFormed(x) /\ ~inRun(x)
    BY <1>1, <1>2, Considered, PutWellFormed
<1>4. job' = [job EXCEPT ![j] = x]
    BY <1>1, Considered DEF Puts
<1> HIDE DEF x
<1>5. QED
    BY <1>1, <1>3, <1>4, Considered, Moves

LEMMA TickRunsInv ==
    ASSUME IInv, NEW j \in Job, TickRuns(j)
    PROVE  IInv'
<1>1. /\ InLoop(j) /\ considers(j) /\ BeginRun(j, listed(j))
      /\ UNCHANGED <<file, created, clock, failures>> /\ UNCHANGED daemon
    BY DEF TickRuns
<1>2. QED
    BY <1>1, Considered, BeginRunInv

LEMMA TickEndsInv ==
    ASSUME IInv, NEW j \in Job, TickEnds(j)
    PROVE  IInv'
<1>1. /\ job[j].pc = "loop" /\ job' = [job EXCEPT ![j] = idleJob] /\ UNCHANGED daemon
      /\ UNCHANGED <<file, created, runningIds, clock, nextRunId, failures>>
    BY DEF TickEnds, Returns
<1>2. up = "ready"
    BY <1>1, JobFacts
<1>3. QED
    BY <1>1, <1>2, IdleWellFormed, Moves

-----------------------------------------------------------------------------
(* The daemon's own actions. *)

LEMMA CrashInv ==
    ASSUME IInv, Crash
    PROVE  IInv'
<1>1. PICK torn \in SUBSET toRecover :
          file' = [s \in Schedule |-> IF s \in torn THEN Empty ELSE file[s]]
    BY DEF Crash
<1>2. /\ job' = [j \in Job |-> idleJob] /\ runningIds' = {} /\ up' = "down" /\ toRecover' = {}
      /\ crashes < MaxCrashes /\ crashes' = crashes + 1
      /\ UNCHANGED <<created, clock, nextRunId, bootedAt, failures>>
    BY DEF Crash
<1>3. \A s \in Schedule : Stored(file'[s])
    BY <1>1, NoRecordStored DEF IInv, Records
<1>4. \A j \in Job : WellFormed(job'[j]) /\ ~inRun(job'[j]) /\ job'[j].pc = "idle"
    BY <1>2, IdleWellFormed DEF idleJob
<1>5. TypeOK'
    <2>1. file' \in [Schedule -> File]
        BY <1>1 DEF IInv, TypeOK, File
    <2>2. job' \in [Job -> JobState]
        BY <1>2, IdleWellFormed DEF WellFormed
    <2>3. crashes' \in 0..MaxCrashes
        BY <1>2, ScheduleBounds DEF IInv, TypeOK
    <2>4. QED
        BY <1>2, <2>1, <2>2, <2>3 DEF IInv, TypeOK
<1>6. Records' /\ RunOwnsId'
    BY <1>3, <1>4 DEF Records, RunOwnsId
<1>7. OneRunPerSchedule'
    BY <1>4 DEF OneRunPerSchedule, Running
<1>8. Recovery'
    BY <1>2, <1>4 DEF Recovery
<1>9. QED
    BY <1>5, <1>6, <1>7, <1>8 DEF IInv

(* What Start leaves out of recovery is not due: recovery would change it. *)
LEMMA StartInv ==
    ASSUME IInv, Start
    PROVE  IInv'
<1>1. /\ up = "down" /\ up' = "recovering" /\ bootedAt' = clock
      /\ toRecover' = {s \in Schedule : parses(file[s]) /\ recovered(file[s], clock) # file[s]}
      /\ UNCHANGED <<file, created, runningIds, job, clock, nextRunId, failures, crashes>>
    BY DEF Start
<1>2. TypeOK'
    BY <1>1 DEF IInv, TypeOK
<1>3. Records'
    BY <1>1 DEF IInv, Records, WellFormed
<1>4. RunOwnsId' /\ OneRunPerSchedule'
    BY <1>1 DEF IInv, RunOwnsId, OneRunPerSchedule, Running, inRun
<1>5. ASSUME NEW s \in Schedule, s \notin toRecover', parses(file[s])
      PROVE  ~isDue(file[s], clock)
    <2>1. recovered(file[s], clock) = file[s]
        BY <1>1, <1>5
    <2>2. file[s] \in StoredSchedule /\ HasNextRun(file[s])
        BY <1>5, StoredRecord DEF IInv, Records
    <2>3. clock \in Nat
        BY ScheduleBounds DEF IInv, TypeOK
    <2>4. ~isDue(recovered(file[s], clock), clock)
        BY <2>2, <2>3, RecoveryCatchesUp
    <2>5. QED
        BY <2>1, <2>4
<1>6. Recovery'
    BY <1>1, <1>5 DEF IInv, Recovery
<1>7. QED
    BY <1>2, <1>3, <1>4, <1>6 DEF IInv

LEMMA RecoverInterruptedRunInv ==
    ASSUME IInv, NEW s \in Schedule, RecoverInterruptedRun(s)
    PROVE  IInv'
<1>1. /\ up = "recovering" /\ s \in toRecover
      /\ file' = [file EXCEPT ![s] = recovered(file[s], bootedAt)]
      /\ toRecover' = toRecover \ {s}
      /\ UNCHANGED <<created, runningIds, job, clock, nextRunId, up, bootedAt, failures, crashes>>
    BY DEF RecoverInterruptedRun, IInv, TypeOK
<1>2. file[s] \in StoredSchedule /\ HasNextRun(file[s])
    BY <1>1, StoredRecord DEF IInv, Records, Recovery
<1>3. bootedAt \in Nat
    BY ScheduleBounds DEF IInv, TypeOK
<1> DEFINE r == recovered(file[s], bootedAt)
<1>4. r \in StoredSchedule /\ HasNextRun(r) /\ ~isDue(r, bootedAt)
    BY <1>2, <1>3, RecoveryCatchesUp
<1> HIDE DEF r
<1>5. /\ file' \in [Schedule -> File] /\ \A k \in Schedule : Stored(file'[k])
      /\ file'[s] = r /\ \A k \in Schedule \ {s} : file'[k] = file[k]
    BY <1>1, <1>4, RecordStored, FileWritten DEF r, IInv, TypeOK
<1>6. TypeOK'
    BY <1>1, <1>5 DEF IInv, TypeOK
<1>7. Records'
    BY <1>1, <1>5 DEF IInv, Records, WellFormed
<1>8. RunOwnsId' /\ OneRunPerSchedule'
    BY <1>1 DEF IInv, RunOwnsId, OneRunPerSchedule, Running, inRun
<1>9. Recovery'
    BY <1>1, <1>4, <1>5 DEF IInv, Recovery
<1>10. QED
    BY <1>6, <1>7, <1>8, <1>9 DEF IInv

LEMMA ReadyInv ==
    ASSUME IInv, Ready
    PROVE  IInv' /\ \A s \in Schedule : parses(file[s]) => ~isDue(file[s], bootedAt)
<1>1. /\ up = "recovering" /\ toRecover = {} /\ up' = "ready"
      /\ UNCHANGED <<file, created, runningIds, job, clock, nextRunId, toRecover, bootedAt, failures,
                     crashes>>
    BY DEF Ready
<1>2. TypeOK'
    BY <1>1 DEF IInv, TypeOK
<1>3. Records' /\ RunOwnsId' /\ OneRunPerSchedule'
    BY <1>1 DEF IInv, Records, WellFormed, RunOwnsId, OneRunPerSchedule, Running, inRun
<1>4. Recovery'
    BY <1>1 DEF Recovery
<1>5. \A s \in Schedule : parses(file[s]) => ~isDue(file[s], bootedAt)
    BY <1>1 DEF IInv, Recovery
<1>6. QED
    BY <1>2, <1>3, <1>4, <1>5 DEF IInv

LEMMA TimePassesInv ==
    ASSUME IInv, TimePasses
    PROVE  IInv'
<1>1. /\ clock < MaxTime /\ clock' = clock + 1
      /\ UNCHANGED <<file, created, runningIds, job, nextRunId, failures>> /\ UNCHANGED daemon
    BY DEF TimePasses
<1>2. TypeOK'
    BY <1>1, ScheduleBounds DEF IInv, TypeOK, daemon
<1>3. Records' /\ RunOwnsId' /\ OneRunPerSchedule' /\ Recovery'
    BY <1>1 DEF IInv, Records, WellFormed, RunOwnsId, OneRunPerSchedule, Running, inRun, Recovery, daemon
<1>4. QED
    BY <1>2, <1>3 DEF IInv

LEMMA StutterInv ==
    ASSUME IInv, UNCHANGED vars
    PROVE  IInv'
<1>1. TypeOK'
    BY DEF IInv, TypeOK, vars
<1>2. Records' /\ RunOwnsId' /\ OneRunPerSchedule' /\ Recovery'
    BY DEF IInv, Records, WellFormed, RunOwnsId, OneRunPerSchedule, Running, inRun, Recovery, vars
<1>3. QED
    BY <1>1, <1>2 DEF IInv

-----------------------------------------------------------------------------
(* The theorems. *)

LEMMA InitInv == Init => IInv
<1> SUFFICES ASSUME Init PROVE IInv
    OBVIOUS
<1>1. WellFormed(idleJob) /\ ~inRun(idleJob) /\ idleJob.pc = "idle"
    BY IdleWellFormed DEF idleJob
<1>2. TypeOK
    BY <1>1, ScheduleBounds DEF Init, TypeOK, WellFormed, File
<1>3. Records
    BY <1>1, NoRecordStored DEF Init, Records
<1>4. RunOwnsId /\ OneRunPerSchedule /\ Recovery
    BY <1>1 DEF Init, RunOwnsId, OneRunPerSchedule, Running, Recovery
<1>5. QED
    BY <1>2, <1>3, <1>4 DEF IInv

LEMMA NextInv == IInv /\ [Next]_vars => IInv'
<1> SUFFICES ASSUME IInv, [Next]_vars PROVE IInv'
    OBVIOUS
<1>1. ASSUME NEW j \in Job, PutStep(j) PROVE IInv'
    BY <1>1, PutOpensInv, PutWritesInv, PutFailsInv DEF PutStep
<1>2. ASSUME NEW j \in Job, CallStep(j) PROVE IInv'
    BY <1>2, CreateInv, ScheduleCallInv, InspectedInv, DeleteInv DEF CallStep
<1>3. ASSUME NEW j \in Job, RunStep(j) PROVE IInv'
    BY <1>3, RunOnceInv, RunnerReturnsInv, FinishRunInv DEF RunStep
<1>4. ASSUME NEW j \in Job, TickStep(j) PROVE IInv'
    BY <1>4, TimerFiresInv, ListReadsInv, TickSkipsInv, TickCompletesInv, TickRunsInv, TickEndsInv
       DEF TickStep
<1>5. ASSUME NEW s \in Schedule, RecoverInterruptedRun(s) PROVE IInv'
    BY <1>5, RecoverInterruptedRunInv
<1>6. QED
    BY <1>1, <1>2, <1>3, <1>4, <1>5, CrashInv, StartInv, ReadyInv, TimePassesInv, StutterInv DEF Next

(* The inductive invariant holds in every reachable state. *)
THEOREM ScheduleInductive == Spec => []IInv
<1>1. QED
    BY InitInv, NextInv, PTL DEF Spec

(* Files, snapshots and activations keep their types; in particular every    *)
(* record a put writes satisfies the schema that list() parses it with.      *)
THEOREM ScheduleTypeCorrect == Spec => []TypeOK
<1>1. IInv => TypeOK
    BY DEF IInv
<1>2. QED
    BY <1>1, ScheduleInductive, PTL

(* Two runs of one schedule never overlap, whatever ticks, run-once calls,   *)
(* failing writes and restarts there are (service.ts:319 and :333).          *)
THEOREM NoOverlappingRuns == Spec => []OneRunPerSchedule
<1>1. IInv => OneRunPerSchedule
    BY DEF IInv
<1>2. QED
    BY <1>1, ScheduleInductive, PTL

(* A schedule stored as active has a next run, so that tick can see it       *)
(* (service.ts:330), whichever stale snapshots were written over each other. *)
THEOREM NeverStranded == Spec => []ActiveHasNextRun
<1>1. IInv => ActiveHasNextRun
    BY DEF IInv, Records, Stored, HasNextRun, ActiveHasNextRun
<1>2. QED
    BY <1>1, ScheduleInductive, PTL

(* When the timer is set, no schedule was due at the time recovery began:     *)
(* missed runs are skipped however long the daemon was down (service.ts:372). *)
THEOREM MissedRunsSkipped == Spec => NothingDueAfterRecovery
<1>1. ASSUME IInv, [Next]_vars, up = "recovering", up' = "ready"
      PROVE  \A s \in Schedule : parses(file[s]) => ~isDue(file[s], bootedAt)
    <2>1. \A j \in Job : job[j].pc = "idle"
        BY <1>1 DEF IInv, Recovery
    <2>2. CASE Ready
        BY <1>1, <2>2, ReadyInv, SMTT(20)
    <2>3. ASSUME NEW j \in Job, PutStep(j) \/ CallStep(j) \/ RunStep(j) \/ TickStep(j)
          PROVE  FALSE
        BY <1>1, <2>1, <2>3
           DEF PutStep, PutOpens, PutWrites, PutFails, CallStep, Create, ScheduleCall, Inspected, Delete,
               Starts, RunStep, RunOnce, RunnerReturns, FinishRun, TickStep, TimerFires, ListReads,
               TickSkips, TickCompletes, TickRuns, TickEnds, InLoop
    <2>4. ~Crash /\ ~Start /\ ~TimePasses /\ ~UNCHANGED vars
          /\ \A s \in Schedule : ~RecoverInterruptedRun(s)
        BY <1>1 DEF Crash, Start, TimePasses, daemon, vars, RecoverInterruptedRun
    <2>5. QED
        BY <1>1, <2>2, <2>3, <2>4 DEF Next
<1>2. IInv /\ [Next]_vars =>
        [up = "recovering" /\ up' = "ready" =>
           \A s \in Schedule : parses(file[s]) => ~isDue(file[s], bootedAt)]_vars
    BY <1>1
<1>3. QED
    BY <1>2, ScheduleInductive, PTL DEF Spec, NothingDueAfterRecovery

=============================================================================
