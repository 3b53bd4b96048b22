------------------------------ MODULE LoopService ------------------------------
(***************************************************************************)
(* LoopService: loops that run a worker agent, verify what it did with     *)
(* shell commands and a verifier agent, and try again.  Every loop has an  *)
(* executor, the promise of executeLoop; a client may stop a loop at any   *)
(* time, and the daemon may be restarted.                                  *)
(*                                                                         *)
(* All loops are in one file.  persist() chains a write behind the         *)
(* earlier ones; the records are read when the write starts, and the file  *)
(* is overwritten in place, so that a crash during a write loses it.       *)
(*                                                                         *)
(* What an executor does after an await is part of the action that ends    *)
(* the wait: promise callbacks run before any other event.                 *)
(***************************************************************************)
EXTENDS Integers, Sequences, FiniteSets, SequencesExt

CONSTANTS
    Loop, Stopper,  \* loops, and slots for stopLoop calls
    Settings,       \* Settings[l]: the options of runLoop
    NoLoop, Torn,   \* no record; a file cut off by a crash
    Log, Boot,      \* writers: a log entry of the agent's stream, and initialize
    Attempts,       \* prompts a verifier gets at most, maxRetries + 1
    MaxStops, MaxLogs,      \* bounds: calls and entries
    MaxFaults               \* bound: failures of agents, clean-ups and writes, and crashes

Setting == [checks : Nat, verifier : BOOLEAN, sleeps : BOOLEAN, timed : BOOLEAN,
            archive : BOOLEAN, maxIterations : Nat \ {0}]

ASSUME SettingsAssumption == Settings \in [Loop -> Setting]
ASSUME AttemptsAssumption == Attempts \in Nat \ {0}
ASSUME WritersAssumption ==
    /\ Loop # {} /\ Loop \cap Stopper = {} /\ Log # Boot
    /\ {Log, Boot} \cap (Loop \cup Stopper) = {}
ASSUME BoundsAssumption == {MaxStops, MaxLogs, MaxFaults} \subseteq Nat

VARIABLES
    loops,          \* loops[l]: the record in memory, or NoLoop
    disk,           \* the records in the file, or Torn
    queue,          \* who waits for the writes of persistQueue, the first one running
    snap,           \* what the running write writes, or NoLoop
    exec,           \* exec[l]: where the executor of l is
    aborted,        \* aborted[l]: its AbortController has been aborted
    open,           \* open[l]: how many agents of l are registered
    stop,           \* stop[s]: the stopLoop call in slot s
    life,           \* the daemon process
    late,           \* history: agents created for l after the abort
    missed,         \* history: agents of l whose clean-up failed, or never came as a write failed
    used            \* bounds used up

vars == <<loops, disk, queue, snap, exec, aborted, open, stop, life, late, missed, used>>

Bound == {"stops", "logs", "agents", "cleanups", "writes", "crashes"}

Role == {"worker", "verifier"}
IterationStatus == {"running", "succeeded", "failed", "stopped"}

(* active is 0 for null; ids: which of the two active agent ids are set. *)
Record == [status : IterationStatus, iterations : Seq(IterationStatus), active : Nat,
           ids : SUBSET Role]

ASSUME ValuesAssumption == NoLoop \notin Record /\ Torn \notin [Loop -> Record \cup {NoLoop}]

(* n: checks done, or the prompts given to the verifier.  cut: the run was interrupted, or the  *)
(* sleep's listener saw the abort.                                                              *)
Executor == [at : {"none", "saving", "creating", "running", "closing", "checking", "sleeping"},
             next : {"launch", "create", "run", "close", "check", "again", "sleep", "end"},
             role : Role, n : Nat, cut : BOOLEAN,
             result : {"none", "passed", "failed", "canceled", "error"}]

idleExec == [at |-> "none", next |-> "launch", role |-> "worker", n |-> 0, cut |-> FALSE,
             result |-> "none"]

Stopping == [at : {"idle", "saving", "worker", "verifier", "awaiting", "final"}, of : Loop,
             found : BOOLEAN]

TypeOK ==
    /\ loops \in [Loop -> Record \cup {NoLoop}]
    /\ disk \in [Loop -> Record \cup {NoLoop}] \cup {Torn}
    /\ queue \in Seq(Loop \cup Stopper \cup {Log, Boot})
    /\ snap \in [Loop -> Record \cup {NoLoop}] \cup {NoLoop}
    /\ exec \in [Loop -> Executor]
    /\ \A l \in Loop : exec[l].role = "verifier" => exec[l].n <= Attempts
    /\ aborted \in [Loop -> BOOLEAN]
    /\ open \in [Loop -> Nat] /\ missed \in [Loop -> Nat]
    /\ stop \in [Stopper -> Stopping]
    /\ life \in {"down", "booting", "up", "dying"}
    /\ late \in [Loop -> Nat]
    /\ used \in [Bound -> Nat]

idleStop == [at |-> "idle", of |-> CHOOSE l \in Loop : TRUE, found |-> FALSE]

Init ==
    /\ loops = [l \in Loop |-> NoLoop]
    /\ disk = loops
    /\ queue = <<>> /\ snap = NoLoop
    /\ exec = [l \in Loop |-> idleExec]
    /\ aborted = [l \in Loop |-> FALSE]
    /\ open = [l \in Loop |-> 0] /\ missed = [l \in Loop |-> 0]
    /\ stop = [s \in Stopper |-> idleStop]
    /\ life = "up"
    /\ late = [l \in Loop |-> 0]
    /\ used = [b \in Bound |-> 0]

spend(b, limit) == used[b] < limit /\ used' = [used EXCEPT ![b] = @ + 1]
fault(b) ==
    /\ used["agents"] + used["cleanups"] + used["writes"] + used["crashes"] < MaxFaults
    /\ used' = [used EXCEPT ![b] = @ + 1]
running == life \in {"up", "dying"}

-----------------------------------------------------------------------------
(* Parts of the executor.  q is the queue they add to, rec the loop's record so far. *)

(* await this.persist(), then go on with e.next. *)
Saves(l, rec, e, q) ==
    /\ loops' = [loops EXCEPT ![l] = rec]
    /\ exec' = [exec EXCEPT ![l] = [e EXCEPT !.at = "saving"]]
    /\ queue' = Append(q, l)

Waits(l, rec, e, q) ==
    /\ loops' = [loops EXCEPT ![l] = rec]
    /\ exec' = [exec EXCEPT ![l] = e]
    /\ queue' = q

finished(rec, status) == [rec EXCEPT !.status = status, !.active = 0, !.ids = {}]

(* The last iteration is the one the executor holds. *)
marked(rec, status) == [rec EXCEPT !.iterations[Len(rec.iterations)] = status]
markedIfRunning(rec, status) ==
    IF Last(rec.iterations) = "running" THEN marked(rec, status) ELSE rec

(* executeLoop returns: the entry of `running` goes and nothing is written. *)
Returns(l, rec, status, q) == Waits(l, finished(rec, status), idleExec, q)

(* handleExecuteLoopError: finishLoop clears activeIteration, so no iteration is marked. *)
(* Variant: the handler does not persist. *)
FailsUnsaved(l, rec, status, q) == Waits(l, finished(rec, status), idleExec, q)

Fails(l, rec, status, q) ==
    Saves(l, finished(rec, status), [idleExec EXCEPT !.next = "end"], q)

(* The head of executeLoop's for. *)
Iterate(l, rec, q) ==
    \/ aborted[l] /\ Fails(l, rec, "stopped", q)
    \/ /\ ~aborted[l]
       /\ Len(rec.iterations) >= Settings[l].maxIterations \/ Settings[l].timed
       /\ Returns(l, rec, "failed", q)
    \/ /\ ~aborted[l] /\ Len(rec.iterations) < Settings[l].maxIterations
       /\ Saves(l, [rec EXCEPT !.iterations = Append(@, "running"),
                               !.active = Len(rec.iterations) + 1],
                [idleExec EXCEPT !.next = "create"], q)

(* The iteration is over, without success. *)
EndIteration(l, rec, q) ==
    Saves(l, [rec EXCEPT !.active = 0, !.ids = {}], [idleExec EXCEPT !.next = "again"], q)

Succeeds(l, rec, q) == Returns(l, marked(rec, "succeeded"), "succeeded", q)

(* runVerification with k checks passed.  The signal is looked at before each check only. *)
Verify(l, rec, k, q) ==
    LET e == [idleExec EXCEPT !.n = k] IN
    \/ /\ k < Settings[l].checks
       /\ IF aborted[l] THEN Fails(l, rec, "stopped", q)
          ELSE Waits(l, rec, [e EXCEPT !.at = "checking"], q)
    \/ /\ k = Settings[l].checks
       /\ IF Settings[l].verifier
          THEN Waits(l, rec, [idleExec EXCEPT !.at = "creating", !.role = "verifier"], q)
          ELSE Succeeds(l, rec, q)

(* What the executor does when its write has ended. *)
Continue(l, q) ==
    LET rec == loops[l]
        e == exec[l] IN
    \/ e.next = "launch" /\ Iterate(l, rec, q)
    \/ e.next = "create" /\ Waits(l, rec, [e EXCEPT !.at = "creating"], q)
    \/ e.next = "run" /\ Waits(l, rec, [e EXCEPT !.at = "running", !.n = 1], q)
    \/ e.next = "close" /\ Waits(l, rec, [e EXCEPT !.at = "closing"], q)
    \/ /\ e.next = "check"
       /\ IF e.result = "passed" THEN Verify(l, rec, e.n, q)
          ELSE EndIteration(l, markedIfRunning(rec, "failed"), q)
    \/ /\ e.next = "again"
       /\ IF Settings[l].sleeps THEN Saves(l, rec, [e EXCEPT !.next = "sleep"], q)
          ELSE Iterate(l, rec, q)
    \/ e.next = "sleep" /\ Waits(l, rec, [e EXCEPT !.at = "sleeping", !.cut = FALSE], q)
    \/ e.next = "end" /\ Waits(l, rec, idleExec, q)

(* What it does when its write has failed: an await inside the try of executeLoop throws, past    *)
(* the clean-up of an agent whose write this was.  The handler's own write makes the promise      *)
(* reject, which only a stopLoop call that waits for it catches.                                  *)
Abandons(l, q) ==
    LET rec == loops[l] IN
    \/ exec[l].next = "launch" /\ Waits(l, rec, idleExec, q) /\ UNCHANGED life
    \/ /\ exec[l].next = "end"
       /\ Waits(l, rec, idleExec, q)
       /\ IF \E s \in Stopper : stop[s].at = "awaiting" /\ stop[s].of = l THEN UNCHANGED life
          ELSE life' = "dying"
    \/ exec[l].next \notin {"launch", "end"} /\ Fails(l, rec, "failed", q) /\ UNCHANGED life

-----------------------------------------------------------------------------
(* The executor's waits for other things than writes. *)
ExecutorOnly == UNCHANGED <<disk, snap, aborted, stop, life>>

AgentCreated(l) ==
    /\ running /\ exec[l].at = "creating"
    /\ open' = [open EXCEPT ![l] = @ + 1]
    /\ late' = [late EXCEPT ![l] = IF aborted[l] THEN @ + 1 ELSE @]
    /\ Saves(l, [loops[l] EXCEPT !.ids = @ \cup {exec[l].role}],
             [exec[l] EXCEPT !.next = "run"], queue)
    /\ UNCHANGED <<missed, used>> /\ ExecutorOnly

CreateFails(l) ==
    /\ running /\ exec[l].at = "creating"
    /\ fault("agents")
    /\ Fails(l, loops[l], "failed", queue)
    /\ UNCHANGED <<open, late, missed>> /\ ExecutorOnly

(* The finally of an agent's run, up to its write. *)
Leaves(l, rec, result) ==
    Saves(l, [rec EXCEPT !.ids = @ \ {exec[l].role}],
          [exec[l] EXCEPT !.next = "close", !.result = result], queue)

(* A run ends with a result, an error, or cancelled once it was interrupted. *)
WorkerEnds(l) ==
    /\ running /\ exec[l].at = "running" /\ exec[l].role = "worker"
    /\ \/ \E result \in {"passed", "failed"} : Leaves(l, loops[l], result)
       \/ exec[l].cut /\ Leaves(l, marked(loops[l], "stopped"), "canceled")
    /\ UNCHANGED <<open, late, missed, used>> /\ ExecutorOnly

(* Variant: the attempt after the last one. *)
VerifierEndsOnceMore(l) ==
    /\ running /\ exec[l].at = "running" /\ exec[l].role = "verifier"
    /\ \/ \E result \in {"passed", "failed", "error"} : Leaves(l, loops[l], result)
       \/ /\ exec[l].n <= Attempts
          /\ Waits(l, loops[l], [exec[l] EXCEPT !.n = @ + 1, !.cut = FALSE], queue)
    /\ UNCHANGED <<open, late, missed, used>> /\ ExecutorOnly

(* An answer that cannot be read, as that of a cancelled run, is asked for again. *)
VerifierEnds(l) ==
    /\ running /\ exec[l].at = "running" /\ exec[l].role = "verifier"
    /\ \/ \E result \in {"passed", "failed", "error"} : Leaves(l, loops[l], result)
       \/ /\ exec[l].n < Attempts
          /\ Waits(l, loops[l], [exec[l] EXCEPT !.n = @ + 1, !.cut = FALSE], queue)
    /\ UNCHANGED <<open, late, missed, used>> /\ ExecutorOnly

(* closeAgent or archiveAgent of an agent.  archiveAgent writes to agent storage before it closes *)
(* the agent; when that fails the agent stays registered, and the executor goes on all the same.  *)
CleanUp(l) ==
    \/ open' = [open EXCEPT ![l] = @ - 1] /\ UNCHANGED <<missed, used>>
    \/ /\ Settings[l].archive /\ fault("cleanups")
       /\ missed' = [missed EXCEPT ![l] = @ + 1]
       /\ UNCHANGED open

(* Variant: the signal is not looked at between the worker and the verification. *)
WorkerClosedDeaf(l) ==
    /\ running /\ exec[l].at = "closing" /\ exec[l].role = "worker"
    /\ CleanUp(l)
    /\ IF exec[l].result = "passed" THEN Verify(l, loops[l], 0, queue)
       ELSE EndIteration(l, markedIfRunning(loops[l], "failed"), queue)
    /\ UNCHANGED late /\ ExecutorOnly

(* Variant: the worker is closed only when its run has passed. *)
WorkerClosedIfPassed(l) ==
    /\ running /\ exec[l].at = "closing" /\ exec[l].role = "worker"
    /\ IF exec[l].result = "passed" THEN CleanUp(l) ELSE UNCHANGED <<open, missed, used>>
    /\ IF aborted[l] THEN Fails(l, markedIfRunning(loops[l], "stopped"), "stopped", queue)
       ELSE IF exec[l].result = "passed" THEN Verify(l, loops[l], 0, queue)
       ELSE EndIteration(l, markedIfRunning(loops[l], "failed"), queue)
    /\ UNCHANGED late /\ ExecutorOnly

(* The clean-up ends, and with it runWorkerIteration. *)
WorkerClosed(l) ==
    /\ running /\ exec[l].at = "closing" /\ exec[l].role = "worker"
    /\ CleanUp(l)
    /\ IF aborted[l] THEN Fails(l, markedIfRunning(loops[l], "stopped"), "stopped", queue)
       ELSE IF exec[l].result = "passed" THEN Verify(l, loops[l], 0, queue)
       ELSE EndIteration(l, markedIfRunning(loops[l], "failed"), queue)
    /\ UNCHANGED late /\ ExecutorOnly

VerifierClosed(l) ==
    /\ running /\ exec[l].at = "closing" /\ exec[l].role = "verifier"
    /\ CleanUp(l)
    /\ \/ exec[l].result = "passed" /\ Succeeds(l, loops[l], queue)
       \/ exec[l].result = "failed"
          /\ EndIteration(l, markedIfRunning(loops[l], "failed"), queue)
       \/ exec[l].result = "error" /\ Fails(l, loops[l], "failed", queue)
    /\ UNCHANGED late /\ ExecutorOnly

CheckEnds(l) ==
    /\ running /\ exec[l].at = "checking"
    /\ \E result \in {"passed", "failed"} :
         Saves(l, loops[l], [exec[l] EXCEPT !.next = "check", !.n = @ + 1, !.result = result],
               queue)
    /\ UNCHANGED <<open, late, missed, used>> /\ ExecutorOnly

(* Variant: an abort clears the timer of the sleep and does not end it. *)
WakesUnlessCut(l) ==
    /\ running /\ exec[l].at = "sleeping" /\ ~exec[l].cut
    /\ Iterate(l, loops[l], queue)
    /\ UNCHANGED <<open, late, missed, used>> /\ ExecutorOnly

(* The timer of sleepWithAbort, or its abort listener; an abort from before it hears nothing of. *)
Wakes(l) ==
    /\ running /\ exec[l].at = "sleeping"
    /\ IF exec[l].cut THEN Fails(l, loops[l], "stopped", queue) ELSE Iterate(l, loops[l], queue)
    /\ UNCHANGED <<open, late, missed, used>> /\ ExecutorOnly

(* A log entry of the agent's stream: void this.persist(). *)
StreamLogged(l) ==
    /\ running /\ exec[l].at = "running"
    /\ spend("logs", MaxLogs)
    /\ queue' = Append(queue, Log)
    /\ UNCHANGED <<loops, exec, open, late, missed>> /\ ExecutorOnly

ExecutorStep(l) ==
    \/ AgentCreated(l) \/ WorkerEnds(l) \/ VerifierEnds(l) \/ WorkerClosed(l)
    \/ VerifierClosed(l) \/ CheckEnds(l) \/ Wakes(l)

-----------------------------------------------------------------------------
(* Client calls. *)
RunLoop(l) ==
    /\ life = "up" /\ loops[l] = NoLoop
    /\ Saves(l, [status |-> "running", iterations |-> <<>>, active |-> 0, ids |-> {}],
             idleExec, queue)
    /\ UNCHANGED <<open, late, missed, used>> /\ ExecutorOnly

(* The entry of `running` is made after runLoop's write, and is read before stopLoop's. *)
hasExecutor(l) == exec[l].at # "none" /\ ~(exec[l].at = "saving" /\ exec[l].next = "launch")

StopLoop(s, l) ==
    /\ life = "up" /\ stop[s].at = "idle"
    /\ loops[l] # NoLoop /\ loops[l].status = "running"
    /\ spend("stops", MaxStops)
    /\ stop' = [stop EXCEPT ![s] = [at |-> "saving", of |-> l, found |-> hasExecutor(l)]]
    /\ queue' = Append(queue, s)
    /\ UNCHANGED <<loops, disk, snap, exec, aborted, open, life, late, missed>>

(* cancelAgentRun interrupts a run in progress; the abort also reaches a sleep. *)
interrupted(l) ==
    [exec EXCEPT ![l].cut = IF exec[l].at \in {"running", "sleeping"} THEN TRUE ELSE @]

(* After the write of stopLoop. *)
StopGoesOn(s, q) ==
    LET l == stop[s].of IN
    \/ /\ stop[s].at = "saving" /\ stop[s].found
       /\ aborted' = [aborted EXCEPT ![l] = TRUE]
       /\ exec' = interrupted(l)
       /\ stop' = [stop EXCEPT ![s].at = IF "worker" \in loops[l].ids THEN "worker"
                                         ELSE IF "verifier" \in loops[l].ids THEN "verifier"
                                         ELSE "awaiting"]
       /\ queue' = q
       /\ UNCHANGED loops
    \/ /\ stop[s].at = "saving" /\ ~stop[s].found
       /\ loops' = [loops EXCEPT ![l].status = "stopped"]
       /\ stop' = [stop EXCEPT ![s].at = "final"]
       /\ queue' = Append(q, s)
       /\ UNCHANGED <<exec, aborted>>
    \/ /\ stop[s].at = "final"
       /\ stop' = [stop EXCEPT ![s] = idleStop]
       /\ queue' = q
       /\ UNCHANGED <<loops, exec, aborted>>

(* cancelAgentRun returns: at the run's end or 2 s later. *)
CancelReturns(s) ==
    /\ running /\ stop[s].at \in {"worker", "verifier"}
    /\ IF stop[s].at = "worker" /\ "verifier" \in loops[stop[s].of].ids
       THEN exec' = interrupted(stop[s].of) /\ stop' = [stop EXCEPT ![s].at = "verifier"]
       ELSE UNCHANGED exec /\ stop' = [stop EXCEPT ![s].at = "awaiting"]
    /\ UNCHANGED <<loops, disk, queue, snap, aborted, open, life, late, missed, used>>

StopReturns(s) ==
    /\ running /\ stop[s].at = "awaiting" /\ exec[stop[s].of].at = "none"
    /\ stop' = [stop EXCEPT ![s] = idleStop]
    /\ UNCHANGED <<loops, disk, queue, snap, exec, aborted, open, life, late, missed, used>>

-----------------------------------------------------------------------------
(* The writes. *)
WriteStarts ==
    /\ life # "down" /\ queue # <<>> /\ snap = NoLoop
    /\ snap' = loops
    /\ disk' = Torn
    /\ UNCHANGED <<loops, queue, exec, aborted, open, stop, life, late, missed, used>>

WriteEnds ==
    /\ snap # NoLoop
    /\ disk' = snap
    /\ snap' = NoLoop
    /\ LET w == Head(queue)
           q == Tail(queue) IN
       \/ w \in Loop /\ Continue(w, q) /\ UNCHANGED <<aborted, stop, life>>
       \/ w \in Stopper /\ StopGoesOn(w, q) /\ UNCHANGED life
       \/ w = Log /\ queue' = q /\ UNCHANGED <<loops, exec, aborted, stop, life>>
       \/ w = Boot /\ queue' = q /\ life' = "up" /\ UNCHANGED <<loops, exec, aborted, stop>>
    /\ UNCHANGED <<open, late, missed, used>>

(* A failed write of l's executor, that its agent's clean-up comes after: no one closes the agent. *)
skipsCleanUp(l) == exec[l].next \in {"run", "close"}

(* mkdir or writeFile fails.  Nobody handles the rejection of a log entry's write. *)
WriteFails ==
    /\ life # "down" /\ queue # <<>> /\ snap = NoLoop
    /\ fault("writes")
    /\ disk' \in {disk, Torn}
    /\ LET w == Head(queue)
           q == Tail(queue) IN
       \/ /\ w \in Loop /\ Abandons(w, q) /\ UNCHANGED stop
          /\ missed' = IF skipsCleanUp(w) THEN [missed EXCEPT ![w] = @ + 1] ELSE missed
       \/ /\ w \in Stopper /\ queue' = q
          /\ stop' = [stop EXCEPT ![w] = idleStop]
          /\ UNCHANGED <<loops, exec, life, missed>>
       \/ /\ w \in {Log, Boot} /\ queue' = q /\ life' = "dying"
          /\ UNCHANGED <<loops, exec, stop, missed>>
    /\ UNCHANGED <<snap, aborted, open, late>>

-----------------------------------------------------------------------------
(* The process, and what it finds in the file at its next start. *)
Exits ==
    /\ life' = "down"
    /\ loops' = [l \in Loop |-> NoLoop]
    /\ queue' = <<>> /\ snap' = NoLoop
    /\ exec' = [l \in Loop |-> idleExec]
    /\ aborted' = [l \in Loop |-> FALSE]
    /\ open' = [l \in Loop |-> 0] /\ missed' = [l \in Loop |-> 0]
    /\ stop' = [s \in Stopper |-> idleStop]
    /\ late' = [l \in Loop |-> 0]
    /\ UNCHANGED disk

(* 200 ms after an unhandled rejection. *)
Dies == life = "dying" /\ Exits /\ UNCHANGED used
Crash == life # "down" /\ fault("crashes") /\ Exits

recovered(rec) ==
    IF rec = NoLoop \/ rec.status # "running" THEN rec
    ELSE LET ended == finished(rec, "stopped") IN
         IF rec.iterations = <<>> THEN ended ELSE markedIfRunning(ended, "stopped")

(* initialize: a file that does not parse is logged, and overwritten. *)
Initialize ==
    /\ life = "down"
    /\ life' = "booting"
    /\ loops' = [l \in Loop |-> IF disk = Torn THEN NoLoop ELSE recovered(disk[l])]
    /\ queue' = <<Boot>>
    /\ UNCHANGED <<disk, snap, exec, aborted, open, stop, late, missed, used>>

Next ==
    \/ WriteStarts \/ WriteEnds \/ WriteFails \/ Dies \/ Crash \/ Initialize
    \/ \E l \in Loop : ExecutorStep(l) \/ CreateFails(l) \/ StreamLogged(l) \/ RunLoop(l)
    \/ \E s \in Stopper : CancelReturns(s) \/ StopReturns(s) \/ \E l \in Loop : StopLoop(s, l)

Spec == Init /\ [][Next]_vars

(* Writes, agents' runs, commands, timers and promise callbacks end; nothing else need happen. *)
Progress ==
    \/ WriteStarts \/ WriteEnds \/ Dies
    \/ \E l \in Loop : ExecutorStep(l)
    \/ \E s \in Stopper : CancelReturns(s) \/ StopReturns(s)

FairSpec == Spec /\ WF_vars(Progress)

-----------------------------------------------------------------------------
(* Properties. *)

(* An executor that has ended, by success, failure, an abort or an error of an agent, has closed   *)
(* every agent it created, but for those whose archiving failed (loop-service.ts:676, 792) and    *)
(* the one whose write failed between its creation and its clean-up (621, 669, 741, 785): these   *)
(* stay registered, each failure leaves one, and no later iteration takes another one with it.    *)
AgentsClosed == \A l \in Loop : exec[l].at = "none" => open[l] = missed[l]

(* Between an abort and the end of the executor at most one agent is created for the loop: the    *)
(* worker or the verifier that was about to be (executeLoop and runVerification look at the       *)
(* signal only at some of their awaits).                                                          *)
OneAgentAfterStop == \A l \in Loop : late[l] <= 1

(* With nothing left to write, a loop that is stopped in memory is not running in the file: the   *)
(* next start does not call it interrupted by a restart.                                          *)
StoppedSaved ==
    life = "up" /\ queue = <<>> /\ used.writes = 0 =>
        \A l \in Loop : loops[l] # NoLoop /\ loops[l].status = "stopped"
                            => disk # Torn /\ disk[l].status = "stopped"

(* Every stopLoop call is answered, or the daemon goes down: its wait for the executor and the    *)
(* executor's waits for writes, runs and sleeps never close a circle (loop-service.ts:460-494).   *)
StopEnds == \A s \in Stopper : stop[s].at # "idle" ~> stop[s].at = "idle"
=============================================================================
