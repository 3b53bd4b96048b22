--------------------------- MODULE LoopService_proofs ---------------------------
(***************************************************************************)
(* Theorems about LoopService for any loops with any options, any stopLoop *)
(* calls, failing agents and writes, and crashes.                          *)
(***************************************************************************)
EXTENDS LoopService, SequenceTheorems, TLAPS

-----------------------------------------------------------------------------
(* The inductive invariant. *)
Writer == Loop \cup Stopper \cup {Log, Boot}

(* An executor that has an agent, and is going to close it. *)
Held(e) == e.at \in {"running", "closing"} \/ (e.at = "saving" /\ e.next \in {"run", "close"})

(* Of n agents registered, m have missed their clean-up. *)
Accounted(n, m, e) == IF Held(e) THEN n = m + 1 ELSE n = m

(* An executor that looks at its signal before it creates another agent. *)
PastCreation(e) ==
    \/ e.at \in {"none", "running", "closing", "sleeping"}
    \/ e.at = "saving" /\ e.next \in {"launch", "run", "close", "again", "sleep", "end"}

(* A loop is in the queue once, and only while its executor waits for a write. *)
QueueFine(q, ex) ==
    \A i \in 1..Len(q) : q[i] \in Loop =>
        ex[q[i]].at = "saving" /\ \A j \in 1..Len(q) : q[j] = q[i] => j = i

Executors ==
    \A l \in Loop :
        /\ exec[l].at # "none" => loops[l] \in Record
        /\ exec[l].at = "checking" => exec[l].role = "worker"

OnceLate ==
    \A l \in Loop : late[l] <= 1 /\ (late[l] = 1 => aborted[l] /\ PastCreation(exec[l]))

OpenHeld == \A l \in Loop : Accounted(open[l], missed[l], exec[l])

Queued == QueueFine(queue, exec) /\ (snap # NoLoop => queue # <<>>)

Stops == \A s \in Stopper : stop[s].at # "idle" => loops[stop[s].of] \in Record

Down ==
    life = "down" => /\ snap = NoLoop
                     /\ \A l \in Loop : exec[l].at = "none"
                     /\ \A s \in Stopper : stop[s].at = "idle"

(* A stopped loop is in the file, in the write under way, or there is a write to come. *)
Saved ==
    used["writes"] = 0 =>
        \A l \in Loop : loops[l] # NoLoop /\ loops[l].status = "stopped" =>
            IF snap = NoLoop
            THEN queue # <<>> \/ (disk # Torn /\ disk[l].status = "stopped")
            ELSE Len(queue) >= 2 \/ snap[l].status = "stopped"

Kept == TypeOK /\ Executors /\ OnceLate /\ OpenHeld /\ Queued /\ Stops /\ Down

IInv == Kept /\ Saved

-----------------------------------------------------------------------------
(* Lemmas on records, executors and the queue. *)

LEMMA FinishedRecord ==
    ASSUME NEW rec \in Record, NEW status \in IterationStatus
    PROVE  finished(rec, status) \in Record /\ finished(rec, status).status = status
BY DEF finished, Record

LEMMA MarkedRecord ==
    ASSUME NEW rec \in Record, NEW status \in IterationStatus
    PROVE  /\ marked(rec, status) \in Record /\ marked(rec, status).status = rec.status
           /\ markedIfRunning(rec, status) \in Record
           /\ markedIfRunning(rec, status).status = rec.status
<1> DEFINE its == [rec.iterations EXCEPT ![Len(rec.iterations)] = status]
<1>1. PICK n \in Nat : rec.iterations \in [1..n -> IterationStatus]
    BY SeqDef DEF Record
<1>2. its \in Seq(IterationStatus)
    <2>1. its \in [1..n -> IterationStatus]
        BY <1>1
    <2> HIDE DEF its
    <2>2. QED
        BY <2>1, SeqDef
<1>3. marked(rec, status) = [rec EXCEPT !.iterations = its]
    BY DEF marked, Record
<1> HIDE DEF its
<1>4. marked(rec, status) \in Record /\ marked(rec, status).status = rec.status
    BY <1>2, <1>3 DEF Record
<1>5. QED
    BY <1>4 DEF markedIfRunning

LEMMA IdleExecutor ==
    /\ idleExec \in Executor /\ idleExec.at = "none" /\ idleExec.role = "worker"
    /\ ~Held(idleExec) /\ PastCreation(idleExec)
BY DEF idleExec, Executor, Role, Held, PastCreation

LEMMA IdleStopping == idleStop \in Stopping /\ idleStop.at = "idle"
<1>1. (CHOOSE l \in Loop : TRUE) \in Loop
    BY WritersAssumption
<1>2. QED
    BY <1>1 DEF idleStop, Stopping

LEMMA TailFine ==
    ASSUME NEW q \in Seq(Writer), NEW ex, QueueFine(q, ex), q # <<>>
    PROVE  /\ Head(q) \in Writer /\ Tail(q) \in Seq(Writer) /\ Len(Tail(q)) = Len(q) - 1
           /\ QueueFine(Tail(q), ex)
           /\ Head(q) \in Loop => \A i \in 1..Len(Tail(q)) : Tail(q)[i] # Head(q)
<1>1. /\ Head(q) \in Writer /\ Tail(q) \in Seq(Writer) /\ Len(Tail(q)) = Len(q) - 1
      /\ Head(q) = q[1] /\ 1 \in 1..Len(q)
      /\ \A i \in 1..Len(Tail(q)) : Tail(q)[i] = q[i + 1] /\ i + 1 \in 1..Len(q)
    OBVIOUS
<1>2. QueueFine(Tail(q), ex)
    BY <1>1 DEF QueueFine
<1>3. ASSUME Head(q) \in Loop, NEW i \in 1..Len(Tail(q))
      PROVE  Tail(q)[i] # Head(q)
    BY <1>1, <1>3 DEF QueueFine
<1>4. QED
    BY <1>1, <1>2, <1>3

(* One executor moves, and waits for a write of its own if it comes to one. *)
LEMMA MoveFine ==
    ASSUME NEW q \in Seq(Writer), NEW l \in Loop, NEW e, exec \in [Loop -> Executor],
           QueueFine(q, exec), \A i \in 1..Len(q) : q[i] # l,
           exec' = [exec EXCEPT ![l] = e],
           queue' = IF e.at = "saving" THEN Append(q, l) ELSE q
    PROVE  /\ queue' \in Seq(Writer) /\ QueueFine(queue', exec')
           /\ Len(queue') >= Len(q) /\ (e.at = "saving" => Len(queue') = Len(q) + 1)
<1>1. \A k \in Loop \ {l} : exec'[k] = exec[k]
    OBVIOUS
<1>2. exec'[l] = e
    OBVIOUS
<1>3. \A i \in 1..Len(q) : q[i] \in Loop => exec'[q[i]] = exec[q[i]]
    BY <1>1
<1>4. CASE e.at # "saving"
    BY <1>3, <1>4 DEF QueueFine
<1>5. CASE e.at = "saving"
    <2>1. /\ queue' = Append(q, l) /\ queue' \in Seq(Writer) /\ Len(queue') = Len(q) + 1
          /\ queue'[Len(q) + 1] = l /\ \A i \in 1..Len(q) : queue'[i] = q[i]
          /\ \A i \in 1..Len(queue') : i \in 1..Len(q) \/ i = Len(q) + 1
        BY <1>5 DEF Writer
    <2>2. QueueFine(queue', exec')
        <3> SUFFICES ASSUME NEW i \in 1..Len(queue'), queue'[i] \in Loop
                     PROVE  /\ exec'[queue'[i]].at = "saving"
                            /\ \A j \in 1..Len(queue') : queue'[j] = queue'[i] => j = i
            BY DEF QueueFine
        <3>1. CASE i \in 1..Len(q)
            BY <1>3, <2>1, <3>1 DEF QueueFine
        <3>2. CASE i = Len(q) + 1
            BY <1>2, <1>5, <2>1, <3>2
        <3>3. QED
            BY <2>1, <3>1, <3>2
    <2>3. QED
        BY <2>1, <2>2
<1>6. QED
    BY <1>4, <1>5

-----------------------------------------------------------------------------
(* What one executor does in one step, whichever action takes it. *)
Follows(l, rec, e) ==
    /\ e.role = "verifier" => e.n <= Attempts
    /\ e.at = "checking" => e.role = "worker"
    /\ late'[l] = 1 => PastCreation(e)
    /\ Accounted(open'[l], missed'[l], e)
    /\ rec.status = "stopped" =>
          (loops[l] # NoLoop /\ loops[l].status = "stopped") \/ e.at = "saving"

Moves(l, q) ==
    \E rec \in Record, e \in Executor :
        /\ loops' = [loops EXCEPT ![l] = rec]
        /\ exec' = [exec EXCEPT ![l] = e]
        /\ queue' = IF e.at = "saving" THEN Append(q, l) ELSE q
        /\ Follows(l, rec, e)

(* The executor has no agent after the step. *)
Clear(l) == open'[l] = missed'[l]

(* The record goes on from the one in memory. *)
Keeps(l, rec) == rec \in Record /\ loops[l] \in Record /\ rec.status = loops[l].status

LEMMA SavesMoves ==
    ASSUME NEW l, NEW q, NEW rec \in Record, NEW e \in Executor, Saves(l, rec, e, q),
           Follows(l, rec, [e EXCEPT !.at = "saving"])
    PROVE  Moves(l, q)
<1> DEFINE f == [e EXCEPT !.at = "saving"]
<1>1. f \in Executor /\ f.at = "saving"
    BY DEF Executor
<1>2. loops' = [loops EXCEPT ![l] = rec] /\ exec' = [exec EXCEPT ![l] = f]
      /\ queue' = Append(q, l) /\ Follows(l, rec, f)
    BY DEF Saves
<1> HIDE DEF f
<1>3. QED
    BY <1>1, <1>2 DEF Moves

LEMMA WaitsMoves ==
    ASSUME NEW l, NEW q, NEW rec \in Record, NEW e \in Executor, Waits(l, rec, e, q),
           e.at # "saving", Follows(l, rec, e)
    PROVE  Moves(l, q)
BY DEF Waits, Moves

LEMMA FailsMoves ==
    ASSUME NEW l, NEW q, NEW rec \in Record, NEW status \in IterationStatus,
           Fails(l, rec, status, q), Clear(l)
    PROVE  Moves(l, q)
<1> DEFINE e == [idleExec EXCEPT !.next = "end"]
<1>1. e \in Executor
    BY DEF idleExec, Executor, Role
<1>2. Saves(l, finished(rec, status), e, q)
    BY DEF Fails
<1>3. Follows(l, finished(rec, status), [e EXCEPT !.at = "saving"])
    BY DEF Follows, Accounted, idleExec, PastCreation, Held, Clear
<1> HIDE DEF e
<1>4. QED
    BY <1>1, <1>2, <1>3, FinishedRecord, SavesMoves

LEMMA ReturnsMoves ==
    ASSUME NEW l, NEW q, NEW rec \in Record, NEW status \in IterationStatus \ {"stopped"},
           Returns(l, rec, status, q), Clear(l)
    PROVE  Moves(l, q)
<1>1. Follows(l, finished(rec, status), idleExec)
    BY IdleExecutor, FinishedRecord DEF Follows, Accounted, Clear
<1>2. QED
    BY <1>1, IdleExecutor, FinishedRecord, WaitsMoves DEF Returns

LEMMA IterateMoves ==
    ASSUME NEW l \in Loop, NEW q, NEW rec, Keeps(l, rec), Iterate(l, rec, q), Clear(l),
           late'[l] = 1 => aborted[l]
    PROVE  Moves(l, q)
<1>1. CASE aborted[l] /\ Fails(l, rec, "stopped", q)
    BY <1>1, FailsMoves DEF Keeps, IterationStatus
<1>2. CASE Returns(l, rec, "failed", q)
    BY <1>2, ReturnsMoves DEF Keeps, IterationStatus
<1>3. ASSUME ~aborted[l],
             Saves(l, [rec EXCEPT !.iterations = Append(@, "running"),
                                  !.active = Len(rec.iterations) + 1],
                   [idleExec EXCEPT !.next = "create"], q)
      PROVE  Moves(l, q)
    <2> DEFINE longer == [rec EXCEPT !.iterations = Append(@, "running"),
                                     !.active = Len(rec.iterations) + 1]
               e == [idleExec EXCEPT !.next = "create"]
    <2>1. longer \in Record /\ longer.status = rec.status
        <3>1. rec.iterations \in Seq(IterationStatus) /\ rec \in Record
            BY DEF Keeps, Record
        <3>2. Append(rec.iterations, "running") \in Seq(IterationStatus)
            BY <3>1 DEF IterationStatus
        <3>3. Len(rec.iterations) + 1 \in Nat
            BY <3>1
        <3> DEFINE its == Append(rec.iterations, "running")
                   n == Len(rec.iterations) + 1
        <3>4. longer = [rec EXCEPT !.iterations = its, !.active = n]
            OBVIOUS
        <3> HIDE DEF its, n
        <3>5. QED
            BY <3>1, <3>2, <3>3, <3>4 DEF Record, its, n
    <2>2. e \in Executor
        BY DEF idleExec, Executor, Role
    <2>3. Follows(l, longer, [e EXCEPT !.at = "saving"])
        <3>1. longer.status = "stopped" => loops[l] # NoLoop /\ loops[l].status = "stopped"
            BY <2>1, ValuesAssumption DEF Keeps
        <3>2. QED
            BY <1>3, <3>1 DEF Follows, Accounted, Held, idleExec, Clear
    <2>4. Saves(l, longer, e, q)
        BY <1>3
    <2> HIDE DEF longer, e
    <2>5. QED
        BY <2>1, <2>2, <2>3, <2>4, SavesMoves
<1>4. QED
    BY <1>1, <1>2, <1>3 DEF Iterate

LEMMA EndIterationMoves ==
    ASSUME NEW l, NEW q, NEW rec, Keeps(l, rec), EndIteration(l, rec, q), Clear(l)
    PROVE  Moves(l, q)
<1> DEFINE over == [rec EXCEPT !.active = 0, !.ids = {}]
           e == [idleExec EXCEPT !.next = "again"]
<1>1. over \in Record
    BY DEF Keeps, Record
<1>2. e \in Executor
    BY DEF idleExec, Executor, Role
<1>3. Follows(l, over, [e EXCEPT !.at = "saving"])
    BY DEF Follows, Accounted, Held, idleExec, PastCreation, Clear
<1>4. Saves(l, over, e, q)
    BY DEF EndIteration
<1> HIDE DEF over, e
<1>5. QED
    BY <1>1, <1>2, <1>3, <1>4, SavesMoves

LEMMA SucceedsMoves ==
    ASSUME NEW l, NEW q, NEW rec, Keeps(l, rec), Succeeds(l, rec, q), Clear(l)
    PROVE  Moves(l, q)
BY MarkedRecord, ReturnsMoves DEF Keeps, Succeeds, IterationStatus

LEMMA VerifyMoves ==
    ASSUME NEW l \in Loop, NEW q, NEW rec, NEW k \in Nat, Keeps(l, rec), Verify(l, rec, k, q),
           Clear(l), late'[l] # 1
    PROVE  Moves(l, q)
<1>1. rec.status = "stopped" => loops[l] # NoLoop /\ loops[l].status = "stopped"
    BY ValuesAssumption DEF Keeps
<1>2. CASE Fails(l, rec, "stopped", q)
    BY <1>2, FailsMoves DEF Keeps, IterationStatus
<1>3. ASSUME Waits(l, rec, [[idleExec EXCEPT !.n = k] EXCEPT !.at = "checking"], q)
      PROVE  Moves(l, q)
    <2> DEFINE e == [[idleExec EXCEPT !.n = k] EXCEPT !.at = "checking"]
    <2>1. e \in Executor /\ e.at = "checking"
        BY DEF idleExec, Executor, Role
    <2>2. Follows(l, rec, e)
        BY <1>1 DEF Follows, Accounted, Held, idleExec, Clear
    <2> HIDE DEF e
    <2>3. QED
        BY <1>3, <2>1, <2>2, WaitsMoves DEF Keeps, e
<1>4. ASSUME Waits(l, rec, [idleExec EXCEPT !.at = "creating", !.role = "verifier"], q)
      PROVE  Moves(l, q)
    <2> DEFINE e == [idleExec EXCEPT !.at = "creating", !.role = "verifier"]
    <2>1. e \in Executor /\ e.at = "creating"
        BY DEF idleExec, Executor, Role
    <2>2. Follows(l, rec, e)
        BY <1>1, AttemptsAssumption DEF Follows, Accounted, Held, idleExec, Clear
    <2> HIDE DEF e
    <2>3. QED
        BY <1>4, <2>1, <2>2, WaitsMoves DEF Keeps, e
<1>5. CASE Succeeds(l, rec, q)
    BY <1>5, SucceedsMoves
<1>6. QED
    BY <1>2, <1>3, <1>4, <1>5 DEF Verify

(* After its write. *)
LEMMA ContinueMoves ==
    ASSUME NEW l \in Loop, NEW q, TypeOK, Executors, OnceLate, OpenHeld, exec[l].at = "saving",
           UNCHANGED <<open, late, missed, used>>, Continue(l, q)
    PROVE  Moves(l, q)
<1> DEFINE rec == loops[l]
           e == exec[l]
<1>1. rec \in Record /\ Keeps(l, rec)
    BY DEF Executors, Keeps
<1>2. /\ e \in Executor /\ e.at = "saving" /\ (e.role = "verifier" => e.n <= Attempts)
      /\ e.n \in Nat /\ 1 <= Attempts
    BY AttemptsAssumption DEF TypeOK, Executor
<1>3. rec.status = "stopped" => loops[l] # NoLoop /\ loops[l].status = "stopped"
    BY <1>1, ValuesAssumption
<1>4. late'[l] = 1 => aborted[l] /\ PastCreation(e)
    BY DEF OnceLate
<1>5. Accounted(open'[l], missed'[l], e)
    BY DEF OpenHeld
<1>6. Continue(l, q) <=>
        \/ e.next = "launch" /\ Iterate(l, rec, q)
        \/ e.next = "create" /\ Waits(l, rec, [e EXCEPT !.at = "creating"], q)
        \/ e.next = "run" /\ Waits(l, rec, [e EXCEPT !.at = "running", !.n = 1], q)
        \/ e.next = "close" /\ Waits(l, rec, [e EXCEPT !.at = "closing"], q)
        \/ /\ e.next = "check"
           /\ IF e.result = "passed" THEN Verify(l, rec, e.n, q)
              ELSE EndIteration(l, markedIfRunning(rec, "failed"), q)
        \/ /\ e.next = "again"
           /\ IF Settings[l].sleeps THEN Saves(l, rec, [e EXCEPT !.next = "sleep"], q)
              ELSE Iterate(l, rec, q)
        \/ e.next = "sleep" /\ Waits(l, rec, [e EXCEPT !.at = "sleeping", !.cut = FALSE], q)
        \/ e.next = "end" /\ Waits(l, rec, idleExec, q)
    BY DEF Continue
<1> HIDE DEF rec, e
<1>7. e.next \in {"launch", "create", "check", "again", "sleep", "end"} => Clear(l)
    BY <1>2, <1>5 DEF Accounted, Held, Clear
<1>8. CASE e.next \in {"launch", "again"} /\ Iterate(l, rec, q)
    BY <1>1, <1>4, <1>7, <1>8, IterateMoves
<1>9. ASSUME e.next = "create", Waits(l, rec, [e EXCEPT !.at = "creating"], q)
      PROVE  Moves(l, q)
    <2> DEFINE f == [e EXCEPT !.at = "creating"]
    <2>1. f \in Executor /\ f.at = "creating" /\ f.role = e.role /\ f.n = e.n
        BY <1>2 DEF Executor
    <2>2. late'[l] # 1
        BY <1>2, <1>4, <1>9 DEF PastCreation
    <2> HIDE DEF f
    <2>3. Follows(l, rec, f)
        BY <1>2, <1>3, <1>7, <1>9, <2>1, <2>2 DEF Follows, Accounted, Held, Clear
    <2>4. QED
        BY <1>1, <1>9, <2>1, <2>3, WaitsMoves DEF f
<1>10. ASSUME e.next = "run", Waits(l, rec, [e EXCEPT !.at = "running", !.n = 1], q)
       PROVE  Moves(l, q)
    <2> DEFINE f == [e EXCEPT !.at = "running", !.n = 1]
    <2>1. f \in Executor /\ f.at = "running" /\ f.role = e.role /\ f.n = 1
        BY <1>2 DEF Executor
    <2> HIDE DEF f
    <2>2. Follows(l, rec, f)
        BY <1>2, <1>3, <1>5, <1>10, <2>1 DEF Follows, Accounted, Held, PastCreation
    <2>3. QED
        BY <1>1, <1>10, <2>1, <2>2, WaitsMoves DEF f
<1>11. ASSUME e.next = "close", Waits(l, rec, [e EXCEPT !.at = "closing"], q)
       PROVE  Moves(l, q)
    <2> DEFINE f == [e EXCEPT !.at = "closing"]
    <2>1. f \in Executor /\ f.at = "closing" /\ f.role = e.role /\ f.n = e.n
        BY <1>2 DEF Executor
    <2> HIDE DEF f
    <2>2. Follows(l, rec, f)
        BY <1>2, <1>3, <1>5, <1>11, <2>1 DEF Follows, Accounted, Held, PastCreation
    <2>3. QED
        BY <1>1, <1>11, <2>1, <2>2, WaitsMoves DEF f
<1>12. CASE e.next = "check" /\ Verify(l, rec, e.n, q)
    <2>1. late'[l] # 1
        BY <1>2, <1>4, <1>12 DEF PastCreation
    <2>2. QED
        BY <1>1, <1>2, <1>7, <1>12, <2>1, VerifyMoves
<1>13. CASE e.next = "check" /\ EndIteration(l, markedIfRunning(rec, "failed"), q)
    <2>1. Keeps(l, markedIfRunning(rec, "failed"))
        BY <1>1, MarkedRecord DEF Keeps, IterationStatus
    <2>2. QED
        BY <1>7, <1>13, <2>1, EndIterationMoves
<1>14. ASSUME e.next = "again", Saves(l, rec, [e EXCEPT !.next = "sleep"], q)
       PROVE  Moves(l, q)
    <2> DEFINE f == [e EXCEPT !.next = "sleep"]
    <2>1. f \in Executor /\ f.next = "sleep" /\ f.role = e.role /\ f.n = e.n
        BY <1>2 DEF Executor
    <2> HIDE DEF f
    <2>2. Follows(l, rec, [f EXCEPT !.at = "saving"])
        BY <1>2, <1>3, <1>7, <1>14, <2>1 DEF Follows, Accounted, Held, Clear, PastCreation, Executor
    <2>3. QED
        BY <1>1, <1>14, <2>1, <2>2, SavesMoves DEF f
<1>15. ASSUME e.next = "sleep", Waits(l, rec, [e EXCEPT !.at = "sleeping", !.cut = FALSE], q)
       PROVE  Moves(l, q)
    <2> DEFINE f == [e EXCEPT !.at = "sleeping", !.cut = FALSE]
    <2>1. f \in Executor /\ f.at = "sleeping" /\ f.role = e.role /\ f.n = e.n
        BY <1>2 DEF Executor
    <2> HIDE DEF f
    <2>2. Follows(l, rec, f)
        BY <1>2, <1>3, <1>7, <1>15, <2>1 DEF Follows, Accounted, Held, Clear, PastCreation
    <2>3. QED
        BY <1>1, <1>15, <2>1, <2>2, WaitsMoves DEF f
<1>16. CASE e.next = "end" /\ Waits(l, rec, idleExec, q)
    <2>1. Follows(l, rec, idleExec)
        BY <1>3, <1>7, <1>16, IdleExecutor DEF Follows, Accounted, Clear
    <2>2. QED
        BY <1>1, <1>16, <2>1, IdleExecutor, WaitsMoves
<1>17. QED
    BY <1>6, <1>8, <1>9, <1>10, <1>11, <1>12, <1>13, <1>14, <1>15, <1>16

(* After a write that failed. *)
LEMMA AbandonsMoves ==
    ASSUME NEW l \in Loop, NEW q, TypeOK, Executors, Abandons(l, q), exec[l].at = "saving", Clear(l)
    PROVE  Moves(l, q)
<1>1. loops[l] \in Record
    BY DEF Executors
<1>2. loops[l].status = "stopped" => loops[l] # NoLoop /\ loops[l].status = "stopped"
    BY <1>1, ValuesAssumption
<1>3. CASE Waits(l, loops[l], idleExec, q)
    <2>1. Follows(l, loops[l], idleExec)
        BY <1>2, IdleExecutor DEF Follows, Accounted, Clear
    <2>2. QED
        BY <1>1, <1>3, <2>1, IdleExecutor, WaitsMoves
<1>4. CASE Fails(l, loops[l], "failed", q)
    BY <1>1, <1>4, FailsMoves DEF IterationStatus
<1>5. QED
    BY <1>3, <1>4 DEF Abandons

-----------------------------------------------------------------------------
(* A move of one executor keeps the invariant. *)
Records == [Loop -> Record \cup {NoLoop}]
Used == [Bound -> Nat]

LEMMA MoveKeeps ==
    ASSUME NEW l \in Loop, NEW q \in Seq(Writer), Kept, Moves(l, q),
           QueueFine(q, exec), \A i \in 1..Len(q) : q[i] # l,
           life' \in {"booting", "up", "dying"}, stop' = stop, aborted' = aborted,
           disk' \in Records \cup {Torn}, snap' \in Records \cup {NoLoop},
           snap' # NoLoop => q # <<>>,
           used' \in Used, used'["writes"] = 0 => used["writes"] = 0,
           NEW o \in Nat, open' = [open EXCEPT ![l] = o],
           NEW n \in Nat, missed' = [missed EXCEPT ![l] = n],
           NEW k \in Nat, late' = [late EXCEPT ![l] = k], k <= 1, k = 1 => aborted[l]
    PROVE  Kept'
<1>1. PICK rec \in Record, e \in Executor :
        /\ loops' = [loops EXCEPT ![l] = rec]
        /\ exec' = [exec EXCEPT ![l] = e]
        /\ queue' = IF e.at = "saving" THEN Append(q, l) ELSE q
        /\ Follows(l, rec, e)
    BY DEF Moves
<1>2. TypeOK
    BY DEF Kept
<1>3. queue' \in Seq(Writer) /\ QueueFine(queue', exec') /\ Len(queue') >= Len(q)
    BY <1>1, <1>2, MoveFine DEF TypeOK
<1>4. /\ loops' \in Records /\ loops'[l] = rec /\ \A m \in Loop \ {l} : loops'[m] = loops[m]
      /\ exec' \in [Loop -> Executor] /\ exec'[l] = e
      /\ \A m \in Loop \ {l} : exec'[m] = exec[m]
    BY <1>1, <1>2 DEF TypeOK, Records
<1>5. /\ open' \in [Loop -> Nat] /\ \A m \in Loop \ {l} : open'[m] = open[m]
      /\ missed' \in [Loop -> Nat] /\ \A m \in Loop \ {l} : missed'[m] = missed[m]
      /\ late' \in [Loop -> Nat] /\ late'[l] = k /\ \A m \in Loop \ {l} : late'[m] = late[m]
    BY <1>2 DEF TypeOK
<1>6. TypeOK'
    <2>1. \A m \in Loop : exec'[m].role = "verifier" => exec'[m].n <= Attempts
        BY <1>1, <1>2, <1>4 DEF TypeOK, Follows
    <2>2. QED
        BY <1>2, <1>3, <1>4, <1>5, <2>1 DEF TypeOK, Records, Used, Writer
<1>7. Executors'
    BY <1>1, <1>4 DEF Kept, Executors, Follows
<1>8. OnceLate'
    BY <1>1, <1>4, <1>5 DEF Kept, OnceLate, Follows
<1>9. OpenHeld'
    BY <1>1, <1>4, <1>5 DEF Kept, OpenHeld, Follows
<1>10. Queued'
    BY <1>3 DEF Queued
<1>11. Stops'
    <2>1. \A s \in Stopper : stop[s].of \in Loop
        BY <1>2 DEF TypeOK, Stopping
    <2>2. QED
        BY <1>4, <2>1 DEF Kept, Stops
<1>12. Down'
    BY DEF Down
<1>13. QED
    BY <1>6, <1>7, <1>8, <1>9, <1>10, <1>11, <1>12 DEF Kept

LEMMA ExecutorKeeps ==
    ASSUME NEW l \in Loop, IInv, running, exec[l].at # "saving", Moves(l, queue), ExecutorOnly,
           used' \in Used, used'["writes"] = used["writes"],
           NEW o \in Nat, open' = [open EXCEPT ![l] = o],
           NEW n \in Nat, missed' = [missed EXCEPT ![l] = n],
           NEW k \in Nat, late' = [late EXCEPT ![l] = k], k <= 1, k = 1 => aborted[l]
    PROVE  IInv'
<1>1. queue \in Seq(Writer) /\ disk \in Records \cup {Torn} /\ snap \in Records \cup {NoLoop}
    BY DEF IInv, Kept, TypeOK, Writer, Records
<1>2. QueueFine(queue, exec) /\ \A i \in 1..Len(queue) : queue[i] # l
    BY DEF IInv, Kept, Queued, QueueFine
<1>3. life \in {"booting", "up", "dying"}
    BY DEF running
<1>4. Kept'
    BY <1>1, <1>2, <1>3, MoveKeeps DEF ExecutorOnly, IInv, Kept, Queued
<1>5. Saved'
    <2>1. PICK rec \in Record, e \in Executor :
            /\ loops' = [loops EXCEPT ![l] = rec]
            /\ queue' = IF e.at = "saving" THEN Append(queue, l) ELSE queue
            /\ rec.status = "stopped" =>
                  (loops[l] # NoLoop /\ loops[l].status = "stopped") \/ e.at = "saving"
        BY DEF Moves, Follows
    <2>2. /\ e.at = "saving" => queue' # <<>> /\ Len(queue') = Len(queue) + 1
          /\ e.at # "saving" => queue' = queue
          /\ queue # <<>> => queue' # <<>> /\ Len(queue) >= 1
          /\ Len(queue) >= 2 => Len(queue') >= 2
        BY <1>1, <2>1 DEF Writer
    <2>3. loops'[l] = rec /\ \A m \in Loop \ {l} : loops'[m] = loops[m]
        BY <2>1 DEF IInv, Kept, TypeOK
    <2>4. \A m \in Loop : loops'[m] # NoLoop /\ loops'[m].status = "stopped" =>
            (loops[m] # NoLoop /\ loops[m].status = "stopped") \/ e.at = "saving"
        BY <2>1, <2>3
    <2>5. snap # NoLoop => queue # <<>>
        BY DEF IInv, Kept, Queued
    <2>6. disk' = disk /\ snap' = snap
        BY DEF ExecutorOnly
    <2>7. Len(queue) \in Nat /\ Len(queue') \in Nat
        BY <1>1, <2>1 DEF Writer
    <2>8. QED
        BY <2>2, <2>4, <2>5, <2>6, <2>7 DEF IInv, Saved
<1>6. QED
    BY <1>4, <1>5 DEF IInv

(* A move that creates and closes no agent. *)
LEMMA QuietKeeps ==
    ASSUME NEW l \in Loop, IInv, running, exec[l].at # "saving", Moves(l, queue), ExecutorOnly,
           used' \in Used, used'["writes"] = used["writes"], UNCHANGED <<open, late, missed>>
    PROVE  IInv'
<1>1. /\ open' = [open EXCEPT ![l] = open[l]] /\ late' = [late EXCEPT ![l] = late[l]]
      /\ missed' = [missed EXCEPT ![l] = missed[l]]
    BY DEF IInv, Kept, TypeOK
<1>2. open[l] \in Nat /\ missed[l] \in Nat /\ late[l] \in Nat /\ late[l] <= 1 /\ (late[l] = 1 => aborted[l])
    BY DEF IInv, Kept, TypeOK, OnceLate
<1>3. QED
    BY <1>1, <1>2, ExecutorKeeps

(* A move that closes the agent it holds, or fails to. *)
LEMMA CloseKeeps ==
    ASSUME NEW l \in Loop, IInv, running, exec[l].at # "saving", Moves(l, queue), ExecutorOnly,
           used' \in Used, used'["writes"] = used["writes"],
           NEW o \in Nat, open' = [open EXCEPT ![l] = o],
           NEW n \in Nat, missed' = [missed EXCEPT ![l] = n], UNCHANGED late
    PROVE  IInv'
<1>1. late' = [late EXCEPT ![l] = late[l]]
    BY DEF IInv, Kept, TypeOK
<1>2. late[l] \in Nat /\ late[l] <= 1 /\ (late[l] = 1 => aborted[l])
    BY DEF IInv, Kept, TypeOK, OnceLate
<1>3. QED
    BY <1>1, <1>2, ExecutorKeeps

-----------------------------------------------------------------------------
(* One lemma per action. *)

(* What is known of an executor that is not idle. *)
LEMMA AtWork ==
    ASSUME NEW l \in Loop, IInv, exec[l].at # "none"
    PROVE  /\ loops[l] \in Record /\ Keeps(l, loops[l]) /\ loops[l] # NoLoop
           /\ exec[l] \in Executor /\ (exec[l].role = "verifier" => exec[l].n <= Attempts)
           /\ open[l] \in Nat /\ missed[l] \in Nat /\ used \in Used
           /\ Accounted(open[l], missed[l], exec[l])
           /\ late[l] \in {0, 1} /\ (late[l] = 1 => aborted[l] /\ PastCreation(exec[l]))
<1>1. loops[l] \in Record
    BY DEF IInv, Kept, Executors
<1>2. late[l] \in Nat /\ late[l] <= 1
    BY DEF IInv, Kept, TypeOK, OnceLate
<1>3. QED
    BY <1>1, <1>2, ValuesAssumption DEF Keeps, IInv, Kept, TypeOK, OpenHeld, OnceLate, Used

LEMMA AgentCreatedKeeps == \A l \in Loop : IInv /\ AgentCreated(l) => IInv'
<1> SUFFICES ASSUME NEW l \in Loop, IInv, AgentCreated(l)
             PROVE  IInv'
    OBVIOUS
<1> DEFINE rec == [loops[l] EXCEPT !.ids = @ \cup {exec[l].role}]
           e == [exec[l] EXCEPT !.next = "run"]
           o == open[l] + 1
           k == IF aborted[l] THEN late[l] + 1 ELSE late[l]
<1>1. /\ running /\ exec[l].at = "creating" /\ Saves(l, rec, e, queue) /\ ExecutorOnly
      /\ open' = [open EXCEPT ![l] = o] /\ late' = [late EXCEPT ![l] = k]
      /\ UNCHANGED <<missed, used>>
    BY DEF AgentCreated
<1>2. exec[l].role \in Role /\ rec \in Record /\ rec.status = loops[l].status
    BY <1>1, AtWork DEF Executor, Record
<1>3. e \in Executor /\ e.next = "run" /\ e.role = exec[l].role /\ e.n = exec[l].n
    BY <1>1, AtWork DEF Executor
<1>4. late[l] = 0 /\ k \in Nat /\ k <= 1 /\ (k = 1 => aborted[l])
    BY <1>1, AtWork DEF PastCreation
<1>5. o \in Nat /\ o = missed[l] + 1 /\ missed[l] \in Nat
    BY <1>1, AtWork DEF Accounted, Held
<1>6. open'[l] = o /\ missed' = [missed EXCEPT ![l] = missed[l]]
    BY <1>1 DEF IInv, Kept, TypeOK
<1>7. loops[l] # NoLoop /\ (exec[l].role = "verifier" => exec[l].n <= Attempts)
    BY <1>1, AtWork
<1> HIDE DEF rec, e, o, k
<1>8. Follows(l, rec, [e EXCEPT !.at = "saving"])
    BY <1>1, <1>2, <1>3, <1>5, <1>6, <1>7 DEF Follows, Accounted, PastCreation, Held, Executor
<1>9. Moves(l, queue)
    BY <1>1, <1>2, <1>3, <1>8, SavesMoves
<1>10. used \in Used
    BY DEF IInv, Kept, TypeOK, Used
<1>11. QED
    BY <1>1, <1>4, <1>5, <1>6, <1>9, <1>10, ExecutorKeeps

LEMMA CreateFailsKeeps == \A l \in Loop : IInv /\ CreateFails(l) => IInv'
<1> SUFFICES ASSUME NEW l \in Loop, IInv, CreateFails(l)
             PROVE  IInv'
    OBVIOUS
<1>1. /\ running /\ exec[l].at = "creating" /\ Fails(l, loops[l], "failed", queue)
      /\ ExecutorOnly /\ UNCHANGED <<open, late, missed>>
      /\ used' = [used EXCEPT !["agents"] = used["agents"] + 1]
    BY DEF CreateFails, fault
<1>2. used' \in Used /\ used'["writes"] = used["writes"]
    BY <1>1, AtWork DEF Used, Bound
<1>3. Clear(l)
    BY <1>1, AtWork DEF Clear, Accounted, Held
<1>4. Moves(l, queue)
    BY <1>1, <1>3, AtWork, FailsMoves DEF IterationStatus
<1>5. QED
    BY <1>1, <1>2, <1>4, QuietKeeps

LEMMA LeavesMoves ==
    ASSUME NEW l \in Loop, IInv, exec[l].at = "running", NEW rec, Keeps(l, rec),
           NEW result \in {"passed", "failed", "canceled", "error"}, Leaves(l, rec, result),
           UNCHANGED <<open, late, missed, used>>
    PROVE  Moves(l, queue)
<1> DEFINE r == [rec EXCEPT !.ids = @ \ {exec[l].role}]
           e == [exec[l] EXCEPT !.next = "close", !.result = result]
<1>1. r \in Record /\ r.status = loops[l].status
    BY DEF Keeps, Record
<1>2. e \in Executor /\ e.next = "close" /\ e.role = exec[l].role /\ e.n = exec[l].n
    BY AtWork DEF Executor
<1>3. Saves(l, r, e, queue)
    BY DEF Leaves
<1>4. /\ loops[l] # NoLoop /\ (exec[l].role = "verifier" => exec[l].n <= Attempts)
      /\ open[l] = missed[l] + 1
    BY AtWork DEF Accounted, Held
<1> HIDE DEF r, e
<1>5. Follows(l, r, [e EXCEPT !.at = "saving"])
    BY <1>1, <1>2, <1>4 DEF Follows, Accounted, PastCreation, Held, Executor
<1>6. QED
    BY <1>1, <1>2, <1>3, <1>5, SavesMoves

LEMMA WorkerEndsKeeps == \A l \in Loop : IInv /\ WorkerEnds(l) => IInv'
<1> SUFFICES ASSUME NEW l \in Loop, IInv, WorkerEnds(l)
             PROVE  IInv'
    OBVIOUS
<1>1. /\ running /\ exec[l].at = "running" /\ ExecutorOnly /\ UNCHANGED <<open, late, missed, used>>
      /\ \/ \E result \in {"passed", "failed"} : Leaves(l, loops[l], result)
         \/ Leaves(l, marked(loops[l], "stopped"), "canceled")
    BY DEF WorkerEnds
<1>2. Keeps(l, loops[l]) /\ Keeps(l, marked(loops[l], "stopped")) /\ used \in Used
    BY <1>1, AtWork, MarkedRecord DEF Keeps, IterationStatus
<1>3. Moves(l, queue)
    BY <1>1, <1>2, LeavesMoves
<1>4. QED
    BY <1>1, <1>2, <1>3, QuietKeeps

LEMMA VerifierEndsKeeps == \A l \in Loop : IInv /\ VerifierEnds(l) => IInv'
<1> SUFFICES ASSUME NEW l \in Loop, IInv, VerifierEnds(l)
             PROVE  IInv'
    OBVIOUS
<1>1. /\ running /\ exec[l].at = "running" /\ ExecutorOnly /\ UNCHANGED <<open, late, missed, used>>
    BY DEF VerifierEnds
<1>2. CASE \E result \in {"passed", "failed", "error"} : Leaves(l, loops[l], result)
    BY <1>1, <1>2, AtWork, LeavesMoves, QuietKeeps
<1>3. ASSUME exec[l].n < Attempts,
             Waits(l, loops[l], [exec[l] EXCEPT !.n = @ + 1, !.cut = FALSE], queue)
      PROVE  IInv'
    <2> DEFINE e == [exec[l] EXCEPT !.n = @ + 1, !.cut = FALSE]
    <2>1. /\ e \in Executor /\ e.at = "running" /\ e.role = exec[l].role
          /\ e.n = exec[l].n + 1 /\ e.n <= Attempts
        <3>1. exec[l] \in Executor
            BY <1>1, AtWork
        <3>2. exec[l].n \in Nat
            BY <3>1 DEF Executor
        <3>3. e.n = exec[l].n + 1 /\ e.at = exec[l].at /\ e.role = exec[l].role
            BY <3>1 DEF Executor
        <3>4. exec[l].n + 1 \in Nat /\ exec[l].n + 1 <= Attempts
            BY <1>3, <3>2, AttemptsAssumption
        <3>5. e \in Executor
            BY <3>1, <3>4 DEF Executor
        <3>6. QED
            BY <1>1, <3>3, <3>4, <3>5
    <2> HIDE DEF e
    <2>2. Follows(l, loops[l], e)
        BY <1>1, <2>1, AtWork DEF Follows, Accounted, Held, PastCreation
    <2>3. Moves(l, queue)
        BY <1>1, <1>3, <2>1, <2>2, AtWork, WaitsMoves DEF e
    <2>4. QED
        BY <1>1, <2>3, AtWork, QuietKeeps
<1>4. QED
    BY <1>2, <1>3 DEF VerifierEnds

(* After the clean-up the executor has no agent: it is closed, or counted among the missed. *)
LEMMA CleanUpClears ==
    ASSUME NEW l \in Loop, IInv, exec[l].at = "closing", CleanUp(l)
    PROVE  /\ Clear(l) /\ used' \in Used /\ used'["writes"] = used["writes"]
           /\ \E o \in Nat : open' = [open EXCEPT ![l] = o]
           /\ \E n \in Nat : missed' = [missed EXCEPT ![l] = n]
<1>1. /\ open[l] = missed[l] + 1 /\ open[l] \in Nat /\ missed[l] \in Nat /\ used \in Used
      /\ open \in [Loop -> Nat] /\ missed \in [Loop -> Nat]
    BY AtWork DEF Accounted, Held, IInv, Kept, TypeOK
<1>2. CASE open' = [open EXCEPT ![l] = open[l] - 1] /\ UNCHANGED <<missed, used>>
    <2>1. PICK o : o = open[l] - 1
        OBVIOUS
    <2>2. o \in Nat /\ o = missed[l] /\ open' = [open EXCEPT ![l] = o]
        BY <1>1, <1>2, <2>1
    <2>3. missed' = [missed EXCEPT ![l] = missed[l]]
        BY <1>1, <1>2
    <2>4. QED
        BY <1>1, <1>2, <2>2, <2>3 DEF Clear
<1>3. CASE /\ used' = [used EXCEPT !["cleanups"] = used["cleanups"] + 1]
           /\ missed' = [missed EXCEPT ![l] = missed[l] + 1] /\ UNCHANGED open
    <2>1. PICK n : n = missed[l] + 1
        OBVIOUS
    <2>2. n \in Nat /\ n = open[l] /\ missed' = [missed EXCEPT ![l] = n]
        BY <1>1, <1>3, <2>1
    <2>3. open' = [open EXCEPT ![l] = open[l]]
        BY <1>1, <1>3
    <2>4. used' \in Used /\ used'["writes"] = used["writes"]
        BY <1>1, <1>3 DEF Used, Bound
    <2>5. QED
        BY <1>1, <1>3, <2>2, <2>3, <2>4 DEF Clear
<1>4. QED
    BY <1>2, <1>3 DEF CleanUp, fault

LEMMA WorkerClosedKeeps == \A l \in Loop : IInv /\ WorkerClosed(l) => IInv'
<1> SUFFICES ASSUME NEW l \in Loop, IInv, WorkerClosed(l)
             PROVE  IInv'
    OBVIOUS
<1>1. /\ running /\ exec[l].at = "closing" /\ exec[l].role = "worker" /\ ExecutorOnly
      /\ CleanUp(l) /\ UNCHANGED late
      /\ \/ Fails(l, markedIfRunning(loops[l], "stopped"), "stopped", queue)
         \/ ~aborted[l] /\ Verify(l, loops[l], 0, queue)
         \/ EndIteration(l, markedIfRunning(loops[l], "failed"), queue)
    BY DEF WorkerClosed
<1>2. Clear(l)
    BY <1>1, CleanUpClears
<1>3. /\ Keeps(l, loops[l]) /\ Keeps(l, markedIfRunning(loops[l], "failed"))
      /\ markedIfRunning(loops[l], "stopped") \in Record
    BY <1>1, AtWork, MarkedRecord DEF Keeps, IterationStatus
<1>4. Moves(l, queue)
    <2>1. CASE Fails(l, markedIfRunning(loops[l], "stopped"), "stopped", queue)
        BY <1>2, <1>3, <2>1, FailsMoves DEF IterationStatus
    <2>2. CASE ~aborted[l] /\ Verify(l, loops[l], 0, queue)
        <3>1. late'[l] # 1
            BY <1>1, <2>2, AtWork
        <3>2. QED
            BY <1>2, <1>3, <2>2, <3>1, VerifyMoves
    <2>3. CASE EndIteration(l, markedIfRunning(loops[l], "failed"), queue)
        BY <1>2, <1>3, <2>3, EndIterationMoves
    <2>4. QED
        BY <1>1, <2>1, <2>2, <2>3
<1>5. QED
    BY <1>1, <1>4, CleanUpClears, CloseKeeps

LEMMA VerifierClosedKeeps == \A l \in Loop : IInv /\ VerifierClosed(l) => IInv'
<1> SUFFICES ASSUME NEW l \in Loop, IInv, VerifierClosed(l)
             PROVE  IInv'
    OBVIOUS
<1>1. /\ running /\ exec[l].at = "closing" /\ exec[l].role = "verifier" /\ ExecutorOnly
      /\ CleanUp(l) /\ UNCHANGED late
      /\ \/ Succeeds(l, loops[l], queue)
         \/ EndIteration(l, markedIfRunning(loops[l], "failed"), queue)
         \/ Fails(l, loops[l], "failed", queue)
    BY DEF VerifierClosed
<1>2. Clear(l)
    BY <1>1, CleanUpClears
<1>3. Keeps(l, loops[l]) /\ Keeps(l, markedIfRunning(loops[l], "failed"))
    BY <1>1, AtWork, MarkedRecord DEF Keeps, IterationStatus
<1>4. Moves(l, queue)
    <2>1. CASE Succeeds(l, loops[l], queue)
        BY <1>2, <1>3, <2>1, SucceedsMoves
    <2>2. CASE EndIteration(l, markedIfRunning(loops[l], "failed"), queue)
        BY <1>2, <1>3, <2>2, EndIterationMoves
    <2>3. CASE Fails(l, loops[l], "failed", queue)
        BY <1>2, <1>3, <2>3, FailsMoves DEF IterationStatus, Keeps
    <2>4. QED
        BY <1>1, <2>1, <2>2, <2>3
<1>5. QED
    BY <1>1, <1>4, CleanUpClears, CloseKeeps

LEMMA CheckEndsKeeps == \A l \in Loop : IInv /\ CheckEnds(l) => IInv'
<1> SUFFICES ASSUME NEW l \in Loop, IInv, CheckEnds(l)
             PROVE  IInv'
    OBVIOUS
<1>1. /\ running /\ exec[l].at = "checking" /\ ExecutorOnly /\ UNCHANGED <<open, late, missed, used>>
    BY DEF CheckEnds
<1>2. PICK result \in {"passed", "failed"} :
        Saves(l, loops[l], [exec[l] EXCEPT !.next = "check", !.n = exec[l].n + 1,
                                           !.result = result], queue)
    BY DEF CheckEnds
<1>3. exec[l] \in Executor /\ exec[l].role = "worker"
    BY <1>1, AtWork DEF IInv, Kept, Executors
<1>4. exec[l].n + 1 \in Nat
    BY <1>3 DEF Executor
<1> DEFINE m == exec[l].n + 1
           e == [exec[l] EXCEPT !.next = "check", !.n = m, !.result = result]
<1>5. m \in Nat /\ Saves(l, loops[l], e, queue)
    BY <1>2, <1>4
<1> HIDE DEF m
<1>6. e \in Executor /\ e.role = "worker" /\ e.next = "check"
    BY <1>3, <1>5 DEF Executor
<1> HIDE DEF e
<1>7. open[l] = missed[l]
    BY <1>1, AtWork DEF Accounted, Held
<1>8. late[l] # 1 /\ loops[l] # NoLoop
    BY <1>1, AtWork DEF PastCreation
<1>9. Follows(l, loops[l], [e EXCEPT !.at = "saving"])
    BY <1>1, <1>6, <1>7, <1>8 DEF Follows, Accounted, Held, Executor
<1>10. Moves(l, queue)
    BY <1>1, <1>5, <1>6, <1>9, AtWork, SavesMoves
<1>11. QED
    BY <1>1, <1>10, AtWork, QuietKeeps

LEMMA WakesKeeps == \A l \in Loop : IInv /\ Wakes(l) => IInv'
<1> SUFFICES ASSUME NEW l \in Loop, IInv, Wakes(l)
             PROVE  IInv'
    OBVIOUS
<1>1. /\ running /\ exec[l].at = "sleeping" /\ ExecutorOnly /\ UNCHANGED <<open, late, missed, used>>
      /\ Fails(l, loops[l], "stopped", queue) \/ Iterate(l, loops[l], queue)
    BY DEF Wakes
<1>2. Clear(l) /\ (late'[l] = 1 => aborted[l])
    BY <1>1, AtWork DEF Clear, Accounted, Held
<1>3. Moves(l, queue)
    BY <1>1, <1>2, AtWork, FailsMoves, IterateMoves DEF IterationStatus
<1>4. QED
    BY <1>1, <1>3, AtWork, QuietKeeps

LEMMA RunLoopKeeps == \A l \in Loop : IInv /\ RunLoop(l) => IInv'
<1> SUFFICES ASSUME NEW l \in Loop, IInv, RunLoop(l)
             PROVE  IInv'
    OBVIOUS
<1> DEFINE rec == [status |-> "running", iterations |-> <<>>, active |-> 0, ids |-> {}]
<1>1. /\ running /\ loops[l] = NoLoop /\ Saves(l, rec, idleExec, queue) /\ ExecutorOnly
      /\ UNCHANGED <<open, late, missed, used>>
    BY DEF RunLoop, running
<1>2. exec[l].at = "none"
    BY <1>1, ValuesAssumption DEF IInv, Kept, Executors
<1>3. rec \in Record /\ rec.status = "running"
    BY DEF Record, IterationStatus
<1>4. open[l] = missed[l]
    BY <1>2 DEF IInv, Kept, OpenHeld, Accounted, Held
<1> HIDE DEF rec
<1>5. Follows(l, rec, [idleExec EXCEPT !.at = "saving"])
    BY <1>1, <1>3, <1>4 DEF Follows, Accounted, Held, idleExec, PastCreation
<1>6. Moves(l, queue)
    BY <1>1, <1>3, <1>5, IdleExecutor, SavesMoves
<1>7. used \in Used
    BY DEF IInv, Kept, TypeOK, Used
<1>8. QED
    BY <1>1, <1>2, <1>6, <1>7, QuietKeeps

-----------------------------------------------------------------------------
(* Steps that leave every executor where it is. *)
Stays(ex) ==
    /\ ex \in [Loop -> Executor]
    /\ \A l \in Loop : /\ ex[l].at = exec[l].at /\ ex[l].next = exec[l].next
                       /\ ex[l].role = exec[l].role /\ ex[l].n = exec[l].n

LEMMA StaysKeeps ==
    ASSUME Kept, Stays(exec'), UNCHANGED <<late, missed, open>>,
           aborted' \in [Loop -> BOOLEAN], \A l \in Loop : aborted[l] => aborted'[l],
           used' \in Used, used'["writes"] = 0 => used["writes"] = 0,
           loops' \in Records, \A l \in Loop : exec[l].at # "none" => loops'[l] \in Record,
           queue' \in Seq(Writer), QueueFine(queue', exec), snap' # NoLoop => queue' # <<>>,
           disk' \in Records \cup {Torn}, snap' \in Records \cup {NoLoop},
           stop' \in [Stopper -> Stopping],
           \A s \in Stopper : stop'[s].at # "idle" => loops'[stop'[s].of] \in Record,
           life' \in {"booting", "up", "dying"}
    PROVE  Kept'
<1>1. /\ exec' \in [Loop -> Executor]
      /\ \A l \in Loop : /\ exec'[l].at = exec[l].at /\ exec'[l].next = exec[l].next
                         /\ exec'[l].role = exec[l].role /\ exec'[l].n = exec[l].n
    BY DEF Stays
<1>2. TypeOK'
    BY <1>1 DEF Kept, TypeOK, Records, Used, Writer
<1>3. Executors'
    BY <1>1 DEF Kept, Executors
<1>4. OnceLate'
    BY <1>1 DEF Kept, OnceLate, PastCreation
<1>5. OpenHeld'
    BY <1>1 DEF Kept, OpenHeld, Accounted, Held
<1>6. Queued'
    BY <1>1 DEF Queued, QueueFine
<1>7. Stops' /\ Down'
    BY DEF Stops, Down
<1>8. QED
    BY <1>2, <1>3, <1>4, <1>5, <1>6, <1>7 DEF Kept

LEMMA StillStays == ASSUME Kept, UNCHANGED exec PROVE Stays(exec')
BY DEF Kept, TypeOK, Stays

LEMMA InterruptedStays ==
    ASSUME Kept, NEW l \in Loop, exec' = interrupted(l)
    PROVE  Stays(exec')
<1> DEFINE c == IF exec[l].at \in {"running", "sleeping"} THEN TRUE ELSE exec[l].cut
           e == [exec[l] EXCEPT !.cut = c]
<1>1. exec \in [Loop -> Executor] /\ exec[l] \in Executor
    BY DEF Kept, TypeOK
<1>2. exec' = [exec EXCEPT ![l] = e]
    BY <1>1 DEF interrupted
<1>3. c \in BOOLEAN
    BY <1>1 DEF Executor
<1> HIDE DEF c
<1>4. /\ e \in Executor /\ e.at = exec[l].at /\ e.next = exec[l].next
      /\ e.role = exec[l].role /\ e.n = exec[l].n
    BY <1>1, <1>3 DEF Executor
<1> HIDE DEF e
<1>5. QED
    BY <1>1, <1>2, <1>4 DEF Stays

LEMMA AppendFine ==
    ASSUME NEW q \in Seq(Writer), NEW w \in Writer \ Loop, NEW ex, QueueFine(q, ex)
    PROVE  /\ Append(q, w) \in Seq(Writer) /\ QueueFine(Append(q, w), ex)
           /\ Len(Append(q, w)) = Len(q) + 1 /\ Append(q, w) # <<>>
<1> DEFINE a == Append(q, w)
<1>1. /\ a \in Seq(Writer) /\ Len(a) = Len(q) + 1 /\ a[Len(q) + 1] = w
      /\ \A i \in 1..Len(q) : a[i] = q[i]
      /\ \A i \in 1..Len(a) : i \in 1..Len(q) \/ i = Len(q) + 1
    OBVIOUS
<1>2. a # <<>> /\ Len(q) \in Nat
    OBVIOUS
<1> HIDE DEF a
<1>3. \A i \in 1..Len(a) : a[i] \in Loop => i \in 1..Len(q)
    BY <1>1
<1>4. QueueFine(a, ex)
    BY <1>1, <1>3 DEF QueueFine
<1>5. QED
    BY <1>1, <1>2, <1>4 DEF a

(* What the invariant says, by name. *)
LEMMA Known ==
    ASSUME IInv
    PROVE  /\ Kept /\ loops \in Records /\ disk \in Records \cup {Torn}
           /\ snap \in Records \cup {NoLoop} /\ queue \in Seq(Writer) /\ used \in Used
           /\ stop \in [Stopper -> Stopping] /\ exec \in [Loop -> Executor]
           /\ aborted \in [Loop -> BOOLEAN] /\ QueueFine(queue, exec)
           /\ snap # NoLoop => queue # <<>>
           /\ \A l \in Loop : exec[l].at # "none" => loops[l] \in Record
           /\ \A s \in Stopper : /\ stop[s].of \in Loop
                                 /\ stop[s].at # "idle" => loops[stop[s].of] \in Record
           /\ life \in {"down", "booting", "up", "dying"} /\ (life = "down" => snap = NoLoop)
<1>1. TypeOK /\ Executors /\ Queued /\ Stops /\ Down /\ Kept
    BY DEF IInv, Kept
<1>2. \A s \in Stopper : stop[s].of \in Loop
    BY <1>1 DEF TypeOK, Stopping
<1>3. QED
    BY <1>1, <1>2 DEF TypeOK, Executors, Queued, Stops, Down, Records, Used, Writer

LEMMA AppendSaved ==
    ASSUME IInv, NEW w \in Writer, queue' = Append(queue, w), UNCHANGED snap
    PROVE  Saved'
<1>1. queue' # <<>> /\ (queue # <<>> => Len(queue') >= 2)
    BY Known
<1>2. QED
    BY <1>1, Known DEF Saved

LEMMA StreamLoggedKeeps == \A l \in Loop : IInv /\ StreamLogged(l) => IInv'
<1> SUFFICES ASSUME NEW l \in Loop, IInv, StreamLogged(l)
             PROVE  IInv'
    OBVIOUS
<1>1. /\ running /\ used' = [used EXCEPT !["logs"] = used["logs"] + 1]
      /\ queue' = Append(queue, Log) /\ UNCHANGED <<loops, exec, open, late, missed>>
      /\ ExecutorOnly
    BY DEF StreamLogged, spend
<1>2. Log \in Writer \ Loop
    BY WritersAssumption DEF Writer
<1>3. used' \in Used /\ used'["writes"] = used["writes"]
    BY <1>1, Known DEF Used, Bound
<1>4. queue' \in Seq(Writer) /\ QueueFine(queue', exec) /\ queue' # <<>>
    BY <1>1, <1>2, Known, AppendFine
<1>5. life' \in {"booting", "up", "dying"}
    BY <1>1 DEF running, ExecutorOnly
<1>6. Kept'
    BY <1>1, <1>3, <1>4, <1>5, Known, StillStays, StaysKeeps DEF ExecutorOnly
<1>7. QED
    BY <1>1, <1>2, <1>6, AppendSaved DEF IInv, ExecutorOnly

LEMMA StopLoopKeeps == \A s \in Stopper, l \in Loop : IInv /\ StopLoop(s, l) => IInv'
<1> SUFFICES ASSUME NEW s \in Stopper, NEW l \in Loop, IInv, StopLoop(s, l)
             PROVE  IInv'
    OBVIOUS
<1> DEFINE call == [at |-> "saving", of |-> l, found |-> hasExecutor(l)]
<1>1. /\ life = "up" /\ loops[l] # NoLoop /\ stop' = [stop EXCEPT ![s] = call]
      /\ used' = [used EXCEPT !["stops"] = used["stops"] + 1]
      /\ queue' = Append(queue, s)
      /\ UNCHANGED <<loops, disk, snap, exec, aborted, open, life, late, missed>>
    BY DEF StopLoop, spend
<1>2. call \in Stopping /\ call.of = l
    BY DEF Stopping, hasExecutor
<1>3. s \in Writer \ Loop
    BY WritersAssumption DEF Writer
<1>4. used' \in Used /\ used'["writes"] = used["writes"]
    BY <1>1, Known DEF Used, Bound
<1>5. queue' \in Seq(Writer) /\ QueueFine(queue', exec) /\ queue' # <<>>
    BY <1>1, <1>3, Known, AppendFine
<1>6. loops[l] \in Record
    BY <1>1, Known DEF Records
<1> HIDE DEF call
<1>7. /\ stop' \in [Stopper -> Stopping]
      /\ \A t \in Stopper : stop'[t].at # "idle" => loops[stop'[t].of] \in Record
    BY <1>1, <1>2, <1>6, Known
<1>8. Kept'
    BY <1>1, <1>4, <1>5, <1>7, Known, StillStays, StaysKeeps
<1>9. QED
    BY <1>1, <1>3, <1>8, AppendSaved DEF IInv

LEMMA CancelReturnsKeeps == \A s \in Stopper : IInv /\ CancelReturns(s) => IInv'
<1> SUFFICES ASSUME NEW s \in Stopper, IInv, CancelReturns(s)
             PROVE  IInv'
    OBVIOUS
<1>1. /\ running /\ stop[s].at \in {"worker", "verifier"}
      /\ exec' = interrupted(stop[s].of) \/ UNCHANGED exec
      /\ UNCHANGED <<loops, disk, queue, snap, aborted, open, life, late, missed, used>>
    BY DEF CancelReturns
<1>2. PICK a \in {"verifier", "awaiting"} : stop' = [stop EXCEPT ![s].at = a]
    BY DEF CancelReturns
<1>3. Stays(exec')
    BY <1>1, Known, InterruptedStays, StillStays
<1>4. /\ stop' \in [Stopper -> Stopping]
      /\ \A t \in Stopper : stop'[t].at # "idle" => loops[stop'[t].of] \in Record
    <2> DEFINE call == [stop[s] EXCEPT !.at = a]
    <2>1. call \in Stopping /\ call.of = stop[s].of
        BY Known DEF Stopping
    <2>2. stop' = [stop EXCEPT ![s] = call] /\ loops[call.of] \in Record
        BY <1>1, <1>2, <2>1, Known
    <2> HIDE DEF call
    <2>3. QED
        BY <2>1, <2>2, Known
<1>5. life' \in {"booting", "up", "dying"}
    BY <1>1 DEF running
<1>6. Kept'
    BY <1>1, <1>3, <1>4, <1>5, Known, StaysKeeps
<1>7. Saved'
    BY <1>1 DEF IInv, Saved
<1>8. QED
    BY <1>6, <1>7 DEF IInv

LEMMA StopReturnsKeeps == \A s \in Stopper : IInv /\ StopReturns(s) => IInv'
<1> SUFFICES ASSUME NEW s \in Stopper, IInv, StopReturns(s)
             PROVE  IInv'
    OBVIOUS
<1>1. /\ running /\ stop' = [stop EXCEPT ![s] = idleStop]
      /\ UNCHANGED <<loops, disk, queue, snap, exec, aborted, open, life, late, missed, used>>
    BY DEF StopReturns
<1>2. /\ stop' \in [Stopper -> Stopping]
      /\ \A t \in Stopper : stop'[t].at # "idle" => loops[stop'[t].of] \in Record
    BY <1>1, Known, IdleStopping
<1>3. life' \in {"booting", "up", "dying"}
    BY <1>1 DEF running
<1>4. Kept'
    BY <1>1, <1>2, <1>3, Known, StillStays, StaysKeeps
<1>5. Saved'
    BY <1>1 DEF IInv, Saved
<1>6. QED
    BY <1>4, <1>5 DEF IInv

LEMMA WriteStartsKeeps == IInv /\ WriteStarts => IInv'
<1> SUFFICES ASSUME IInv, WriteStarts
             PROVE  IInv'
    OBVIOUS
<1>1. /\ life # "down" /\ queue # <<>> /\ snap' = loops /\ disk' = Torn
      /\ UNCHANGED <<loops, queue, exec, aborted, open, stop, life, late, missed, used>>
    BY DEF WriteStarts
<1>2. Kept'
    BY <1>1, Known, StillStays, StaysKeeps
<1>3. Saved'
    BY <1>1 DEF Saved
<1>4. QED
    BY <1>2, <1>3 DEF IInv

(* The writer at the head of the queue. *)
LEMMA HeadOfQueue ==
    ASSUME IInv, queue # <<>>
    PROVE  /\ Head(queue) \in Writer /\ Tail(queue) \in Seq(Writer)
           /\ QueueFine(Tail(queue), exec)
           /\ Len(queue) >= 2 => Tail(queue) # <<>>
           /\ Head(queue) \in Loop => /\ exec[Head(queue)].at = "saving"
                                     /\ \A i \in 1..Len(Tail(queue)) : Tail(queue)[i] # Head(queue)
<1>1. queue \in Seq(Writer) /\ QueueFine(queue, exec)
    BY Known
<1>2. Head(queue) = queue[1] /\ 1 \in 1..Len(queue) /\ (Len(queue) >= 2 => Tail(queue) # <<>>)
    BY <1>1
<1>3. Head(queue) \in Loop => exec[Head(queue)].at = "saving"
    BY <1>1, <1>2 DEF QueueFine
<1>4. QED
    BY <1>1, <1>2, <1>3, TailFine

(* A write that has ended leaves every stopped loop in the file, or a write to come. *)
LEMMA WrittenSaved ==
    ASSUME IInv, snap # NoLoop, disk' = snap, snap' = NoLoop, UNCHANGED used,
           queue' # <<>> \/ queue' = Tail(queue),
           \A l \in Loop : loops'[l] # NoLoop /\ loops'[l].status = "stopped" =>
             (loops[l] # NoLoop /\ loops[l].status = "stopped") \/ queue' # <<>>
    PROVE  Saved'
<1>1. queue # <<>>
    BY Known
<1>2. Len(queue) >= 2 => queue' # <<>>
    BY <1>1, HeadOfQueue
<1>3. disk' # Torn
    BY Known, ValuesAssumption DEF Records
<1>4. QED
    BY <1>2, <1>3 DEF IInv, Saved

LEMMA StopGoesOnKeeps ==
    ASSUME IInv, snap # NoLoop, disk' = snap, snap' = NoLoop, queue # <<>>,
           Head(queue) \in Stopper, StopGoesOn(Head(queue), Tail(queue)),
           UNCHANGED <<open, late, missed, used, life>>
    PROVE  IInv'
<1> DEFINE s == Head(queue)
           q == Tail(queue)
           l == stop[s].of
<1>1. s \in Stopper /\ s \in Writer \ Loop /\ q \in Seq(Writer) /\ QueueFine(q, exec)
    BY HeadOfQueue, WritersAssumption
<1>2. stop[s] \in Stopping /\ l \in Loop
    BY <1>1, Known
<1>3. life' \in {"booting", "up", "dying"}
    BY Known
<1>4. StopGoesOn(s, q) <=>
        \/ /\ stop[s].at = "saving" /\ stop[s].found
           /\ aborted' = [aborted EXCEPT ![l] = TRUE]
           /\ exec' = interrupted(l)
           /\ stop' = [stop EXCEPT ![s].at = IF "worker" \in loops[l].ids THEN "worker"
                                             ELSE IF "verifier" \in loops[l].ids THEN "verifier"
                                             ELSE "awaiting"]
           /\ queue' = q
           /\ UNCHANGED loops
        \/ /\ stop[s].at = "saving" /\ ~stop[s].found
           /\ loops' = [loops EXCEPT ![l].status = "stopped"]
           /\ stop' = [stop EXCEPT ![s].at = "final"]
           /\ queue' = Append(q, s)
           /\ UNCHANGED <<exec, aborted>>
        \/ /\ stop[s].at = "final"
           /\ stop' = [stop EXCEPT ![s] = idleStop]
           /\ queue' = q
           /\ UNCHANGED <<loops, exec, aborted>>
    BY DEF StopGoesOn
<1>5. StopGoesOn(s, q)
    OBVIOUS
<1> HIDE DEF s, q, l
<1>6. disk' \in Records \cup {Torn} /\ snap' \in Records \cup {NoLoop}
    BY Known
<1>7. CASE /\ stop[s].at = "saving" /\ stop[s].found
           /\ aborted' = [aborted EXCEPT ![l] = TRUE]
           /\ exec' = interrupted(l)
           /\ stop' = [stop EXCEPT ![s].at = IF "worker" \in loops[l].ids THEN "worker"
                                             ELSE IF "verifier" \in loops[l].ids THEN "verifier"
                                             ELSE "awaiting"]
           /\ queue' = q
           /\ UNCHANGED loops
    <2>1. PICK a \in {"worker", "verifier", "awaiting"} : stop' = [stop EXCEPT ![s].at = a]
        BY <1>7
    <2> DEFINE call == [stop[s] EXCEPT !.at = a]
    <2>2. call \in Stopping /\ call.of = l
        BY <1>2 DEF Stopping, l
    <2>3. stop' = [stop EXCEPT ![s] = call]
        BY <2>1
    <2>4. loops[l] \in Record
        BY <1>1, <1>7, Known DEF l
    <2> HIDE DEF call
    <2>5. /\ stop' \in [Stopper -> Stopping]
          /\ \A t \in Stopper : stop'[t].at # "idle" => loops'[stop'[t].of] \in Record
        BY <1>1, <1>7, <2>2, <2>3, <2>4, Known
    <2>6. Stays(exec')
        BY <1>2, <1>7, Known, InterruptedStays
    <2>7. aborted' \in [Loop -> BOOLEAN] /\ \A m \in Loop : aborted[m] => aborted'[m]
        BY <1>2, <1>7, Known
    <2>8. Kept'
        BY <1>1, <1>3, <1>6, <1>7, <2>5, <2>6, <2>7, Known, StaysKeeps
    <2>9. Saved'
        BY <1>7, WrittenSaved DEF q
    <2>10. QED
        BY <2>8, <2>9 DEF IInv
<1>8. CASE /\ stop[s].at = "saving" /\ ~stop[s].found
           /\ loops' = [loops EXCEPT ![l].status = "stopped"]
           /\ stop' = [stop EXCEPT ![s].at = "final"]
           /\ queue' = Append(q, s)
           /\ UNCHANGED <<exec, aborted>>
    <2> DEFINE call == [stop[s] EXCEPT !.at = "final"]
               rec == [loops[l] EXCEPT !.status = "stopped"]
    <2>1. call \in Stopping /\ call.of = l
        BY <1>2 DEF Stopping, l
    <2>2. loops[l] \in Record
        BY <1>1, <1>8, Known DEF l
    <2>3. rec \in Record
        BY <2>2 DEF Record, IterationStatus
    <2>4. stop' = [stop EXCEPT ![s] = call] /\ loops' = [loops EXCEPT ![l] = rec]
        BY <1>8
    <2> HIDE DEF call, rec
    <2>5. loops' \in Records /\ \A m \in Loop : loops[m] \in Record => loops'[m] \in Record
        BY <1>2, <2>2, <2>3, <2>4, Known DEF Records
    <2>6. /\ stop' \in [Stopper -> Stopping]
          /\ \A t \in Stopper : stop'[t].at # "idle" => loops'[stop'[t].of] \in Record
        BY <1>1, <1>2, <2>1, <2>2, <2>4, <2>5, Known
    <2>7. queue' \in Seq(Writer) /\ QueueFine(queue', exec) /\ queue' # <<>>
        BY <1>1, <1>8, AppendFine
    <2>8. Kept'
        BY <1>1, <1>3, <1>6, <1>8, <2>5, <2>6, <2>7, Known, StillStays, StaysKeeps
    <2>9. Saved'
        BY <2>7, WrittenSaved
    <2>10. QED
        BY <2>8, <2>9 DEF IInv
<1>9. CASE /\ stop[s].at = "final"
           /\ stop' = [stop EXCEPT ![s] = idleStop]
           /\ queue' = q
           /\ UNCHANGED <<loops, exec, aborted>>
    <2>1. /\ stop' \in [Stopper -> Stopping]
          /\ \A t \in Stopper : stop'[t].at # "idle" => loops'[stop'[t].of] \in Record
        BY <1>1, <1>9, Known, IdleStopping
    <2>2. Kept'
        BY <1>1, <1>3, <1>6, <1>9, <2>1, Known, StillStays, StaysKeeps
    <2>3. Saved'
        BY <1>9, WrittenSaved DEF q
    <2>4. QED
        BY <2>2, <2>3 DEF IInv
<1>10. QED
    BY <1>4, <1>5, <1>7, <1>8, <1>9

LEMMA WriteEndsKeeps == IInv /\ WriteEnds => IInv'
<1> SUFFICES ASSUME IInv, WriteEnds
             PROVE  IInv'
    OBVIOUS
<1> DEFINE w == Head(queue)
           q == Tail(queue)
<1>1. /\ snap # NoLoop /\ disk' = snap /\ snap' = NoLoop /\ UNCHANGED <<open, late, missed, used>>
      /\ \/ w \in Loop /\ Continue(w, q) /\ UNCHANGED <<aborted, stop, life>>
         \/ w \in Stopper /\ StopGoesOn(w, q) /\ UNCHANGED life
         \/ w = Log /\ queue' = q /\ UNCHANGED <<loops, exec, aborted, stop, life>>
         \/ w = Boot /\ queue' = q /\ life' = "up" /\ UNCHANGED <<loops, exec, aborted, stop>>
    BY DEF WriteEnds
<1>2. queue # <<>> /\ life \in {"booting", "up", "dying"}
    BY <1>1, Known
<1>3. q \in Seq(Writer) /\ QueueFine(q, exec)
    BY <1>2, HeadOfQueue
<1>4. disk' \in Records \cup {Torn} /\ snap' \in Records \cup {NoLoop}
    BY <1>1, Known
<1>5. CASE w \in Loop /\ Continue(w, q) /\ UNCHANGED <<aborted, stop, life>>
    <2>1. exec[w].at = "saving" /\ \A i \in 1..Len(q) : q[i] # w
        BY <1>2, <1>5, HeadOfQueue
    <2> HIDE DEF w, q
    <2>2. Moves(w, q)
        BY <1>1, <1>5, <2>1, ContinueMoves DEF IInv, Kept
    <2>3. /\ open' = [open EXCEPT ![w] = open[w]] /\ late' = [late EXCEPT ![w] = late[w]]
          /\ missed' = [missed EXCEPT ![w] = missed[w]]
          /\ open[w] \in Nat /\ missed[w] \in Nat /\ late[w] \in Nat /\ late[w] <= 1
          /\ (late[w] = 1 => aborted[w])
        BY <1>1, <1>5 DEF IInv, Kept, TypeOK, OnceLate
    <2>4. Kept'
        BY <1>1, <1>2, <1>3, <1>4, <1>5, <2>1, <2>2, <2>3, Known, MoveKeeps
    <2>5. Saved'
        <3>1. PICK rec \in Record, e \in Executor :
                /\ loops' = [loops EXCEPT ![w] = rec]
                /\ queue' = IF e.at = "saving" THEN Append(q, w) ELSE q
                /\ rec.status = "stopped" =>
                      (loops[w] # NoLoop /\ loops[w].status = "stopped") \/ e.at = "saving"
            BY <2>2 DEF Moves, Follows
        <3>2. e.at = "saving" => queue' # <<>>
            BY <1>3, <1>5, <3>1 DEF Writer
        <3>3. loops'[w] = rec /\ \A m \in Loop \ {w} : loops'[m] = loops[m]
            BY <1>5, <3>1, Known DEF Records
        <3>4. QED
            BY <1>1, <3>1, <3>2, <3>3, WrittenSaved DEF q
    <2>6. QED
        BY <2>4, <2>5 DEF IInv
<1>6. CASE w \in Stopper /\ StopGoesOn(w, q) /\ UNCHANGED life
    BY <1>1, <1>2, <1>6, StopGoesOnKeeps
<1>7. CASE /\ queue' = q /\ life' \in {life, "up"}
           /\ UNCHANGED <<loops, exec, aborted, stop>>
    <2>1. Kept'
        BY <1>1, <1>2, <1>3, <1>4, <1>7, Known, StillStays, StaysKeeps
    <2>2. Saved'
        BY <1>1, <1>7, WrittenSaved
    <2>3. QED
        BY <2>1, <2>2 DEF IInv
<1>8. QED
    BY <1>1, <1>5, <1>6, <1>7

LEMMA WriteFailsKeeps == IInv /\ WriteFails => IInv'
<1> SUFFICES ASSUME IInv, WriteFails
             PROVE  IInv'
    OBVIOUS
<1> DEFINE w == Head(queue)
           q == Tail(queue)
<1>1. /\ life # "down" /\ queue # <<>> /\ snap = NoLoop /\ disk' \in {disk, Torn}
      /\ used' = [used EXCEPT !["writes"] = used["writes"] + 1]
      /\ UNCHANGED <<snap, aborted, open, late>>
      /\ \/ /\ w \in Loop /\ Abandons(w, q) /\ UNCHANGED stop
            /\ missed' = IF skipsCleanUp(w) THEN [missed EXCEPT ![w] = missed[w] + 1] ELSE missed
         \/ /\ w \in Stopper /\ queue' = q
            /\ stop' = [stop EXCEPT ![w] = idleStop]
            /\ UNCHANGED <<loops, exec, life, missed>>
         \/ /\ w \in {Log, Boot} /\ queue' = q /\ life' = "dying"
            /\ UNCHANGED <<loops, exec, stop, missed>>
    BY DEF WriteFails, fault
<1>2. used' \in Used /\ used'["writes"] # 0
    BY <1>1, Known DEF Used, Bound
<1>3. q \in Seq(Writer) /\ QueueFine(q, exec)
    BY <1>1, HeadOfQueue
<1>4. disk' \in Records \cup {Torn} /\ snap' \in Records \cup {NoLoop}
    BY <1>1, Known
<1>5. Saved'
    BY <1>2 DEF Saved
<1>6. CASE /\ w \in Loop /\ Abandons(w, q) /\ UNCHANGED stop
           /\ missed' = IF skipsCleanUp(w) THEN [missed EXCEPT ![w] = missed[w] + 1] ELSE missed
    <2>1. exec[w].at = "saving" /\ \A i \in 1..Len(q) : q[i] # w
        BY <1>1, <1>6, HeadOfQueue
    <2>2. life' \in {"booting", "up", "dying"}
        BY <1>1, <1>6, Known DEF Abandons
    <2> HIDE DEF w, q
    <2>3. /\ open[w] \in Nat /\ missed[w] \in Nat /\ missed \in [Loop -> Nat]
          /\ Accounted(open[w], missed[w], exec[w])
        BY <1>6, <2>1, AtWork DEF IInv, Kept, TypeOK
    <2>4. PICK n : n = IF skipsCleanUp(w) THEN missed[w] + 1 ELSE missed[w]
        OBVIOUS
    <2>5. n \in Nat /\ n = open[w] /\ missed' = [missed EXCEPT ![w] = n]
        BY <1>6, <2>1, <2>3, <2>4 DEF skipsCleanUp, Accounted, Held
    <2>6. Clear(w)
        BY <1>1, <1>6, <2>3, <2>5 DEF Clear
    <2>7. Moves(w, q)
        BY <1>6, <2>1, <2>6, AbandonsMoves DEF IInv, Kept
    <2>8. /\ open' = [open EXCEPT ![w] = open[w]] /\ late' = [late EXCEPT ![w] = late[w]]
          /\ late[w] \in Nat /\ late[w] <= 1 /\ (late[w] = 1 => aborted[w])
        BY <1>1, <1>6 DEF IInv, Kept, TypeOK, OnceLate
    <2>9. Kept'
        BY <1>1, <1>2, <1>3, <1>4, <1>6, <2>1, <2>2, <2>3, <2>5, <2>7, <2>8, Known, MoveKeeps
    <2>10. QED
        BY <1>5, <2>9 DEF IInv
<1>7. CASE /\ w \in Stopper /\ queue' = q
           /\ stop' = [stop EXCEPT ![w] = idleStop]
           /\ UNCHANGED <<loops, exec, life, missed>>
    <2>1. /\ stop' \in [Stopper -> Stopping]
          /\ \A t \in Stopper : stop'[t].at # "idle" => loops[stop'[t].of] \in Record
        BY <1>7, Known, IdleStopping
    <2>2. Kept'
        BY <1>1, <1>2, <1>3, <1>4, <1>7, <2>1, Known, StillStays, StaysKeeps
    <2>3. QED
        BY <1>5, <2>2 DEF IInv
<1>8. CASE /\ w \in {Log, Boot} /\ queue' = q /\ life' = "dying"
           /\ UNCHANGED <<loops, exec, stop, missed>>
    <2>1. Kept'
        BY <1>1, <1>2, <1>3, <1>4, <1>8, Known, StillStays, StaysKeeps
    <2>2. QED
        BY <1>5, <2>1 DEF IInv
<1>9. QED
    BY <1>1, <1>6, <1>7, <1>8

-----------------------------------------------------------------------------
(* Starts and ends of the process. *)
LEMMA ExitsKeeps == IInv /\ (Dies \/ Crash) => IInv'
<1> SUFFICES ASSUME IInv, Dies \/ Crash
             PROVE  IInv'
    OBVIOUS
<1>1. Exits
    BY DEF Dies, Crash
<1>2. used' \in Used
    <2>1. CASE UNCHANGED used
        BY <2>1, Known
    <2>2. CASE used' = [used EXCEPT !["crashes"] = used["crashes"] + 1]
        BY <2>2, Known DEF Used, Bound
    <2>3. QED
        BY <2>1, <2>2 DEF Dies, Crash, fault
<1>3. /\ life' = "down" /\ loops' = [l \in Loop |-> NoLoop] /\ queue' = <<>> /\ snap' = NoLoop
      /\ exec' = [l \in Loop |-> idleExec] /\ aborted' = [l \in Loop |-> FALSE]
      /\ open' = [l \in Loop |-> 0] /\ missed' = [l \in Loop |-> 0] /\ stop' = [s \in Stopper |-> idleStop]
      /\ late' = [l \in Loop |-> 0] /\ disk' = disk
    BY <1>1 DEF Exits
<1>4. TypeOK'
    BY <1>2, <1>3, Known, IdleExecutor, IdleStopping DEF TypeOK, Records, Used
<1>5. Executors' /\ OnceLate' /\ OpenHeld' /\ Stops' /\ Down'
    BY <1>3, IdleExecutor, IdleStopping DEF Executors, OnceLate, OpenHeld, Accounted, Stops, Down
<1>6. Queued' /\ Saved'
    BY <1>3 DEF Queued, QueueFine, Saved
<1>7. QED
    BY <1>4, <1>5, <1>6 DEF IInv, Kept

LEMMA RecoveredRecord ==
    ASSUME NEW rec \in Record \cup {NoLoop}
    PROVE  recovered(rec) \in Record \cup {NoLoop}
<1>1. CASE rec = NoLoop \/ rec.status # "running"
    BY <1>1 DEF recovered
<1>2. CASE ~(rec = NoLoop \/ rec.status # "running")
    <2>1. rec \in Record
        BY <1>2
    <2>2. finished(rec, "stopped") \in Record
        BY <2>1, FinishedRecord DEF IterationStatus
    <2>3. markedIfRunning(finished(rec, "stopped"), "stopped") \in Record
        BY <2>2, MarkedRecord DEF IterationStatus
    <2>4. QED
        BY <1>2, <2>2, <2>3 DEF recovered
<1>3. QED
    BY <1>1, <1>2

LEMMA InitializeKeeps == IInv /\ Initialize => IInv'
<1> SUFFICES ASSUME IInv, Initialize
             PROVE  IInv'
    OBVIOUS
<1>1. /\ life = "down" /\ life' = "booting" /\ queue' = <<Boot>>
      /\ loops' = [l \in Loop |-> IF disk = Torn THEN NoLoop ELSE recovered(disk[l])]
      /\ UNCHANGED <<disk, snap, exec, aborted, open, stop, late, missed, used>>
    BY DEF Initialize
<1>2. loops' \in Records
    <2>1. ASSUME disk # Torn, NEW l \in Loop
          PROVE  recovered(disk[l]) \in Record \cup {NoLoop}
        BY <2>1, Known, RecoveredRecord DEF Records
    <2>2. QED
        BY <1>1, <2>1 DEF Records
<1>3. /\ \A l \in Loop : exec[l].at = "none"
      /\ \A s \in Stopper : stop'[s].at = "idle"
    BY <1>1 DEF IInv, Kept, Down
<1>4. queue' \in Seq(Writer) /\ QueueFine(queue', exec) /\ queue' # <<>>
    BY <1>1, WritersAssumption DEF Writer, QueueFine
<1>5. Kept'
    BY <1>1, <1>2, <1>3, <1>4, Known, StillStays, StaysKeeps
<1>6. Saved'
    BY <1>1, <1>4, Known DEF Saved
<1>7. QED
    BY <1>5, <1>6 DEF IInv

LEMMA InitHolds == Init => IInv
<1> SUFFICES ASSUME Init
             PROVE  IInv
    OBVIOUS
<1>1. TypeOK
    BY IdleExecutor, IdleStopping DEF Init, TypeOK
<1>2. Executors /\ OnceLate /\ OpenHeld /\ Stops /\ Down
    BY IdleExecutor, IdleStopping DEF Init, Executors, OnceLate, OpenHeld, Accounted, Stops, Down
<1>3. Queued /\ Saved
    BY DEF Init, Queued, QueueFine, Saved
<1>4. QED
    BY <1>1, <1>2, <1>3 DEF IInv, Kept

LEMMA NextKeeps == IInv /\ [Next]_vars => IInv'
<1> SUFFICES ASSUME IInv, [Next]_vars
             PROVE  IInv'
    OBVIOUS
<1>1. CASE WriteStarts \/ WriteEnds \/ WriteFails
    BY <1>1, WriteStartsKeeps, WriteEndsKeeps, WriteFailsKeeps
<1>2. CASE Dies \/ Crash \/ Initialize
    BY <1>2, ExitsKeeps, InitializeKeeps
<1>3. ASSUME NEW l \in Loop, ExecutorStep(l)
      PROVE  IInv'
    BY <1>3, AgentCreatedKeeps, WorkerEndsKeeps, VerifierEndsKeeps, WorkerClosedKeeps,
       VerifierClosedKeeps, CheckEndsKeeps, WakesKeeps DEF ExecutorStep
<1>4. ASSUME NEW l \in Loop, CreateFails(l) \/ StreamLogged(l) \/ RunLoop(l)
      PROVE  IInv'
    BY <1>4, CreateFailsKeeps, StreamLoggedKeeps, RunLoopKeeps
<1>5. ASSUME NEW s \in Stopper, CancelReturns(s) \/ StopReturns(s)
      PROVE  IInv'
    BY <1>5, CancelReturnsKeeps, StopReturnsKeeps
<1>6. ASSUME NEW s \in Stopper, NEW l \in Loop, StopLoop(s, l)
      PROVE  IInv'
    BY <1>6, StopLoopKeeps
<1>7. CASE UNCHANGED vars
    <2>1. UNCHANGED <<loops, disk, queue, snap, exec, aborted, open, stop, life, late, missed, used>>
        BY <1>7 DEF vars
    <2>2. TypeOK' /\ Executors' /\ OnceLate' /\ OpenHeld'
        BY <2>1 DEF IInv, Kept, TypeOK, Executors, OnceLate, OpenHeld
    <2>3. Queued' /\ Stops' /\ Down' /\ Saved'
        BY <2>1 DEF IInv, Kept, Queued, QueueFine, Stops, Down, Saved
    <2>4. QED
        BY <2>2, <2>3 DEF IInv, Kept
<1>8. QED
    BY <1>1, <1>2, <1>3, <1>4, <1>5, <1>6, <1>7 DEF Next

-----------------------------------------------------------------------------
(* The theorems. *)

(* The invariant holds of the loops of loop-service.ts whatever their options, however many are    *)
(* run and stopped, and whichever agents, writes and processes fail.                               *)
THEOREM LoopInvariant == Spec => []IInv
BY InitHolds, NextKeeps, PTL DEF Spec

(* The state of loop-service.ts keeps its types; a verifier is never prompted more often than      *)
(* maxRetries + 1 times (getStructuredAgentResponse).                                              *)
THEOREM LoopTypeCorrect == Spec => []TypeOK
<1>1. IInv => TypeOK
    BY DEF IInv, Kept
<1>2. QED
    BY <1>1, LoopInvariant, PTL

(* An executor that has ended has closed every agent it created (runWorkerIteration,              *)
(* runVerification), but for those whose archiving failed, and the one that a failed write of     *)
(* its own kept from its clean-up: every such failure leaves one agent registered, and no more.   *)
THEOREM LoopAgentsClosed == Spec => []AgentsClosed
<1>1. IInv => AgentsClosed
    BY DEF IInv, Kept, OpenHeld, Accounted, Held, AgentsClosed
<1>2. QED
    BY <1>1, LoopInvariant, PTL

(* After stopLoop has aborted the signal, executeLoop and runVerification create at most one more  *)
(* agent for the loop.                                                                             *)
THEOREM LoopOneAgentAfterStop == Spec => []OneAgentAfterStop
<1>1. IInv => OneAgentAfterStop
    BY DEF IInv, Kept, OnceLate, OneAgentAfterStop
<1>2. QED
    BY <1>1, LoopInvariant, PTL

(* As long as no write fails, once the queue of persist is empty the file says stopped of every    *)
(* loop that is stopped in memory.                                                                 *)
THEOREM LoopStoppedSaved == Spec => []StoppedSaved
<1>1. IInv => StoppedSaved
    <2> SUFFICES ASSUME IInv, queue = <<>>, used["writes"] = 0, NEW l \in Loop,
                        loops[l] # NoLoop, loops[l].status = "stopped"
                 PROVE  disk # Torn /\ disk[l].status = "stopped"
        BY DEF StoppedSaved
    <2>1. snap = NoLoop
        BY Known
    <2>2. QED
        BY <2>1 DEF IInv, Saved
<1>2. QED
    BY <1>1, LoopInvariant, PTL
=============================================================================
