------------------------- MODULE ScheduleRecord_proofs -------------------------
(***************************************************************************)
(* What the functions of ScheduleRecord return, for every period, time and *)
(* record: they keep the schema, they keep a next run on an active         *)
(* schedule, and the next run they compute is the first one still ahead.   *)
(***************************************************************************)
EXTENDS ScheduleRecord, SequenceTheorems, TLAPS

(* An active record names its next run. *)
HasNextRun(r) == r.status = "active" => r.nextRunAt # None

(* The while loop of finishRun and recovery stops at the first cadence step  *)
(* that lies after both the last due time and now, whatever the gap.         *)
THEOREM NextRunIsFirstAhead ==
    ASSUME NEW after \in Nat, NEW now \in Nat
    PROVE  /\ nextRunAfter(after, now) \in Nat
           /\ nextRunAfter(after, now) > now
           /\ nextRunAfter(after, now) >= after + Period
           /\ nextRunAfter(after, now) = after + Period \/ nextRunAfter(after, now) <= now + Period
<1> USE PeriodAssumption DEF nextRunAfter
<1>1. CASE after + Period > now
    BY <1>1
<1>2. CASE ~(after + Period > now)
    <2> DEFINE q == (now - after) \div Period
    <2>1. now - after \in Nat /\ now - after >= Period
        BY <1>2
    <2>2. /\ q \in Nat
          /\ Period * q <= now - after
          /\ now - after < Period * (q + 1)
        BY <2>1, SMT
    <2>3. q >= 1
        BY <2>1, <2>2, SMT
    <2>4. nextRunAfter(after, now) = after + Period * (q + 1)
        BY <1>2
    <2>5. Period * (q + 1) \in Nat /\ Period * (q + 1) = Period * q + Period
        BY <2>2, SMT
    <2> HIDE DEF q
    <2>6. QED
        BY <2>1, <2>2, <2>4, <2>5, SMT
<1>3. QED
    BY <1>1, <1>2

-----------------------------------------------------------------------------
(* The schema is kept, and status and nextRunAt change only where they say so. *)

LEMMA RunEnded ==
    ASSUME NEW r \in StoredSchedule, NEW id, NEW st \in {"succeeded", "failed"}
    PROVE  /\ runEnded(r, id, st) \in StoredSchedule
           /\ runEnded(r, id, st).status = r.status
           /\ runEnded(r, id, st).nextRunAt = r.nextRunAt
<1> DEFINE newRuns == [i \in DOMAIN r.runs |-> IF r.runs[i].id = id THEN [r.runs[i] EXCEPT !.status = st]
                                              ELSE r.runs[i]]
<1>1. r.runs \in Seq(Run)
    BY DEF StoredSchedule
<1>2. PICK n \in Nat : r.runs \in [1..n -> Run]
    BY <1>1, SeqDef
<1>3. newRuns \in [1..n -> Run]
    BY <1>2 DEF Run
<1>4. newRuns \in Seq(Run)
    BY <1>3, SeqDef
<1>5. runEnded(r, id, st) = [r EXCEPT !.runs = newRuns]
    BY DEF runEnded
<1> HIDE DEF newRuns
<1>6. QED
    BY <1>4, <1>5 DEF StoredSchedule

LEMMA WithRun ==
    ASSUME NEW r \in StoredSchedule, NEW id \in Nat \ {0}
    PROVE  /\ withRun(r, id) \in StoredSchedule
           /\ withRun(r, id).status = r.status
           /\ withRun(r, id).nextRunAt = r.nextRunAt
<1>1. r.runs \in Seq(Run) /\ [id |-> id, status |-> "running"] \in Run
    BY DEF StoredSchedule, Run
<1>2. Append(r.runs, [id |-> id, status |-> "running"]) \in Seq(Run)
    BY <1>1
<1>3. QED
    BY <1>2 DEF withRun, StoredSchedule

LEMMA Completed ==
    ASSUME NEW r \in StoredSchedule
    PROVE  completeSchedule(r) \in StoredSchedule /\ HasNextRun(completeSchedule(r))
BY DEF completeSchedule, StoredSchedule, Status, HasNextRun

LEMMA Edited ==
    ASSUME NEW r \in StoredSchedule, HasNextRun(r), NEW now \in Nat
    PROVE  /\ paused(r) \in StoredSchedule /\ HasNextRun(paused(r))
           /\ resumed(r, now) \in StoredSchedule /\ HasNextRun(resumed(r, now))
           /\ cadenceUpdated(r, now) \in StoredSchedule /\ HasNextRun(cadenceUpdated(r, now))
<1>1. now + Period \in Nat /\ now + Period # None
    BY PeriodAssumption, NoneAssumption
<1>2. paused(r) \in StoredSchedule /\ HasNextRun(paused(r))
    BY DEF paused, StoredSchedule, Status, HasNextRun
<1>3. resumed(r, now) \in StoredSchedule /\ HasNextRun(resumed(r, now))
    BY <1>1 DEF resumed, StoredSchedule, Status, HasNextRun
<1>4. cadenceUpdated(r, now) \in StoredSchedule /\ HasNextRun(cadenceUpdated(r, now))
    BY <1>1 DEF cadenceUpdated, StoredSchedule, Status, HasNextRun
<1>5. QED
    BY <1>2, <1>3, <1>4

LEMMA Limited ==
    ASSUME NEW r \in StoredSchedule, HasNextRun(r),
           NEW m \in (Nat \ {0}) \cup {None}, NEW e \in Nat \cup {None}
    PROVE  limitsUpdated(r, m, e) \in StoredSchedule /\ HasNextRun(limitsUpdated(r, m, e))
BY DEF limitsUpdated, StoredSchedule, HasNextRun

(* Whatever finishRun stores, an active schedule is left with a next run. *)
LEMMA Finished ==
    ASSUME NEW r \in StoredSchedule, HasNextRun(r), NEW id, NEW st \in {"succeeded", "failed"},
           NEW manual \in BOOLEAN, NEW now \in Nat
    PROVE  /\ finishRun(r, id, st, manual, now) \in StoredSchedule
           /\ HasNextRun(finishRun(r, id, st, manual, now))
<1> DEFINE ended == runEnded(r, id, st)
           after == IF r.nextRunAt = None THEN now ELSE r.nextRunAt
<1>1. ended \in StoredSchedule /\ ended.status = r.status /\ ended.nextRunAt = r.nextRunAt
    BY RunEnded
<1>2. after \in Nat
    BY DEF StoredSchedule
<1>3. nextRunAfter(after, now) \in Nat /\ nextRunAfter(after, now) # None
    BY <1>2, NextRunIsFirstAhead, NoneAssumption
<1>4. finishRun(r, id, st, manual, now) \in
        {ended, completeSchedule(ended), [ended EXCEPT !.nextRunAt = nextRunAfter(after, now)]}
        \cup (IF r.status = "paused" THEN {[ended EXCEPT !.nextRunAt = None]} ELSE {})
    BY DEF finishRun
<1> HIDE DEF ended, after
<1>5. [ended EXCEPT !.nextRunAt = nextRunAfter(after, now)] \in StoredSchedule
      /\ HasNextRun([ended EXCEPT !.nextRunAt = nextRunAfter(after, now)])
    BY <1>1, <1>3 DEF StoredSchedule, HasNextRun
<1>6. r.status = "paused" => /\ [ended EXCEPT !.nextRunAt = None] \in StoredSchedule
                             /\ HasNextRun([ended EXCEPT !.nextRunAt = None])
    BY <1>1 DEF StoredSchedule, HasNextRun
<1>7. HasNextRun(ended)
    BY <1>1 DEF HasNextRun
<1>8. QED
    BY <1>1, <1>4, <1>5, <1>6, <1>7, Completed

LEMMA Interrupted ==
    ASSUME NEW r \in StoredSchedule
    PROVE  /\ interruptedRunFailed(r) \in StoredSchedule
           /\ interruptedRunFailed(r).status = r.status
           /\ interruptedRunFailed(r).nextRunAt = r.nextRunAt
<1> DEFINE running == {i \in DOMAIN r.runs : r.runs[i].status = "running"}
           first == CHOOSE i \in running : \A k \in running : i <= k
<1>1. interruptedRunFailed(r) = IF running = {} THEN r ELSE [r EXCEPT !.runs[first].status = "failed"]
    BY DEF interruptedRunFailed
<1>2. PICK n \in Nat : r.runs \in [1..n -> Run]
    BY SeqDef DEF StoredSchedule
<1> HIDE DEF running, first
<1>3. [r.runs EXCEPT ![first].status = "failed"] \in [1..n -> Run]
    BY <1>2 DEF Run
<1>4. [r.runs EXCEPT ![first].status = "failed"] \in Seq(Run)
    BY <1>3, SeqDef
<1>5. [r EXCEPT !.runs[first].status = "failed"]
        = [r EXCEPT !.runs = [r.runs EXCEPT ![first].status = "failed"]]
    BY DEF StoredSchedule
<1>6. QED
    BY <1>1, <1>4, <1>5 DEF StoredSchedule

(* Recovery skips what was missed: the recovered record is not due. *)
THEOREM RecoveryCatchesUp ==
    ASSUME NEW r \in StoredSchedule, HasNextRun(r), NEW now \in Nat
    PROVE  /\ recovered(r, now) \in StoredSchedule
           /\ HasNextRun(recovered(r, now))
           /\ ~isDue(recovered(r, now), now)
<1> DEFINE failed == interruptedRunFailed(r)
<1>1. failed \in StoredSchedule /\ failed.status = r.status /\ failed.nextRunAt = r.nextRunAt
    BY Interrupted
<1>2. recovered(r, now) = IF isDue(r, now) THEN [failed EXCEPT !.nextRunAt = nextRunAfter(@, now)]
                          ELSE failed
    BY DEF recovered
<1> HIDE DEF failed
<1>3. CASE isDue(r, now)
    <2>1. failed.nextRunAt \in Nat
        BY <1>1, <1>3 DEF isDue, StoredSchedule
    <2> DEFINE next == nextRunAfter(failed.nextRunAt, now)
    <2>2. next \in Nat /\ next > now /\ next # None
        BY <2>1, NextRunIsFirstAhead, NoneAssumption
    <2>3. recovered(r, now) = [failed EXCEPT !.nextRunAt = next]
        BY <1>2, <1>3
    <2> HIDE DEF next
    <2>4. [failed EXCEPT !.nextRunAt = next] \in StoredSchedule
          /\ [failed EXCEPT !.nextRunAt = next].nextRunAt = next
        BY <1>1, <2>2 DEF StoredSchedule
    <2>5. QED
        BY <2>2, <2>3, <2>4 DEF HasNextRun, isDue
<1>4. CASE ~isDue(r, now)
    BY <1>1, <1>2, <1>4 DEF HasNextRun, isDue
<1>5. QED
    BY <1>3, <1>4

=============================================================================
