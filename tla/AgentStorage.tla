------------------------------ MODULE AgentStorage ------------------------------
(***************************************************************************)
(* AgentStorage and the calls AgentManager and Session make of it, for one *)
(* agent id: every map of AgentStorage is keyed by the id and no operation *)
(* touches two of them.                                                    *)
(*                                                                         *)
(* applySnapshot waits for the promise in pendingWrites, reads the cached  *)
(* record, merges it into a snapshot and calls upsert, which chains a      *)
(* write behind pendingWrites.  The cache changes only when that write has *)
(* ended, so a snapshot is merged with a record that writes already in the *)
(* chain are about to replace.                                             *)
(*                                                                         *)
(* Promise callbacks run in the order the calls were made, so snapshots    *)
(* merge first come first served.  The chain's stored promise is           *)
(* next.finally(...), which never equals `next`: it is never deleted, and  *)
(* one rejection makes every later write of the agent reject.              *)
(*                                                                         *)
(* Each registration makes an agent object of its own.  A run that was     *)
(* starting when its object was closed goes on with it: the object still   *)
(* changes and reports under the same id, which may be live again by then. *)
(***************************************************************************)
EXTENDS Integers, Sequences, FiniteSets, SequencesExt, FiniteSetsExt

CONSTANTS
    NumPaths,       \* places a record file may be at, in scanDisk's order
    Home,           \* the place buildRecordPath gives
    None, NoFile,
    Request,        \* slots for client calls in progress
    Ops,            \* Ops[r]: what slot r is used for
    Task, Hook,     \* a background persist, and the agent_state subscriber
    InitialFiles,   \* sets of paths that may hold the agent's record at first
    MaxAgents,      \* bound: agent objects in one run of the daemon
    MaxEvents,      \* bound: lifecycle changes
    MaxCalls,       \* bound: client calls
    MaxWriteFailures, MaxUnlinkFailures, MaxCrashes     \* bounds: faults

Path == 1..NumPaths
Operation == {"register", "setTitle", "archive", "unarchive", "delete"}
Status == {"idle", "running", "closed"}
Object == 1..MaxAgents
Record == [status : Status, archived : BOOLEAN, titled : BOOLEAN]

ASSUME PathAssumption == NumPaths \in Nat /\ Home \in Path
ASSUME OpsAssumption == Ops \in [Request -> SUBSET Operation]
ASSUME ByAssumption == Task \notin Request /\ Hook \notin Request /\ Task # Hook
(* A second file is left by a crash between the rename at Home and the unlink: unless an unlink    *)
(* failed in an earlier run, only one of the files comes after Home in the scan.                 *)
ASSUME FilesAssumption ==
    /\ InitialFiles \subseteq SUBSET Path
    /\ \A F \in InitialFiles : \A p, q \in F : p > Home /\ q > Home => p = q
ASSUME ValuesAssumption == None \notin Record \cup Path /\ NoFile \notin Record
ASSUME BoundsAssumption ==
    /\ {MaxEvents, MaxCalls, MaxWriteFailures, MaxUnlinkFailures, MaxCrashes} \subseteq Nat
    /\ MaxAgents \in Nat \ {0}

VARIABLES
    disk,           \* disk[p]: the record in the file at p, or NoFile
    cache, pathById, pathsById, deleting,   \* the agent's entries of the four maps
    chain,          \* writes behind pendingWrites, the first one running
    phase,          \* where the running write is
    broken,         \* the promise in pendingWrites is rejected
    waitq,          \* applySnapshot calls waiting for a pending write
    live,           \* the object AgentManager.agents has for the id, or 0
    born,           \* the objects 1..born were registered in this run of the daemon
    status,         \* status[a]: lifecycle of object a
    req,            \* req[r]: the client call in slot r
    up,
    durable,        \* history: the last acknowledged record, with one being written; empty once removal starts
    removed,        \* history: remove() has returned
    reporter,       \* history: the object whose state was handed to applySnapshot last
    used            \* bounds used up

memory == <<cache, pathById, pathsById, deleting>>
writes == <<chain, phase, broken>>
agent == <<live, born, status>>
history == <<durable, removed>>
vars == <<disk, memory, writes, waitq, agent, req, up, history, reporter, used>>

By == Request \cup {Task, Hook}
idleReq == [op |-> "none", at |-> "idle", of |-> 0, ahead |-> 0, todo |-> {}]
ReqState == [op : Operation \cup {"none"},
             at : {"idle", "wait", "first", "second", "closing", "flush", "drain", "unlink"},
             of : Object \cup {0}, ahead : Nat, todo : SUBSET Path]

(* of: the object to be read when the snapshot is merged, or 0 when it is a copy that has `status`; *)
(* title: what the call's options say of it; ahead: writes it still waits for.                     *)
Waiting == [of : Object \cup {0}, status : Status, title : {"keep", "set", "clear"}, by : By,
            next : {"first", "second", "flush", "idle"}, ahead : Nat]
Write == [rec : Record, by : By, next : {"first", "second", "flush", "idle"}]

TypeOK ==
    /\ disk \in [Path -> Record \cup {NoFile}]
    /\ cache \in Record \cup {None}
    /\ pathById \in Path \cup {None}
    /\ pathsById \subseteq Path
    /\ deleting \in BOOLEAN
    /\ chain \in Seq(Write)
    /\ phase \in {"queued", "checked", "renamed"}
    /\ broken \in BOOLEAN
    /\ waitq \in Seq(Waiting)
    /\ live \in Object \cup {0} /\ born \in Object \cup {0}
    /\ status \in [Object -> Status \ {"closed"}]
    /\ req \in [Request -> ReqState]
    /\ up \in BOOLEAN
    /\ durable \subseteq Record
    /\ removed \in BOOLEAN
    /\ reporter \in Object \cup {0}
    /\ used \in [{"events", "calls", "writes", "unlinks", "crashes"} -> Nat]

-----------------------------------------------------------------------------
(* Loading: later files of the scan overwrite the entries of earlier ones. *)
filesOn(d) == {p \in Path : d[p] # NoFile}
lastFile(d) == IF filesOn(d) = {} THEN None ELSE Max(filesOn(d))
loadedRecord(d) == IF filesOn(d) = {} THEN None ELSE d[Max(filesOn(d))]

(* What an earlier run of the daemon left: closed agents, archived or not. *)
earlierRecords == {rec \in Record : rec.status = "closed" /\ ~rec.titled}

(* What the registration of a new agent stores, once its writes have ended. *)
registeredRecord == [status |-> "idle", archived |-> FALSE, titled |-> FALSE]

Init ==
    /\ \/ /\ \E F \in InitialFiles, rec \in earlierRecords :
               disk = [p \in Path |-> IF p \in F THEN rec ELSE NoFile]
          /\ live = 0
       \/ /\ disk = [p \in Path |-> IF p = Home THEN registeredRecord ELSE NoFile]
          /\ live = 1
    /\ cache = loadedRecord(disk)
    /\ pathById = lastFile(disk)
    /\ pathsById = filesOn(disk)
    /\ deleting = FALSE
    /\ chain = <<>> /\ phase = "queued" /\ broken = FALSE
    /\ waitq = <<>>
    /\ born = live /\ status = [a \in Object |-> "idle"] /\ reporter = live
    /\ req = [r \in Request |-> idleReq]
    /\ up = TRUE
    /\ durable = {cache} \ {None}
    /\ removed = FALSE
    /\ used = [b \in {"events", "calls", "writes", "unlinks", "crashes"} |-> 0]

spend(b, limit) == used[b] < limit /\ used' = [used EXCEPT ![b] = @ + 1]

-----------------------------------------------------------------------------
(* applySnapshot up to waitForPendingWrite: of the object a itself, or of a copy of it. *)
Apply(a, title, by, next) ==
    [of |-> a, status |-> "idle", title |-> title, by |-> by, next |-> next, ahead |-> Len(chain)]
ApplyCopy(state, by, next) ==
    [of |-> 0, status |-> state, title |-> "keep", by |-> by, next |-> next, ahead |-> Len(chain)]

(* emitState: persist in the background the agent object itself, unless told not to, and let the *)
(* subscriber persist a copy of it.                                                              *)
emitted(a, state, persist) ==
    (IF persist THEN <<Apply(a, "keep", Task, "idle")>> ELSE <<>>)
        \o <<ApplyCopy(state, Hook, "idle")>>

Reports(a, snapshots) == waitq' = waitq \o snapshots /\ reporter' = a

(* What a rejected write means to the call that waits for it. *)
rejected(r) == IF req[r].op = "delete" THEN [req[r] EXCEPT !.at = "flush"] ELSE idleReq

(* upsert: chained behind the stored promise; when that is rejected, so is the new write. *)
Upsert(calls, rec, by, next) ==
    IF broken
    THEN /\ UNCHANGED chain
         /\ req' = IF by \in Request THEN [calls EXCEPT ![by] = rejected(by)] ELSE calls
    ELSE /\ chain' = Append(chain, [rec |-> rec, by |-> by, next |-> next])
         /\ req' = calls

(* toStoredAgentRecord, with what the cached record and the options add. *)
merged(e) ==
    [status |-> IF e.of = 0 THEN e.status ELSE status[e.of],
     archived |-> cache # None /\ cache.archived,
     titled |-> e.title = "set" \/ (e.title = "keep" /\ cache # None /\ cache.titled)]

ApplySnapshot ==
    /\ waitq # <<>> /\ Head(waitq).ahead = 0
    /\ waitq' = Tail(waitq)
    /\ Upsert(req, merged(Head(waitq)), Head(waitq).by, Head(waitq).next)
    /\ UNCHANGED <<disk, memory, phase, broken, agent, up, history, reporter, used>>

-----------------------------------------------------------------------------
(* The running write of the chain. *)

(* Variant: without the floor. *)
releasedTwice(q) == [i \in DOMAIN q |-> [q[i] EXCEPT !.ahead = @ - 1]]

(* The running write has ended: its caller goes on, the next write starts. *)
released(q) == [i \in DOMAIN q |-> [q[i] EXCEPT !.ahead = Max({0, @ - 1})]]
Settle ==
    /\ chain' = Tail(chain)
    /\ phase' = "queued"
    /\ waitq' = released(waitq)
    /\ req' = [r \in Request |->
                 [req[r] EXCEPT !.ahead = Max({0, @ - 1}),
                                !.at = IF Head(chain).by = r THEN Head(chain).next ELSE @]]

(* Variant: the chained write does not look at `deleting`. *)
WriteStartsUnfenced ==
    /\ chain # <<>> /\ phase = "queued"
    /\ phase' = "checked"
    /\ UNCHANGED <<disk, memory, chain, broken, waitq, req, agent, up, history, reporter, used>>

(* Variant: the previous file is unlinked before the new one is written. *)
WriteStartsUnlinking ==
    /\ chain # <<>> /\ phase = "queued"
    /\ IF deleting THEN Settle /\ UNCHANGED disk
       ELSE /\ phase' = "checked"
            /\ disk' = [p \in Path |-> IF p = pathById THEN NoFile ELSE disk[p]]
            /\ UNCHANGED <<chain, waitq, req>>
    /\ UNCHANGED <<memory, broken, agent, up, history, reporter, used>>

WriteStarts ==
    /\ chain # <<>> /\ phase = "queued"
    /\ IF deleting THEN Settle ELSE phase' = "checked" /\ UNCHANGED <<chain, waitq, req>>
    /\ UNCHANGED <<disk, memory, broken, agent, up, history, reporter, used>>

CommitRecord(paths) ==
    /\ cache' = Head(chain).rec
    /\ pathById' = Home
    /\ pathsById' = paths
    /\ durable' = {Head(chain).rec}
    /\ Settle

(* writeFileAtomically: the record appears at its place whole. *)
FileReplaced ==
    /\ chain # <<>> /\ phase = "checked"
    /\ disk' = [disk EXCEPT ![Home] = Head(chain).rec]
    /\ IF pathById \in {None, Home}
       THEN CommitRecord(pathsById \cup {Home})
       ELSE /\ phase' = "renamed"
            /\ pathsById' = pathsById \cup {Home}
            /\ durable' = durable \cup {Head(chain).rec}
            /\ UNCHANGED <<cache, pathById, chain, waitq, req>>
    /\ UNCHANGED <<deleting, broken, agent, up, removed, reporter, used>>

(* The file at the previous path goes, or stays when unlink fails: no error, and no index entry. *)
PreviousUnlinked ==
    /\ chain # <<>> /\ phase = "renamed"
    /\ \/ disk' = [disk EXCEPT ![pathById] = NoFile] /\ UNCHANGED used
       \/ spend("unlinks", MaxUnlinkFailures) /\ UNCHANGED disk
    /\ CommitRecord(pathsById \ {pathById})
    /\ UNCHANGED <<deleting, broken, agent, up, removed, reporter>>

(* mkdir, write or rename fails: this write and all behind it reject, for good. *)
WriteFails ==
    /\ chain # <<>> /\ phase = "checked"
    /\ spend("writes", MaxWriteFailures)
    /\ chain' = <<>>
    /\ phase' = "queued"
    /\ broken' = TRUE
    /\ waitq' = [i \in DOMAIN waitq |-> [waitq[i] EXCEPT !.ahead = 0]]
    /\ req' = [r \in Request |->
                 IF \E i \in DOMAIN chain : chain[i].by = r THEN rejected(r)
                 ELSE [req[r] EXCEPT !.ahead = 0]]
    /\ UNCHANGED <<disk, memory, agent, up, history, reporter>>

-----------------------------------------------------------------------------
(* Client calls.  `at` names what the call does when its write is acknowledged. *)
Starts(r, op) ==
    /\ up /\ req[r].at = "idle" /\ op \in Ops[r]
    /\ spend("calls", MaxCalls)

goesOn(r, op, a) == [req EXCEPT ![r] = [idleReq EXCEPT !.op = op, !.at = "wait", !.of = a]]
Returns(r) == req' = [req EXCEPT ![r] = idleReq]

(* registerSession, of a new agent (its id was never used) or of one that is stored: its object *)
(* is the next one.                                                                             *)
RegisterStarts(r) ==
    /\ Starts(r, "register")
    /\ live = 0 /\ (cache # None \/ ~(deleting \/ removed))
    /\ born < MaxAgents
    /\ born' = born + 1
    /\ live' = born'
    /\ Reports(born', <<Apply(born', IF cache # None /\ cache.titled THEN "set" ELSE "clear",
                             r, "first")>>)
    /\ req' = goesOn(r, "register", born')
    /\ UNCHANGED <<disk, memory, writes, status, up, history>>

(* It sets its object idle, whatever became of it and of the id meanwhile. *)
RegisterGoesOn(r) ==
    /\ req[r].op = "register"
    /\ \E a \in Object :
         /\ req[r].of = a
         /\ \/ /\ req[r].at = "first"
               /\ Reports(a, emitted(a, status[a], FALSE) \o <<Apply(a, "keep", r, "second")>>)
               /\ status' = [status EXCEPT ![a] = "idle"]
               /\ req' = [req EXCEPT ![r].at = "wait"]
            \/ /\ req[r].at = "second"
               /\ Reports(a, emitted(a, status[a], FALSE))
               /\ Returns(r)
               /\ UNCHANGED status
    /\ UNCHANGED <<disk, memory, writes, live, born, up, history, used>>

(* updateAgentMetadata. *)
SetTitleStarts(r) ==
    /\ Starts(r, "setTitle")
    /\ cache # None
    /\ IF live # 0
       THEN /\ Reports(live, <<Apply(live, "set", r, "first")>>)
            /\ req' = goesOn(r, "setTitle", live)
            /\ UNCHANGED chain
       ELSE /\ Upsert(goesOn(r, "setTitle", 0), [cache EXCEPT !.titled = TRUE], r, "idle")
            /\ UNCHANGED <<waitq, reporter>>
    /\ UNCHANGED <<disk, memory, phase, broken, agent, up, history>>

SetTitleGoesOn(r) ==
    /\ req[r].op = "setTitle" /\ req[r].at = "first"
    /\ \E a \in Object : req[r].of = a /\ Reports(a, emitted(a, status[a], FALSE))
    /\ Returns(r)
    /\ UNCHANGED <<disk, memory, writes, agent, up, history, used>>

(* buildArchivedAgentRecord. *)
archivedRecord(rec) ==
    [rec EXCEPT !.archived = TRUE, !.status = IF @ = "running" THEN "idle" ELSE @]

(* archiveAgent, or archiveSnapshot of an agent that is not live. *)
ArchiveStarts(r) ==
    /\ Starts(r, "archive")
    /\ IF live # 0
       THEN /\ Reports(live, <<Apply(live, "keep", r, "first")>>)
            /\ req' = goesOn(r, "archive", 0)
            /\ UNCHANGED chain
       ELSE /\ cache # None /\ ~cache.archived
            /\ Upsert(goesOn(r, "archive", 0), archivedRecord(cache), r, "idle")
            /\ UNCHANGED <<waitq, reporter>>
    /\ UNCHANGED <<disk, memory, phase, broken, agent, up, history>>

(* prepareAgentForClosure: the id has no object any more; the caller keeps it. *)
Closes == live # 0 /\ live' = 0

(* The snapshot is stored: markRecordArchived; then it notifies and closes the agent. *)
ArchiveGoesOn(r) ==
    /\ req[r].op = "archive"
    /\ \/ /\ req[r].at = "first"
          /\ IF cache = None THEN Returns(r) /\ UNCHANGED chain
             ELSE Upsert([req EXCEPT ![r].at = "wait"], archivedRecord(cache), r, "second")
          /\ UNCHANGED <<waitq, reporter, live>>
       \/ /\ req[r].at = "second" /\ Closes
          /\ Reports(live, emitted(live, status[live], TRUE))
          /\ req' = [req EXCEPT ![r].at = "closing", ![r].of = live]
          /\ UNCHANGED chain
       \/ /\ req[r].at = "second" /\ live = 0
          /\ Returns(r)
          /\ UNCHANGED <<chain, waitq, reporter, live>>
    /\ UNCHANGED <<disk, memory, phase, broken, born, status, up, history, used>>

(* session.close has resolved: closeAgent persists a copy of the object, closed. *)
SessionClosed(r) ==
    /\ req[r].at = "closing"
    /\ Reports(req[r].of,
               <<ApplyCopy("closed", r, IF req[r].op = "delete" THEN "flush" ELSE "idle")>>)
    /\ req' = [req EXCEPT ![r].at = "wait"]
    /\ UNCHANGED <<disk, memory, writes, agent, up, history, used>>

UnarchiveStarts(r) ==
    /\ Starts(r, "unarchive")
    /\ cache # None /\ cache.archived
    /\ Upsert(goesOn(r, "unarchive", 0), [cache EXCEPT !.archived = FALSE], r, "first")
    /\ UNCHANGED <<disk, memory, phase, broken, waitq, agent, up, history, reporter>>

(* Variant: unarchiveSnapshot without notifyAgentState. *)
UnarchiveGoesOnSilently(r) ==
    /\ req[r].op = "unarchive" /\ req[r].at = "first"
    /\ Returns(r)
    /\ UNCHANGED <<disk, memory, writes, waitq, agent, up, history, reporter, used>>

UnarchiveGoesOn(r) ==
    /\ req[r].op = "unarchive" /\ req[r].at = "first"
    /\ IF live # 0 THEN Reports(live, emitted(live, status[live], TRUE))
       ELSE UNCHANGED <<waitq, reporter>>
    /\ Returns(r)
    /\ UNCHANGED <<disk, memory, writes, agent, up, history, used>>

-----------------------------------------------------------------------------
(* handleDeleteAgentRequest: beginDelete, close, flush the background persists, remove. *)
DeleteStarts(r) ==
    /\ Starts(r, "delete")
    /\ cache # None \/ live # 0
    /\ deleting' = TRUE
    /\ Closes \/ (live = 0 /\ UNCHANGED live)
    /\ req' = [req EXCEPT ![r] = [idleReq EXCEPT !.op = "delete", !.of = live,
                                                !.at = IF live # 0 THEN "closing" ELSE "flush"]]
    /\ UNCHANGED <<disk, cache, pathById, pathsById, writes, waitq, born, status, up, history, reporter>>

(* No background persist is left: remove() waits for the last pending write. *)
Flushed(r) ==
    /\ req[r].at = "flush"
    /\ \A i \in DOMAIN waitq : waitq[i].by # Task
    /\ \A i \in DOMAIN chain : chain[i].by # Task
    /\ req' = [req EXCEPT ![r].at = "drain", ![r].ahead = Len(chain)]
    /\ UNCHANGED <<disk, memory, writes, waitq, agent, up, history, reporter, used>>

(* remove() lists the files, or rejects with the write it waited for. *)
Drained(r) ==
    /\ req[r].at = "drain" /\ req[r].ahead = 0
    /\ IF broken
       THEN Returns(r) /\ UNCHANGED durable
       ELSE /\ req' = [req EXCEPT ![r].at = "unlink", ![r].todo = pathsById]
            /\ durable' = {}
    /\ UNCHANGED <<disk, memory, writes, waitq, agent, up, removed, reporter, used>>

RecordUnlinked(r) ==
    /\ req[r].at = "unlink"
    /\ \E p \in req[r].todo :
         /\ \/ disk' = [disk EXCEPT ![p] = NoFile] /\ UNCHANGED used
            \/ spend("unlinks", MaxUnlinkFailures) /\ UNCHANGED disk
         /\ req' = [req EXCEPT ![r].todo = @ \ {p}]
    /\ UNCHANGED <<memory, writes, waitq, agent, up, history, reporter>>

RemoveReturns(r) ==
    /\ req[r].at = "unlink" /\ req[r].todo = {}
    /\ cache' = None /\ pathById' = None /\ pathsById' = {}
    /\ removed' = TRUE
    /\ Returns(r)
    /\ UNCHANGED <<disk, deleting, writes, waitq, agent, up, durable, reporter, used>>

-----------------------------------------------------------------------------
(* touchUpdatedAt, emitState: the lifecycle of an object changes. *)
Changes(a) ==
    /\ up /\ spend("events", MaxEvents)
    /\ status' = [status EXCEPT ![a] = IF @ = "idle" THEN "running" ELSE "idle"]
    /\ Reports(a, emitted(a, status'[a], TRUE))
    /\ UNCHANGED <<disk, memory, writes, live, born, req, up, history>>

LifecycleChanges == live # 0 /\ Changes(live)

(* startTurn resolves or rejects, or a run's finally ends, after its object was closed: the object *)
(* changes and reports all the same.                                                               *)
LateChange == \E a \in 1..born : a # live /\ Changes(a)

Crash ==
    /\ up /\ spend("crashes", MaxCrashes)
    /\ up' = FALSE
    /\ cache' = None /\ pathById' = None /\ pathsById' = {} /\ deleting' = FALSE
    /\ chain' = <<>> /\ phase' = "queued" /\ broken' = FALSE
    /\ waitq' = <<>>
    /\ live' = 0 /\ born' = 0 /\ status' = [a \in Object |-> "idle"] /\ reporter' = 0
    /\ req' = [r \in Request |-> idleReq]
    /\ UNCHANGED <<disk, history>>

(* doLoad and scanDisk, before anything else uses the storage. *)
Loads ==
    /\ ~up
    /\ up' = TRUE
    /\ cache' = loadedRecord(disk)
    /\ pathById' = lastFile(disk)
    /\ pathsById' = filesOn(disk)
    /\ durable' = {cache'} \ {None}
    /\ UNCHANGED <<disk, deleting, writes, waitq, agent, req, removed, reporter, used>>

StorageStep == ApplySnapshot \/ WriteStarts \/ FileReplaced \/ PreviousUnlinked

CallGoesOn(r) ==
    \/ RegisterGoesOn(r) \/ SetTitleGoesOn(r) \/ ArchiveGoesOn(r) \/ UnarchiveGoesOn(r)
    \/ SessionClosed(r) \/ Flushed(r) \/ Drained(r) \/ RecordUnlinked(r) \/ RemoveReturns(r)

CallStarts(r) ==
    \/ RegisterStarts(r) \/ SetTitleStarts(r) \/ ArchiveStarts(r) \/ UnarchiveStarts(r)
    \/ DeleteStarts(r)

Next ==
    \/ StorageStep \/ WriteFails \/ LifecycleChanges \/ LateChange \/ Crash \/ Loads
    \/ \E r \in Request : CallStarts(r) \/ CallGoesOn(r)

Spec == Init /\ [][Next]_vars

(* Promise callbacks and file operations go on; clients, events and crashes need not happen. *)
FairSpec ==
    /\ Spec
    /\ WF_vars(StorageStep)
    /\ \A r \in Request : WF_vars(CallGoesOn(r))
    /\ WF_vars(Loads)

-----------------------------------------------------------------------------
(* AgentStorage.remove with the fence of beginDelete: once it has returned, no pending write,   *)
(* late snapshot or restart brings a file of the agent back (unless an unlink failed).          *)
RemovedStaysRemoved == removed /\ used["unlinks"] = 0 => filesOn(disk) = {}

(* The order of upsert's file operations: at every moment a restart would load the record that  *)
(* was last acknowledged, or the one being written, although the file moves between directories. *)
RestartLoadsAcked ==
    used["unlinks"] = 0 /\ durable # {} => loadedRecord(disk) \in durable

(* attachAgentStoragePersistence, "every agent_state snapshot is flushed to disk": when the      *)
(* agent stays live, keeps its state and was the last to report one, the stored status becomes  *)
(* and stays that one, whatever snapshots, titles and archive flags of it and of closed objects *)
(* of the same id were queued before.  After a report of a closed object it need not.           *)
LastStateStored ==
    \A s \in Status :
        <>[](/\ live # 0 /\ status[live] = s /\ reporter = live
             /\ ~deleting /\ ~broken)
        => <>[](cache # None /\ cache.status = s)

(* "Preserve soft-delete/archive status across snapshot flushes" (agent-storage.ts:209): only   *)
(* unarchiveSnapshot clears archivedAt of a stored agent.                                        *)
ArchivePreserved ==
    [][cache # None /\ cache' # None /\ cache.archived /\ ~cache'.archived
       => Head(chain).by \in Request /\ req[Head(chain).by].op = "unarchive"]_cache

=============================================================================
