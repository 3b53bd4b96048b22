# A TLA+ model of the xCodexMobile daemon

This directory is a verification development of the server side of this repository
(`src/packages/server`, `src/packages/relay`): TLA+ modules translated from the code, the TLC
runs that check them on small instances, and theorems about them that the TLA+ proof system
checks for every value of the constants. `PROJECT.json` links every definition to the lines it
models and every property to the hazard it is about.

Contents: [1 The system](#1-the-system), [2 Plan](#2-plan), [3 Modules and code](#3-modules-and-code),
[4 Runs](#4-runs-and-what-they-show), [5 Findings](#5-where-code-and-documentation-disagree),
[6 Bounds](#6-bounds), [7 Fairness](#7-fairness), [8 Proofs](#8-proofs),
[9 Abstractions and limits](#9-abstractions-and-limits).

## 1 The system

The daemon is one Node.js process. It hosts coding agents (third-party processes behind an
`AgentSession` interface), keeps their state and timelines, and serves clients (mobile app, CLI,
desktop shell) over WebSockets, directly or through a relay. JavaScript runs one job at a time, so
a component is sequential between two `await`s and concurrent across them: almost every hard
behaviour below is a value read before an `await` and used after it.

| Component | State | Operations | Interacts with | What is hard | What makes it correct |
|---|---|---|---|---|---|
| **Agent run control** `agent/agent-manager.ts`, `foreground-run-state.ts`, `agent-loading.ts` | map id → agent object (lifecycle, active turn, finalized turns, waiters), pending-run token, per-agent event queue | stream, replace, cancel, close, reload, resume; handling of provider events | provider sessions (events, `interrupt`), clients (state and stream events), storage, timeline | events that arrive before `startTurn` resolves, late or twice; two replacements at once; cancel timeouts; reload while a run starts | one run per agent; the token is leaked in two known ways only; a stream can always be ended; a turn ends under its own id; a cancel terminates |
| **Schedules** `schedule/service.ts`, `store.ts`, `cron.ts` | one JSON file per schedule, `runningScheduleIds`, a 1 s timer | create, pause, resume, update, delete, run-once, tick, recovery at start | runs agents through agent run control | overlapping ticks on stale lists, whole-file rewrites, torn and failing writes, restarts, missed times | no two runs of a schedule at once; an active schedule has a next run; recovery skips missed runs; a due schedule is run |
| **Agent storage and archiving** `agent/agent-storage.ts`, `agent-archive.ts` | cached records, per-agent write chains, one file per agent, `deleting` set | upsert, applySnapshot, setTitle, remove, archive, load | every state change of an agent | snapshot merged with a record read earlier; archive against a background snapshot; a moved file and a crash | an archived agent stays archived; at most one file per agent; a deleted agent is not written again |
| **Agent timeline** `agent/agent-timeline-store.ts`, `agent-stream-coalescer.ts` | rows with an epoch and sequence numbers; a text buffer per agent with a 60 ms timer | append, fetch tail/after/before, flush, delete | agent events in, clients' catch-up out | flush on a timer, on other events and during a flush; stale cursors; trimmed rows | rows in event order; a client that follows cursors and resets sees every row once |
| **Loops** `loop-service.ts` | loop records in one file, a map of running loops | run, stop, inspect, recovery | creates worker and verifier agents | stop while the record is being persisted; errors inside an iteration; restart | a stopped loop ends; each iteration is recorded once; recovery marks what was interrupted |
| **Relay** `packages/relay/src/cloudflare-adapter.ts`, `relay-transport.ts` | control, data and client sockets of a session, frame buffers | connect, forward, sync, nudge, reset, reconnect | daemon and clients | half-open sockets, replaced sockets whose close arrives late, a buffer limit | a connected client gets a data socket; frames keep their order or the connection is dropped |
| **Encrypted channel** `packages/relay/src/encrypted-channel.ts` | handshake state, pending sends, keys | hello, open, send, re-hello | on top of the relay | repeated hellos, a new hello on an open channel | both ends end with the same key; no frame is lost or reordered |
| **Daemon client** `client/daemon-client.ts` | pending requests, connection state, subscriptions | request, reconnect, catch-up | WebSocket server | answers after a timeout, reconnect during a request | every request gets one outcome |
| **Client sessions, WebSocket server** `session.ts`, `websocket-server.ts` | sessions with a grace period, subscriptions | message dispatch | all of the above | reconnect against expiry | a session is resumed or discarded, never both |
| **Provider adapters** `agent/providers/`, contract in `agent-sdk-types.ts` | external processes | startTurn, interrupt, events | agent run control | any order of events | (environment of the model) |
| **xCodex connector and bridge** `xcodex-mobile-connector/`, `xcodex-bridge.ts` | host connection, event subscription, item accumulators | map app-server events to stream events | desktop host, clients | events out of order, host restarts | one lifecycle event per turn; accumulated text matches |
| **Terminals** `terminal/` | ptys, worker messages | create, input, resize, kill | worker process, clients | worker exit during requests | every terminal ends once |
| **Chat** `chat/chat-service.ts` | rooms, messages, waiters | post, read, wait | agents | waiters against posts | a waiter is woken by the first matching message |
| **Workspaces and git** `workspace-git-service.ts`, `checkout-diff-manager.ts`, `workspace-reconciliation-service.ts`, `worktree-bootstrap.ts` | caches with refresh queues | watch, refresh, subscribe | git, file system | refresh during a refresh | the last change is seen |
| **Provider snapshots** `agent/provider-snapshot-manager.ts` | cache per working directory | warm, refresh | provider adapters | refresh while warming | newest result wins |
| **Wait and attention policy, process lock, dictation, MCP server, app, CLI, desktop, website** | small or none | – | – | lock file of a dead process; dictation segments out of order | one daemon per home; transcript in order |

## 2 Plan

The order is by how much of the system depends on the component.

1. **Done.** `AgentEvents`, `AgentRun`: the run life cycle; invariants, liveness of cancel, proofs of
   type correctness, exclusion, token ownership, and of streams and turns that can always be ended.
2. **Done.** `ScheduleRecord`, `ScheduleService`: the schedule service with its file store; proofs of
   type correctness, exclusion, next runs and recovery.
3. **Done.** `AgentStorage`: write chains, snapshots, archive, moved files, deletion, crash; proofs of
   type correctness, removal and restart.
4. **Done.** `TimelineView` (abstract) and `AgentTimeline` (store, session and app), with a refinement;
   proofs of type correctness, of what the cursor says, and of the refinement.
5. **Done.** `LoopService`: iterations, stop, recovery; proofs of four invariants.
6. **Done.** `Relay`: relay, daemon transport and the handshake of the encrypted channel; proofs of type
   correctness and of delivery in order.
7. The coalescer in front of the timeline; the re-key of an encrypted channel that several client
   sockets share.
8. The connector's event mapper, pid lock, provider snapshots, terminals, chat, WebSocket sessions.

Further work on what is there: permission requests and setters in `AgentRun`; a run that follows a
schedule through two restarts; a history variable that counts executions against `maxRuns`.

Every safety invariant, action property and refinement that a passing run checks is a theorem. Theorems to
come, each with an abstract specification of its own: `ScheduleService` implements a schedule whose runs
follow one another and stop at its limits, and `AgentStorage`, while no unlink fails, a single record that
a restart leaves as the last acknowledged write or the one under way.

## 3 Modules and code

### Agent run control

`AgentEvents` holds the pure part: what `handleStreamEvent`, the `onStreamTurn…` handlers and
`finalizeForegroundTurn` do to one agent object. `AgentRun` EXTENDS it with everything that waits.

- `agents` is the map `this.agents` for one agent id: the *generation* of the object registered for it,
  or `NoGen`. `object[g]` is that object. A close, reload or resume makes a new generation; code that
  captured an old object goes on using it, as it does in JavaScript.
- `call[c]` is one API call in progress. `pc` names the `await` it stands at; `gen`, `fg` and `pr` are
  the object, foreground turn and pending run it captured. A call also names the turn and the
  pending-run token it creates, since each creates at most one.
- `timeline` says whether the timeline store has a timeline for the id: without one the handler of
  `turn_failed`, which appends to it, throws half-way.
- `pendingRun`, `settled`, `inbox` are `ForegroundRunState`: the token, the waiters that are settled,
  and what the generator of a run has been woken with.
- `tail` is the per-agent promise chain of session events, `notify` the waiter callbacks that follow a
  handled event one promise hop later, `provider[c]` the provider's side of the turn.

| Action | Code |
|---|---|
| `StreamAgent`, `BeginRun`, `StartTurnResolves`, `StartTurnFails`, `StartTurnFailsUnrecorded`, `StreamContinues`, `StreamEnds` | `streamAgent` and its generator |
| `ReplaceAgentRun`, `ReplacementStarts`, `ReplacementRejected` | `replaceAgentRun` |
| `CancelAgentRun`, `InterruptReturns`, `WaiterSettled`, `IdleSeen`, `PendingSettled`, `CancelTimesOut`, `ForceCancel`, `NothingToForce`, `StaleRunSettled`, `CancelReturns` | the awaits of `cancelAgentRun` |
| `CloseAgent`, `CloseReturns` (after `session.close()`), `ReloadAgentSession`, `ReloadProceeds`, `ReloadSwaps`, `ResumeAgent`, `RegisterChecks`, `RegisterSets`, `RegisterCompletes`, `SessionOpenFails` | `closeAgent`, `reloadAgentSession`, `ensureAgentLoaded`, `registerSession` |
| `DequeueSessionEvent`, `NotifyWaiter` | `enqueueSessionEvent`, `dispatchSessionEvent`, `notifyWaiters` |
| `ProviderStartsTurn`, `ProviderEndsTurn`, `ProviderActsAutonomously` | external: what a provider session may emit |

### Schedules

`ScheduleRecord` holds one stored schedule and the pure functions of `service.ts` on it.
`ScheduleService` has the files and the activations.

- `file[s]` is the JSON file of schedule `s`: a record, `Missing`, `Empty` (truncated by a write under
  way or a crash) or `Corrupt` (two overlapping writes).
- `job[j]` is one activation, a tick or an API call; `pc` names its await, `list` and `snap` are the
  records it read, `then` is what follows the put it is in.
- `runningIds` is `runningScheduleIds`; `up`, `toRecover`, `bootedAt` are the start of the daemon.

| Action | Code |
|---|---|
| `Create`, `ScheduleCall`, `Inspected` (with `Edits`), `Delete` | `create`, `pause`, `resume`, `update`, `delete`, the first half of `runOnce` |
| `PutOpens`, `PutWrites`, `PutFails` | `ScheduleStore.put`, a `writeFile` in two steps that may fail |
| `RunOnce`, `TickRuns` → `BeginRun`, `RunnerReturns`, `FinishRun` | `runSchedule`, `finishRun` |
| `TimerFires`, `ListReads`, `TickSkips`, `TickCompletes`, `TickEnds` | `start`'s timer and `tick` |
| `Crash`, `Start`, `RecoverInterruptedRun`, `Ready` | a daemon that dies and `recoverInterruptedRuns` |

### Agent storage and archiving

`AgentStorage` is one agent id of `AgentStorage` with the callers in `AgentManager` and `Session`.

- `disk[p]` is the file at place `p`: the legacy place, the one `buildRecordPath` gives, or another
  project's directory. `cache`, `pathById`, `pathsById`, `deleting` are the agent's entries in the maps.
- `chain` holds the writes behind `pendingWrites`, `phase` where the running one is (before the look at
  `deleting`, before or after the rename), `broken` whether the stored promise is rejected.
- `waitq` are `applySnapshot` calls waiting for a write, with the number of writes ahead of each.
- `live` is the agent object that `AgentManager` has for the id, or 0; `status[a]` is the lifecycle of each
  object there has been, since a closed object may still change and report. `req[r]` is a client call, with
  the object it captured in `of`.

| Action | Code |
|---|---|
| `WriteStarts`, `FileReplaced`, `PreviousUnlinked`, `WriteFails` (with `CommitRecord`, `Settle`) | the link that `upsert` adds to the chain |
| `RegisterStarts`, `SetTitleStarts`, `ArchiveStarts`, `UnarchiveStarts` and their `…GoesOn`, `SessionClosed` | `registerSession`, `setTitle`, `archiveAgent` / `archiveSnapshot`, `unarchiveSnapshot`, `closeAgent` |
| `DeleteStarts`, `Flushed`, `Drained`, `RecordUnlinked`, `RemoveReturns` | `handleDeleteAgentRequest` and `AgentStorage.remove` |
| `LifecycleChanges`, `LateChange` | an `agent_state` event of the live object, or of a closed one whose `startTurn` or run ends late: the background persist and the subscriber of `persistence-hooks.ts` |
| `Crash`, `Loads` | a daemon that dies, and `scanDisk` at its next start |

### Agent timeline

`TimelineView` is the promise: one log per epoch, and a client that displays a segment of one of them.
`AgentTimeline` is the detailed system, with `View == INSTANCE TimelineView WITH view <- …`: what the app
displays is the view.

- `len`, `kinds`, `loaded`, `forwarding` are the daemon: rows per epoch, whether the agent is registered
  and its history read, and whether the session forwards live rows to a client in the background.
- `requests` and `wire` are the two directions of one WebSocket.
- `tail`, `head`, `cursor`, `queue`, `init`, `authoritative`, `mustSync`, `hasOlder`, `olderInFlight` are
  the app's state under the names it has there.

| Action | Code |
|---|---|
| `RowDispatched`, `TurnEnds`, `HistoryRead`, `AgentRegistered` | `recordAndDispatchTimelineItem`, `subscribeToAgentEvents`, history hydration, `ensureAgentLoaded` |
| `Answers`, `AnswerFails`, `HeartbeatHandled`, `ReloadBegins`, `ReloadReturns` | the handlers of `session.ts` with `InMemoryAgentTimelineStore.fetch` |
| `LiveEventReceived`, `QueueFlushed`, `ResponseReceived`, `ErrorReceived` | the listeners of `session-context.tsx` and the reducers of `session-stream-reducers.ts` |
| `EnsureInitialized`, `HistorySynced`, `PaneFocused`, `InitTimesOut`, `LoadOlder` | the hooks that ask for pages |
| `AppHidden`, `AppResumed`, `ConnectionLost`, `Reconnects`, `DaemonRestarts`, `ReloadRequested`, `RefreshedReceived` | what happens around them |

### Loops

`LoopService` has every loop with its executor. `exec[l].at` is the await the executor stands at and
`next` what it does after a write; `queue` is `persistQueue`; `open[l]` the number of agents
registered for the loop; `aborted[l]` its `AbortController`. A loop's code after an await is part of the action that ends the
wait (`Continue`, `Abandons`), because promise callbacks run before any other event.

| Action | Code |
|---|---|
| `RunLoop`, `StopLoop`, `CancelReturns`, `StopReturns` | `runLoop`, `stopLoop` |
| `AgentCreated`, `CreateFails`, `WorkerEnds`, `VerifierEnds`, `WorkerClosed`, `VerifierClosed` (with `CleanUp`), `CheckEnds`, `Wakes` | `executeLoop`, `runWorkerIteration`, `runVerification`, `sleepWithAbort` |
| `StreamLogged` | the log subscription of a worker, with its `void this.persist()` |
| `WriteStarts`, `WriteEnds`, `WriteFails` | `persist` |
| `Dies`, `Crash`, `Initialize` | an unhandled rejection, a crash, `initialize` |

### Relay and encrypted channel

`Relay` is the relay object, the daemon's transport and the two ends of the channel's handshake.

- `client[c]`, `toRelay`, `toClient` are a client's channel and its socket; `clientWs[c]` is the relay's
  end of it.
- `sock[c]` are the data sockets the daemon has opened for the id, each with both ends, the daemon's
  channel on it and the frames on the way; `dataSockets[c]` is the entry of the map of that name.
- `control`, `toDaemon` are the control socket; `pendingFrames`, `nudge` the relay's buffer and timers.

| Action | Code |
|---|---|
| `ClientConnects`, `FrameFromClient`, `ByeFromClient`, `FrameFromDaemon`, `NudgeSync`, `NudgeReset` | `fetchV2`, `webSocketMessage`, `webSocketClose`, `nudgeOrResetControlForConnection` |
| `ControlReceives`, `ControlStale`, `ControlConnects`, `DataConnects` | `startRelayTransport`, with the relay's side of a new socket |
| `HelloRepeated`, `ClientSends`, `ClientReceives`, `DataReceives` | `createClientChannel`, `createDaemonChannel`, `EncryptedChannel` |
| `ClientLeaves`, `DataFails`, `DataBreaks`, `ControlBreaks`, `Hibernates` | a client that closes, and faults |

The definitions marked *Variant* in the modules are plausible mistakes (a dropped guard, an inverted
comparison, a forgotten field). No action uses them; each is what a property is known to detect when it
takes the place of the definition after it.

## 4 Runs and what they show

| Run | Config | Question | Result |
|---|---|---|---|
| `agent_run` | `AgentRun.cfg` | Every operation against every other and against provider events, three generations of one agent: `TypeOK`, `OneRunPerAgent`, `PendingRunOwned`, `StreamReachable`, `ActiveNotFinalized`, `TurnEndsOnlyFinalized` | holds, 2.0 M states |
| `agent_run_live` | `AgentRunLive.cfg` | `CancelTerminates`, `CancelEndsStream` with a silent provider | holds |
| `agent_run_race` | `AgentRunRace.cfg` | `NoIdleDuringReplacement` with two replacements | violated, see 5.1 |
| `agent_run_reload` | `AgentRunReload.cfg` | `SettledWaiterWakesStream` with a reload | violated, see 5.2 |
| `schedule` | `Schedule.cfg` | One schedule under ticks, all calls, a failing write and a crash: `TypeOK`, `OneRunPerSchedule`, `ActiveHasNextRun`, `NothingDueAfterRecovery` | holds, 1.1 M states |
| `schedule_live` | `ScheduleLive.cfg` | `DueScheduleRuns` while runs of the other schedule never end | holds |
| `schedule_delete` | `ScheduleDelete.cfg` | `DeletedForGood` | violated, see 5.3 |
| `agent_storage` | `AgentStorage.cfg` | Two client calls of any kind, a lifecycle change of the live or of a closed object, a failed write or unlink and a restart on one agent: `TypeOK`, `RemovedStaysRemoved`, `RestartLoadsAcked`, `LastStateStored` | holds, 0.5 M states |
| `agent_storage_archive` | `AgentStorageArchive.cfg` | `ArchivePreserved` with one archive call and one state event | violated, see 5.4 |
| `agent_timeline` | `AgentTimeline.cfg` | Three rows or epochs and any two of disconnect, restart, focus, reload, hide, or one timeout, error or reload by another client: `TypeOK`, `DisplayedIsCursor`, `ImplementsView` (refinement), `CatchesUp` | holds, 0.3 M states |
| `loop_service` | `LoopService.cfg` | Two loops, a stop and one fault of any kind (agent, archive, write, crash): `TypeOK`, `AgentsClosed`, `OneAgentAfterStop`, `StoppedSaved`, `StopEnds` | holds, 1.0 M states |
| `relay` | `Relay.cfg` | A client through the relay while a socket or the relay's memory is lost: `TypeOK`, `InOrder`, `ClientServed`, `DataReleased` | holds |

Deadlock is not checked: an agent without calls, a daemon that cannot start, a loop that has ended and a
client that has left are all legitimate ends.

## 5 Where code and documentation disagree

**5.1** `agent-manager.test.ts:2548` says a replacement does not emit idle between the interrupted and the
new run. In the run TLC finds, a stream call has the pending-run token and its `startTurn` is pending, and
two `replaceAgentRun` calls set `pendingReplacement` and cancel it. The cancel of the first times out with
no turn to force; its `streamAgent` throws, because the original run still holds the token. Its catch clause
(`agent-manager.ts:1646`) clears `pendingReplacement` and, as no turn is active, sets the agent idle while
the second replacement is still cancelling.

**5.2** The comment at `agent-manager.ts:1846` relies on a settled waiter waking the generator.
`clearAgent` (`foreground-run-state.ts:123`), used by a reload, settles waiters without calling them back;
a run started after the reload's in-flight check sleeps for ever.

**5.3** `public-docs/mcp.md:52` says `delete_schedule` deletes permanently. A tick works through one list
and waits for each run it starts; a schedule deleted meanwhile is found due in the list, run, and written
back (`service.ts:409`).

**5.4** The comment at `agent-storage.ts:209` says `applySnapshot` preserves the archive status. It waits
for the writes pending when it is called, and merges with the cached record, which changes when a write
*ends*. A state event emitted during `archiveAgent`'s own snapshot waits for that snapshot only, reads the
record before the archived one is written, and chains an unarchived record behind it.

## 6 Bounds

`AgentRun`: two runs (one of them a replacement), one operation that may be a cancel, a reload or a close,
and one resume are the smallest set in which a stale object, its generator, a new object and a second
generator coexist; three generations allow a resume and a reload of the same id to race. Two provider
events, one queued at a time, are an early or late terminal event of each run, or an autonomous one; one
remembered finalized turn (`FinalizedCap`, 50 in the code) makes a forgotten id reachable. The liveness run
keeps the agent registered: it has no close, reload or resume. With them `CancelTerminates` would need more
than the code gives, since the wait after a forced cancel (`agent-manager.ts:1874`) has no timer and, on an
object that is no longer the registered one, can be for the token of a run on a newer object.

`ScheduleService`: two activations, where one may be a tick, a creation or again a tick and the other
anything, two runs ever, one failing write, one crash and two instants. Two activations suffice for every
overwrite of a file by a stale snapshot; two runs for a limit (`maxRuns` is 2) reached and not reached; two
instants for due, not due and missed. `schedule_live` has two schedules and two overlapping ticks: one tick
is stuck in a run that may never end. `nextRunAfter` over longer gaps is covered by proof.

`AgentStorage`: two agent objects of the id, so that a closed one and its successor report side by side; two
concurrent calls, one lifecycle change (which alone starts two snapshots), one failed
write, one failed unlink and one crash. The hazards are orders of at most three writes: the one running, a
snapshot merged with the record before it, and the archived or deleted record behind. At the start there is a live agent with its
file at `Home`, or no agent and no file, or one at the legacy place (1), or one in another project's directory (3), or that one and a new one
at `Home` (2), as a crash between the rename and the unlink leaves them.

`AgentTimeline`: pages of one row make every fetch return a window with more behind it; three rows over
three epochs allow a hole (rows 1 and 3), a reload and a restart; two messages on the wire let an answer
and a live row cross. Pairs of happenings, since each hazard is a crossing of two.

`LoopService`: two loops share the file; one has two iterations, a verifier with two attempts and a sleep,
the other a command, so that every await of an executor occurs with a stop before and after it. The first
archives its agents, so that a clean-up may fail in any iteration.

`Relay`: one connection id, since ids share nothing but the control socket, whose loss is a fault here; a
buffer of two frames (200 in the code) overflows with a hello and data; two handshake frames at a time let
a hello be answered twice. One fault: with two, a data connection that fails after both timers of
`nudgeOrResetControlForConnection` have fired leaves the client unserved until its own 15 s timeout; the
timers are set once per client.

The proofs in section 8 hold without these bounds (`MaxGen`, `MaxTime` and the like remain arbitrary
parameters there).

## 7 Fairness

`FairSpec` of `AgentRun` gives weak fairness to the delivery of queued events, to the steps of generators
and to the steps of cancels, timers included: Node's event loop runs every promise job and timer of its own
accord. A timer fires only when no promise job is left (`Quiet`). Nothing is assumed of clients or of the
provider: `startTurn`, `interrupt` and events may never come.

`FairSpec` of `ScheduleService` gives it to the ticks of each slot, to file writes and to the steps between
awaits. Agent runs need not end (`RunnerReturns` is not fair), the clock need not advance, and no call need
be made. A slot per tick stands for the interval timer, which starts a new tick although older ones wait.
`DueScheduleRuns` stops looking when the bound on run ids is used up.

`FairSpec` of `AgentStorage` is fair to file operations, to the steps of a call between awaits and to
loading; of `AgentTimeline` to the delivery of messages in both directions, to answers, to the app's
effects and its queue. `CatchesUp` promises something only while the connection lasts. `FairSpec` of
`LoopService` makes writes, agents' runs, commands, timers and promise callbacks end. An agent that is
never done holds up its loop in the code too; a stop cancels it (`cancelAgentRun` forces the end after
2 s) unless it was created after the cancel, and then the stop waits for its run. `FairSpec` of
`Relay` is fair to each queue of frames, each timer, the reconnect of the control socket and an attempt to
connect, separately. A message on a control socket that is up, and an attempt to open a data socket
(`handshakeTimeout` 10 s), take less than the relay's delays of 10 s and 5 s more; `NudgeSync` and
`NudgeReset` wait for them. Faults and clients are never fair.

## 8 Proofs

All obligations are discharged by the SMT, Zenon and LS4 back ends, with no assumption beyond the named
ASSUMEs of the modules: that `None`, `NoLoop` and the marks of an unreadable file are no ordinary values,
that loops and stop calls are told apart, that the period, the finalized-turn cap, the page size and the
verifier's attempts are positive, that there is a scenario, and that the bounds are natural numbers
(positive in `AgentTimeline`). One says something of the code: `FilesAssumption` of `AgentStorage`, that an
earlier run of the daemon left at most one file that the scan reads after the one at `Home`. A second file
comes from a crash between a rename at `Home` and the unlink of the old file, so one of the two is at
`Home`; two others need an unlink that failed, and then both storage properties promise nothing. TLC
evaluates the assumptions in every run of those modules.

Every safety invariant, every action property and the refinement that the passing runs check are theorems.

**`AgentRun_proofs`**: `TypeCorrect`, `ExclusiveRun` (`[]OneRunPerAgent`), for any set of calls, operations
and bounds. Exclusion is not inductive: that two generators are not live together says nothing of the third
call about to start. The invariant is `IInv == TypeOK /\ Generations /\ LiveRunHoldsToken /\ TokenHeld`.
`LiveRunHoldsToken` says that a run on the registered object is the one holding the token, so `canStream`,
which wants the token free, keeps others out. `TokenHeld` says the reverse: the token is that of a run in
progress, or of one whose failed start could not be recorded. `Generations` says that a call only knows
objects already handed out, so a newly registered object cannot be the one an old generator uses. The proof
has one lemma per action.

**`AgentRunStream_proofs`** builds on it: `StreamNeverStranded` (`[]StreamReachable`), `ActiveTurnCanEnd`
(`[]ActiveNotFinalized`), `TurnsEndByFinalization` (`TurnEndsOnlyFinalized`, an action property), and `TokenOwned`
(`[]PendingRunOwned`), which needs both invariants: the holder of the token is in progress, and if its
object is the registered one, its stream can be ended. Left are the two leaks that the property names:
a missing timeline, and an object that a second registration has overwritten. The
invariant is `StreamInv == TurnsBegun /\ NotFinalized /\ StartingIdle /\ StreamReachable`, on top of `IInv`.
`TurnsBegun` is about stale state: an object, a settled waiter or a pending callback knows only turns whose
`startTurn` has resolved. So the turn that a run is about to make active was not finalized earlier, and no
waiter on an old object can be taken for its waiter. `NotFinalized` extends `ActiveNotFinalized` to every
generation, because a stale object goes on handling events; `StartingIdle` says that the run which is about
to set the active turn finds none to overwrite.

**`ScheduleRecord_proofs`**: what the record functions return for every input. `NextRunIsFirstAhead`: the
closed form of the `while` loop is the first cadence step beyond both the last due time and now.
`RecoveryCatchesUp`: recovery returns a record that is not due.

**`ScheduleService_proofs`**: `ScheduleTypeCorrect`, `NoOverlappingRuns`, `NeverStranded`
(`[]ActiveHasNextRun`), `MissedRunsSkipped` (`NothingDueAfterRecovery`). The invariant adds to the
properties: `Records`, that every copy of a record in use, in a file, a snapshot or a tick's list, has a next
run if active, because any of them may be what the file holds next; `RunOwnsId`, that a run in progress holds
the id of its schedule, without which giving back one id could free another's; and `Recovery`, that nothing
runs before recovery is over and what recovery no longer has to write is not due. `JobStep` isolates the
argument: an activation keeps its id, takes a free one, or gives back the one it holds. Each action is
shown to be one of the three.

**`LoopService_proofs`**: `LoopTypeCorrect`, `LoopAgentsClosed`, `LoopOneAgentAfterStop`,
`LoopStoppedSaved`, for any loops with any options, any number of stop calls, failures and crashes. The
invariant is `IInv == TypeOK /\ Executors /\ OnceLate /\ OpenHeld /\ Queued /\ Stops /\ Down /\ Saved`, and
TLC finds it to hold in the instance of `LoopService.cfg`. None of the properties is inductive:
- `OnceLate` adds where the executor of a loop with a late agent may be (`PastCreation`): only at awaits
  after which it looks at its signal before it creates another agent. That "at most one" is true depends on
  every await of `executeLoop`, `runWorkerIteration` and `runVerification` being on the right side.
- `OpenHeld` says at which awaits an executor has an agent of its own: all other registered agents of the
  loop are counted in `missed`, by the failure that left them.
- `Saved` follows a stopped loop to the file: it is there, or in the write under way, or there is a write
  to come, which reads the records when it starts.
- `Queued` says that a loop waits for at most one write, and only while its executor awaits it. Without it
  the end of a write could wake an executor that is somewhere else. `Executors`, `Stops` and `Down` say what
  exists while an executor or a stop call waits, and that nothing waits in a daemon that is down.

Most actions only move one executor, so the proof goes through one formula, `Moves(l, q)`: the executor
goes on with a record and a stage of which `Follows` says what the invariant needs. A lemma for each helper
of the executor (`Fails`, `Iterate`, `Verify`, ...) shows that it moves so, and `MoveKeeps` shows that a
move keeps the invariant, whether an agent, a timer or a write set it off. The steps of a stop call and
of the process have lemmas of their own.

**`AgentStorage_proofs`**: `StorageType`, `StorageRemovedStaysRemoved`, `StorageRestartLoadsAcked`, for any
number of project directories, client calls, queued snapshots, failures and crashes. The invariant is
`IInv == TypeOK /\ Kept`. For removal, `Fence` and `Draining` follow `remove()` through its awaits: the
fence stands from the first of them on, and no write is past it while the files are unlinked, so nothing can
put a file back; `Indexed` says that the map of paths names every file there is, so the removal reaches all
of them; `Gone` is what is left. For a restart, `Stored` and `Current` say which file the scan reads last:
the one at `pathById`, with a record that was acknowledged or is being written, or a new one at `Home` while
the old one still waits to be unlinked. `OneAbove` is what makes the order of the scan harmless.

**`Relay_proofs`**: `RelayType`, `RelayDeliversInOrder` (`[]InOrder`), for any number of connections, any
size of the buffer and any faults. What was delivered says nothing of what is still on its way, so the
invariant says the same of every place a frame can be: in the client's socket (`Upstream`), in the relay's
buffer (`Buffered`), in a data socket (`Delivered`). At each of them the next frame is one the client sent
right after (`Chain`), and neighbouring places join (`Joined`). The buffer may lose its oldest frames only
because it is in use only while no data socket is listed, and because a channel reads a hello before
anything else: a hole before that hello is not seen, and after it there is none.

**`AgentTimeline_proofs`**: `TimelineType`, `TimelineDisplayedIsCursor` (`[]DisplayedIsCursor`) and
`TimelineImplementsView` (`Spec => View!Spec`), for any page size, lengths of logs, numbers of epochs, kinds
of rows, messages on the way, and combinations of what may happen. The invariant is
`IInv == Flags /\ Good /\ Ordered /\ Displayed`:
- `Good` says that every request, message and cursor is about rows that exist. An app that had been sent a
  page of a log longer than the daemon's would display rows nobody wrote.
- `Ordered` looks at the queue of the app and the socket as one pipeline. A live row comes after everything
  before it, a page that may replace the list (`tail`, or `reset`) goes at least as far as what is before
  it, and the cursor is behind both. This is why a replacement never takes the app back; it holds because
  the store is read in the step that sends the answer.
- `Displayed` says that the rows displayed, without those of an old head, are `outdated` rows of an earlier
  list followed by the rows of the cursor up to `endSeq`. `DisplayedIsCursor` follows.

Each reducer (`LiveProcessed`, `PageReplaces`, `OlderAccepted`, `IncrementalAccepted`) is shown to take such a
list to such a list with a cursor that goes forward (`Goes`, `Merges`). A batch and a page are recursive
functions over their rows; what they do is shown by induction over the index of the row (`Counting`,
derived from the least element of a set of naturals), not over data. The step simulation goes through
`Moves`: a step of the system either leaves the log and takes the cursor onward, or gives it up for a newer
epoch (`View!Display`), or leaves what is displayed and adds a row or an epoch to the log (`View!RowAdded`,
`View!NewEpoch`).

Only model-checked: the liveness properties (`CancelTerminates`, `CancelEndsStream`, `DueScheduleRuns`,
`LastStateStored`, `CatchesUp`, `StopEnds`, `ClientServed`, `DataReleased`) and the properties of section 5,
which do not hold. Out of the prover's reach: liveness under fairness, ENABLED, induction over data, and
anything that reaches a RECURSIVE operator (none is used).

## 9 Abstractions and limits

- Texts, prompts, usage and attention flags of an agent are left out; an error text is "there is one". The
  await inside `turn_failed` is atomic: without a durable timeline store, which the daemon does not
  configure, nothing is waited for.
- Every caller drains the generator it gets at once, as all callers in the repository do; a generator that
  is never started would hold the pending-run token from the call on.
- An agent's permission requests, settings, archive and history are not in `AgentRun`; none of them
  starts or ends a turn.
- A `turn_started` or terminal event may come at any time in any number up to `MaxEvents`; the contract in
  `agent-sdk-types.ts` excludes none of these orders.
- Time in the schedules is counted in units of which `Period` make a cadence step. A cron cadence differs
  only in steps of different length; `cron.ts` itself is not modelled.
- `list()` reads all files in one step. Reading them one after the other yields lists whose entries are at
  most staler than in the model, where a tick may use its list at any later time.
- A failing write is one that fails before it truncates the file. `stop()` clears the timer only as the
  daemon exits, which `Crash` covers.
- `AgentRun`: a failure that cannot be recorded because the timeline is missing leaves the token to a later
  close or reload, and so does an object that a second registration overwrites. A late event of a turn that
  is no longer remembered may set the lifecycle to idle; no property speaks of that.
- `LastStateStored` promises nothing while the last report was one of a closed object: a late "running", or
  the "closed" of a close that a resume has overtaken, then stays stored until the live object reports again.
- `AgentStorage`: one agent id, because the store keeps nothing across ids but the map of files read at
  start. A record has its status, whether it is archived and whether it has a title. `writeFileAtomically`
  is one step: it writes beside the file and renames. Promise callbacks run in the order of their calls,
  so waiting snapshots merge first come first served.
- `AgentTimeline`: an item is text of the assistant or anything else. The daemon sets no limit on rows, so
  none are trimmed. The answer is produced in the step in which the request is read from the store, as in
  the code. What the app is known to display besides the rows of its cursor (an older head kept over a
  replaced list, and a page put before a list it was not asked for) is marked (`kept`, `outdated`) and left
  out of the displayed list that the refinement speaks of.
- `LoopService`: texts, log cursors and lookup by prefix are left out. An agent is closed or archived in one
  step, or archiving it fails before it is closed: `closeAgent` itself takes the agent out of the map first. While a daemon dies of an unhandled rejection (200 ms) what is under way goes on but no new call
  is served.
- `Relay`: the app's client lets the relay assign an id to each socket, so one id has one client socket,
  and a hello with another key does not occur. A closed socket is listed by `getWebSockets` until the other
  end has answered. A break is seen by both ends of a data socket; a control socket breaks silently. The
  opening of a socket is one step for both ends. `missed` records that a `disconnected` message was lost;
  then nothing tells the daemon to close an attempt under way, and `DataReleased` promises nothing.
- Loops and storage fail by rejecting; a disk that lies is not modelled.
- Not modelled: the components of section 1 that section 3 does not name, with the reason in
  `PROJECT.json`. The repository has about 260,000 lines in 1,090 implementation files, most of them
  user interface, provider adapters, request schemas and dispatch. The modules cover the parts with
  protocol state that is kept across awaits, messages or restarts, which is a small share of the lines.
