------------------------------- MODULE AgentRun -------------------------------
(***************************************************************************)
(* The run machinery of AgentManager for one agent id: streamAgent,        *)
(* replaceAgentRun, cancelAgentRun, reloadAgentSession, closeAgent and     *)
(* resume, racing with the provider's events and with each other.          *)
(*                                                                         *)
(* The daemon is one JavaScript thread: code between two awaits is one     *)
(* action, and every await is a program counter of the call that waits.    *)
(* The agents map holds at most one agent object for the id; objects are   *)
(* numbered in the order they are registered (gen), because calls and      *)
(* generators keep references to objects that have left the map.           *)
(* A call that throws at once changes nothing and is not a step.           *)
(***************************************************************************)
EXTENDS AgentEvents, FiniteSets

CONSTANTS
    Ops,            \* Ops[c]: the API operations call c may be
    MaxGen,         \* bound: agent objects registered for the id
    MaxTail,        \* bound: provider events queued at once
    MaxEvents       \* bound: provider events sent over the whole behaviour

(* Calls are named by the turn id the provider gives the run they start. *)
Call == Turn

Operation == {"stream", "replace", "cancel", "reload", "close", "resume"}

ASSUME OpsAssumption == Ops \in [Call -> SUBSET Operation]
ASSUME BoundsAssumption ==
    /\ MaxGen \in Nat \ {0}
    /\ {MaxTail, MaxEvents} \subseteq Nat

Gen == 1..MaxGen
NoGen == 0

VARIABLES
    agents,         \* the map's entry: the gen of the current object, or NoGen
    object,         \* object[g]: the agent object's fields
    nextGen,        \* next unused gen
    timeline,       \* the timeline store holds a timeline for the id
    pendingRun,     \* ForegroundRunState.pendingRuns: a call (its token), or None
    settled,        \* turns whose waiter is settled
    tail,           \* sessionEventTails: provider events not yet handled
    notify,         \* <<turn, terminal>>: waiters about to be called back
    inbox,          \* inbox[c]: what woke the run's ForegroundTurnStream
    call,           \* call[c]: the call's operation, await and captured values
    provider,       \* provider[c]: how far the provider session is with the turn
    sent            \* provider events sent so far

vars == <<agents, object, nextGen, timeline, pendingRun, settled, tail, notify, inbox,
          call, provider, sent>>

AwaitInCancel == {"interrupting", "await_waiter", "await_idle", "await_pending",
                  "checking", "await_stale", "cancelled"}
AwaitInRegister == {"opening", "closing_old", "registering", "settling"}
Pc == {"none", "starting", "streaming", "closing", "done"} \cup AwaitInCancel \cup AwaitInRegister

CallState == [op : Operation \cup {"none"}, pc : Pc, gen : Gen \cup {NoGen},
              fg : Turn \cup {None}, pr : Call \cup {None}]

TypeOK ==
    /\ agents \in Gen \cup {NoGen}
    /\ object \in [Gen -> Agent]
    /\ nextGen \in 1..(MaxGen + 1)
    /\ timeline \in BOOLEAN
    /\ pendingRun \in Call \cup {None}
    /\ settled \subseteq Turn
    /\ tail \in Seq(Event)
    /\ notify \subseteq Turn \X BOOLEAN
    /\ inbox \in [Call -> {"empty", "event", "terminal"}]
    /\ call \in [Call -> CallState]
    /\ provider \in [Call -> {"closed", "opened", "started", "ended"}]
    /\ sent \in 0..MaxEvents

-----------------------------------------------------------------------------

(* A fresh object as registerSession puts it in the map. *)
registeredAgent(err) ==
    [lifecycle |-> "initializing", activeForegroundTurnId |-> None,
     pendingReplacement |-> FALSE, lastError |-> err,
     finalizedForegroundTurnIds |-> <<>>, foregroundTurnWaiters |-> {},
     subscribed |-> FALSE]

registrationComplete(a) == [a EXCEPT !.lifecycle = "idle", !.subscribed = TRUE]

Init ==
    /\ agents = 1
    /\ object = [g \in Gen |-> IF g = 1 THEN registrationComplete(registeredAgent(FALSE))
                                     ELSE registeredAgent(FALSE)]
    /\ nextGen = 2
    /\ timeline = TRUE
    /\ pendingRun = None
    /\ settled = {}
    /\ tail = <<>>
    /\ notify = {}
    /\ inbox = [c \in Call |-> "empty"]
    /\ call = [c \in Call |->
                 [op |-> "none", pc |-> "none", gen |-> NoGen, fg |-> None, pr |-> None]]
    /\ provider = [c \in Call |-> "closed"]
    /\ sent = 0

Registered == agents # NoGen
current == object[agents]

hasInFlightRun ==
    /\ Registered
    /\ \/ current.lifecycle = "running"
       \/ current.activeForegroundTurnId # None
       \/ pendingRun # None

(* Variant: a run that has not started its turn yet does not count. *)
canStreamWhilePending ==
    /\ Registered
    /\ current.activeForegroundTurnId = None

(* streamAgent's own guard: it does not look at the lifecycle. *)
canStream ==
    /\ Registered
    /\ current.activeForegroundTurnId = None
    /\ pendingRun = None

(* Variant: the token comparison is inverted. *)
settleOtherRun(c) == IF pendingRun = c THEN pendingRun ELSE None

settlePendingRun(c) == IF pendingRun = c THEN None ELSE pendingRun

getMatchingWaiters(a, t) == {w \in a.foregroundTurnWaiters : w = t /\ w \notin settled}

(* turn_failed appends to the timeline: without one, handling it throws half-way. *)
throwsHalfway(a, ev) ==
    ev.type = "turn_failed" /\ ~timeline /\ ~isDuplicateTerminal(a, ev)

afterEvent(a, ev) ==
    IF throwsHalfway(a, ev) THEN onStreamTurnFailed(a, ev) ELSE handleStreamEvent(a, ev)

(* Variant: whether to notify is decided after the turn was finalized. *)
dispatchChecksTooLate(g, ev) ==
    /\ object' = [object EXCEPT ![g] = afterEvent(object[g], ev)]
    /\ notify' = IF isDuplicateTerminal(afterEvent(object[g], ev), ev) THEN notify
                 ELSE notify \cup {<<w, isTurnTerminalEvent(ev)>> :
                                     w \in getMatchingWaiters(object[g], ev.turn)}

(* dispatchSessionEvent on object g: the waiters are picked before the     *)
(* event is handled and called back one promise hop after it.              *)
dispatchSessionEvent(g, ev) ==
    /\ object' = [object EXCEPT ![g] = afterEvent(object[g], ev)]
    /\ notify' = IF isDuplicateTerminal(object[g], ev) \/ throwsHalfway(object[g], ev) THEN notify
                 ELSE notify \cup {<<w, isTurnTerminalEvent(ev)>> :
                                     w \in getMatchingWaiters(object[g], ev.turn)}

(* Everything that needs no timer and no I/O to run has run. *)
Quiet ==
    /\ tail = <<>>
    /\ notify = {}
    /\ \A c \in Call : /\ call[c].pc \notin {"checking", "cancelled"}
                       /\ call[c].pc = "streaming" => inbox[c] = "empty"

-----------------------------------------------------------------------------
(* streamAgent and its generator, which every caller drains at once. *)

runRequested(a) == [a EXCEPT !.pendingReplacement = FALSE, !.lastError = FALSE]

BeginRun(c, op) ==
    /\ canStream
    /\ object' = [object EXCEPT ![agents] = runRequested(@)]
    /\ pendingRun' = c
    /\ call' = [call EXCEPT ![c] = [@ EXCEPT !.op = op, !.pc = "starting", !.gen = agents]]
    /\ provider' = [provider EXCEPT ![c] = "opened"]
    /\ UNCHANGED <<agents, nextGen, timeline, settled, tail, notify, inbox, sent>>

(* Also replaceAgentRun with nothing in flight: it returns streamAgent(...). *)
StreamAgent(c) ==
    /\ call[c].pc = "none"
    /\ Ops[c] \cap {"stream", "replace"} # {}
    /\ BeginRun(c, "stream")

turnActive(a, t) ==
    [a EXCEPT !.activeForegroundTurnId = t,
              !.lifecycle = "running",
              !.foregroundTurnWaiters = @ \cup {t}]

StartTurnResolves(c) ==
    /\ call[c].pc = "starting"
    /\ object' = [object EXCEPT ![call[c].gen] = turnActive(@, c)]
    /\ call' = [call EXCEPT ![c].pc = "streaming"]
    /\ UNCHANGED <<agents, nextGen, timeline, pendingRun, settled, tail, notify, inbox, provider, sent>>

(* The catch clause of replaceAgentRun's generator, on the object now current. *)
replaceRunCatch(a) ==
    [a EXCEPT !.pendingReplacement = FALSE,
              !.lifecycle = IF a.activeForegroundTurnId = None /\ @ = "running" THEN "idle" ELSE @]

afterRunError(c, objects) ==
    IF call[c].op = "replace" /\ Registered
    THEN [objects EXCEPT ![agents] = replaceRunCatch(objects[agents])]
    ELSE objects

startFailedEvent == [type |-> "turn_failed", turn |-> None]

StartTurnFails(c) ==
    /\ call[c].pc = "starting"
    /\ timeline
    /\ LET g == call[c].gen
           failed == finalizeForegroundTurn(handleStreamEvent(object[g], startFailedEvent), None)
       IN  object' = afterRunError(c, [object EXCEPT ![g] = failed])
    /\ pendingRun' = settlePendingRun(c)
    /\ call' = [call EXCEPT ![c].pc = "done"]
    /\ provider' = [provider EXCEPT ![c] = "closed"]
    /\ UNCHANGED <<agents, nextGen, timeline, settled, tail, notify, inbox, sent>>

(* Recording the failure throws inside the catch clause: the turn is not     *)
(* finalized and the pending run is not settled.                             *)
StartTurnFailsUnrecorded(c) ==
    /\ call[c].pc = "starting"
    /\ ~timeline
    /\ LET g == call[c].gen
           failed == onStreamTurnFailed(object[g], startFailedEvent)
       IN  object' = afterRunError(c, [object EXCEPT ![g] = failed])
    /\ call' = [call EXCEPT ![c].pc = "done"]
    /\ provider' = [provider EXCEPT ![c] = "closed"]
    /\ UNCHANGED <<agents, nextGen, timeline, pendingRun, settled, tail, notify, inbox, sent>>

deleteWaiter(a, t) == [a EXCEPT !.foregroundTurnWaiters = @ \ {t}]

(* The woken generator: a terminal event, or a settled waiter, ends it. *)
StreamEnds(c) ==
    /\ call[c].pc = "streaming"
    /\ \/ inbox[c] = "terminal"
       \/ inbox[c] = "event" /\ c \in settled
    /\ object' = [object EXCEPT ![call[c].gen] = deleteWaiter(@, c)]
    /\ settled' = settled \cup {c}
    /\ pendingRun' = settlePendingRun(c)
    /\ call' = [call EXCEPT ![c].pc = "done"]
    /\ inbox' = [inbox EXCEPT ![c] = "empty"]
    /\ UNCHANGED <<agents, nextGen, timeline, tail, notify, provider, sent>>

StreamContinues(c) ==
    /\ call[c].pc = "streaming"
    /\ inbox[c] = "event" /\ c \notin settled
    /\ inbox' = [inbox EXCEPT ![c] = "empty"]
    /\ UNCHANGED <<agents, object, nextGen, timeline, pendingRun, settled, tail, notify, call, provider,
                   sent>>

-----------------------------------------------------------------------------
(* cancelAgentRun, run by a direct call, by replaceAgentRun or by a reload. *)

CancelBegins(c, op) ==
    call' = [call EXCEPT ![c] = [op |-> op, pc |-> "interrupting", gen |-> agents,
                                 fg |-> current.activeForegroundTurnId, pr |-> pendingRun]]

CancelAgentRun(c) ==
    /\ call[c].pc = "none"
    /\ "cancel" \in Ops[c]
    /\ hasInFlightRun
    /\ CancelBegins(c, "cancel")
    /\ UNCHANGED <<agents, object, nextGen, timeline, pendingRun, settled, tail, notify, inbox, provider,
                   sent>>

replacementRequested(a) == [a EXCEPT !.pendingReplacement = TRUE, !.lifecycle = "running"]

ReplaceAgentRun(c) ==
    /\ call[c].pc = "none"
    /\ "replace" \in Ops[c]
    /\ hasInFlightRun
    /\ object' = [object EXCEPT ![agents] = replacementRequested(@)]
    /\ CancelBegins(c, "replace")
    /\ UNCHANGED <<agents, nextGen, timeline, pendingRun, settled, tail, notify, inbox, provider, sent>>

MoveTo(c, pc) == call' = [call EXCEPT ![c].pc = pc]

(* The call's captured values go out of scope. *)
Leave(c, pc) == call' = [call EXCEPT ![c] = [@ EXCEPT !.pc = pc, !.fg = None, !.pr = None]]

NothingElse == UNCHANGED <<agents, object, nextGen, timeline, pendingRun, settled, tail, notify, inbox,
                           provider, sent>>

pendingUnsettled(c) == call[c].pr # None /\ pendingRun = call[c].pr

afterTurnWait(c) == IF pendingUnsettled(c) THEN "await_pending" ELSE "checking"

(* interrupt() answered, failed or timed out: what cancelAgentRun waits for next. *)
InterruptReturns(c) ==
    /\ call[c].pc = "interrupting"
    /\ LET a == object[call[c].gen]
           fg == call[c].fg
       IN  MoveTo(c, IF fg # None /\ fg \in a.foregroundTurnWaiters THEN "await_waiter"
                     ELSE IF fg # None /\ a.activeForegroundTurnId = fg THEN "await_idle"
                     ELSE afterTurnWait(c))
    /\ NothingElse

WaiterSettled(c) ==
    /\ call[c].pc = "await_waiter"
    /\ call[c].fg \in settled
    /\ MoveTo(c, afterTurnWait(c))
    /\ NothingElse

(* An agent_state without an active turn was emitted for the id. *)
IdleSeen(c) ==
    /\ call[c].pc = "await_idle"
    /\ \/ object[call[c].gen].activeForegroundTurnId = None
       \/ agents # call[c].gen
    /\ MoveTo(c, afterTurnWait(c))
    /\ NothingElse

PendingSettled(c) ==
    /\ call[c].pc = "await_pending"
    /\ ~pendingUnsettled(c)
    /\ MoveTo(c, "checking")
    /\ NothingElse

(* Variant: the wait for the pending run has no timer. *)
OnlyTurnWaitTimesOut(c) ==
    /\ call[c].pc \in {"await_waiter", "await_idle"}
    /\ Quiet
    /\ MoveTo(c, "checking")
    /\ NothingElse

(* The 2 s timer shared by the three waits; a timer fires only between promise jobs. *)
CancelTimesOut(c) ==
    /\ call[c].pc \in {"await_waiter", "await_idle", "await_pending"}
    /\ Quiet
    /\ MoveTo(c, "checking")
    /\ NothingElse

(* Variant: clears the stale turn without dispatching an event for it. *)
ForceClear(c) ==
    /\ call[c].pc = "checking"
    /\ call[c].fg # None
    /\ object[call[c].gen].activeForegroundTurnId = call[c].fg
    /\ object' = [object EXCEPT ![call[c].gen] = finalizeForegroundTurn(@, call[c].fg)]
    /\ Leave(c, "cancelled")
    /\ UNCHANGED <<agents, nextGen, timeline, pendingRun, settled, tail, notify, inbox, provider, sent>>

(* Still the active turn: force-dispatch turn_canceled and wait, without a  *)
(* timer, for whatever run is pending.                                      *)
ForceCancel(c) ==
    /\ call[c].pc = "checking"
    /\ call[c].fg # None
    /\ object[call[c].gen].activeForegroundTurnId = call[c].fg
    /\ dispatchSessionEvent(call[c].gen, [type |-> "turn_canceled", turn |-> call[c].fg])
    /\ call' = [call EXCEPT ![c] = [@ EXCEPT !.fg = None, !.pr = pendingRun,
                                             !.pc = IF pendingRun = None THEN "cancelled"
                                                    ELSE "await_stale"]]
    /\ UNCHANGED <<agents, nextGen, timeline, pendingRun, settled, tail, inbox, provider, sent>>

NothingToForce(c) ==
    /\ call[c].pc = "checking"
    /\ call[c].fg = None \/ object[call[c].gen].activeForegroundTurnId # call[c].fg
    /\ Leave(c, "cancelled")
    /\ NothingElse

StaleRunSettled(c) ==
    /\ call[c].pc = "await_stale"
    /\ ~pendingUnsettled(c)
    /\ Leave(c, "cancelled")
    /\ NothingElse

CancelReturns(c) ==
    /\ call[c].pc = "cancelled"
    /\ call[c].op = "cancel"
    /\ MoveTo(c, "done")
    /\ NothingElse

ReplacementStarts(c) ==
    /\ call[c].pc = "cancelled"
    /\ call[c].op = "replace"
    /\ BeginRun(c, "replace")

(* streamAgent throws: the agent is gone or another run got in first. *)
ReplacementRejected(c) ==
    /\ call[c].pc = "cancelled"
    /\ call[c].op = "replace"
    /\ ~canStream
    /\ object' = afterRunError(c, object)
    /\ MoveTo(c, "done")
    /\ UNCHANGED <<agents, nextGen, timeline, pendingRun, settled, tail, notify, inbox, provider, sent>>

-----------------------------------------------------------------------------
(* closeAgent, reloadAgentSession, resumeAgentFromPersistence. *)

(* Unsubscribed from the session, its waiters settled and forgotten. *)
detached(a) == [a EXCEPT !.foregroundTurnWaiters = {}, !.subscribed = FALSE]

CloseAgent(c) ==
    /\ call[c].pc = "none"
    /\ "close" \in Ops[c]
    /\ Registered
    /\ LET waiters == current.foregroundTurnWaiters IN
       /\ inbox' = [w \in Call |-> IF w \in waiters THEN "terminal" ELSE inbox[w]]
       /\ settled' = settled \cup waiters
    /\ object' = [object EXCEPT ![agents] = detached(@)]
    /\ pendingRun' = None
    /\ agents' = NoGen
    /\ call' = [call EXCEPT ![c] = [@ EXCEPT !.op = "close", !.pc = "closing"]]
    /\ UNCHANGED <<nextGen, timeline, tail, notify, provider, sent>>

(* session.close() has returned, or rejected: then closeAgent throws.  The   *)
(* timeline is deleted under the id, whoever has registered it meanwhile.    *)
CloseReturns(c) ==
    /\ call[c].pc = "closing"
    /\ timeline' \in {timeline, FALSE}
    /\ MoveTo(c, "done")
    /\ UNCHANGED <<agents, object, nextGen, pendingRun, settled, tail, notify, inbox, provider,
                   sent>>

ReloadAgentSession(c) ==
    /\ call[c].pc = "none"
    /\ "reload" \in Ops[c]
    /\ Registered
    /\ IF hasInFlightRun
       THEN CancelBegins(c, "reload")
       ELSE call' = [call EXCEPT ![c] = [@ EXCEPT !.op = "reload", !.pc = "opening", !.gen = agents]]
    /\ NothingElse

(* requireSessionAgent again: the object may be another one by now, or none. *)
ReloadProceeds(c) ==
    /\ call[c].pc = "cancelled"
    /\ call[c].op = "reload"
    /\ call' = [call EXCEPT ![c] = [@ EXCEPT !.gen = agents,
                                             !.pc = IF Registered THEN "opening" ELSE "done"]]
    /\ NothingElse

(* ensureAgentLoaded: an unloaded agent, at most one initialization in flight. *)
ResumeAgent(c) ==
    /\ call[c].pc = "none"
    /\ "resume" \in Ops[c]
    /\ ~Registered
    /\ \A d \in Call : call[d].op = "resume" => call[d].pc = "done"
    /\ call' = [call EXCEPT ![c] = [@ EXCEPT !.op = "resume", !.pc = "opening"]]
    /\ NothingElse

SessionOpenFails(c) ==
    /\ call[c].pc = "opening"
    /\ MoveTo(c, "done")
    /\ NothingElse

(* The new session is open: drop the old object, settle its waiters and the pending run. *)
ReloadSwaps(c) ==
    /\ call[c].pc = "opening"
    /\ call[c].op = "reload"
    /\ agents' = NoGen
    /\ LET g == call[c].gen IN
       /\ settled' = settled \cup object[g].foregroundTurnWaiters
       /\ object' = [object EXCEPT ![g] = detached(@)]
    /\ pendingRun' = None
    /\ MoveTo(c, "closing_old")
    /\ UNCHANGED <<nextGen, timeline, tail, notify, inbox, provider, sent>>

(* registerSession: the id must be free now; it is set only after more       *)
(* awaits.  A reload from disk has just deleted the timeline.                *)
RegisterChecks(c) ==
    /\ \/ call[c].pc = "closing_old" /\ timeline' \in {timeline, FALSE}
       \/ call[c].pc = "opening" /\ call[c].op = "resume" /\ UNCHANGED timeline
    /\ MoveTo(c, IF Registered THEN "done" ELSE "registering")
    /\ UNCHANGED <<agents, object, nextGen, pendingRun, settled, tail, notify, inbox, provider,
                   sent>>

RegisterSets(c) ==
    /\ call[c].pc = "registering"
    /\ nextGen <= MaxGen
    /\ \E err \in (IF call[c].op = "reload" THEN BOOLEAN ELSE {FALSE}) :
           object' = [object EXCEPT ![nextGen] = registeredAgent(err)]
    /\ agents' = nextGen
    /\ nextGen' = nextGen + 1
    /\ timeline' = TRUE
    /\ call' = [call EXCEPT ![c] = [@ EXCEPT !.gen = nextGen, !.pc = "settling"]]
    /\ UNCHANGED <<pendingRun, settled, tail, notify, inbox, provider, sent>>

RegisterCompletes(c) ==
    /\ call[c].pc = "settling"
    /\ object' = [object EXCEPT ![call[c].gen] = registrationComplete(@)]
    /\ MoveTo(c, "done")
    /\ UNCHANGED <<agents, nextGen, timeline, pendingRun, settled, tail, notify, inbox, provider, sent>>

-----------------------------------------------------------------------------
(* Provider events and their delivery. *)

(* An unsubscribed session's events reach nobody. *)
Send(g, ev) ==
    /\ sent < MaxEvents
    /\ sent' = sent + 1
    /\ object[g].subscribed
    /\ Len(tail) < MaxTail
    /\ tail' = Append(tail, ev)
    /\ UNCHANGED <<agents, object, nextGen, timeline, pendingRun, settled, notify, inbox, call>>

ProviderStartsTurn(c) ==
    /\ provider[c] = "opened"
    /\ provider' = [provider EXCEPT ![c] = "started"]
    /\ Send(call[c].gen, [type |-> "turn_started", turn |-> c])

(* Also before startTurn has resolved, and again for a turn already ended. *)
ProviderEndsTurn(c) ==
    /\ provider[c] # "closed"
    /\ provider' = [provider EXCEPT ![c] = "ended"]
    /\ \E type \in TerminalType : Send(call[c].gen, [type |-> type, turn |-> c])

(* Events outside any foreground turn. *)
ProviderActsAutonomously ==
    /\ \E g \in Gen, type \in EventType : Send(g, [type |-> type, turn |-> None])
    /\ UNCHANGED provider

(* The queue belongs to the id: an event goes to the object current when it is dequeued. *)
DequeueSessionEvent ==
    /\ tail # <<>>
    /\ notify = {}
    /\ tail' = Tail(tail)
    /\ IF Registered
       THEN dispatchSessionEvent(agents, Head(tail))
       ELSE UNCHANGED <<object, notify>>
    /\ UNCHANGED <<agents, nextGen, timeline, pendingRun, settled, inbox, call, provider, sent>>

NotifyWaiter ==
    \E n \in notify :
        /\ notify' = notify \ {n}
        /\ inbox' = [inbox EXCEPT ![n[1]] = IF n[2] THEN "terminal"
                                            ELSE IF @ = "empty" THEN "event" ELSE @]
        /\ settled' = IF n[2] THEN settled \cup {n[1]} ELSE settled
        /\ UNCHANGED <<agents, object, nextGen, timeline, pendingRun, tail, call, provider, sent>>

-----------------------------------------------------------------------------

RunStep(c) ==
    StreamEnds(c) \/ StreamContinues(c)

CancelStep(c) ==
    \/ InterruptReturns(c) \/ WaiterSettled(c) \/ IdleSeen(c) \/ PendingSettled(c)
    \/ CancelTimesOut(c) \/ ForceCancel(c) \/ NothingToForce(c) \/ StaleRunSettled(c)
    \/ CancelReturns(c) \/ ReplacementStarts(c) \/ ReplacementRejected(c) \/ ReloadProceeds(c)

RegisterStep(c) ==
    \/ CloseReturns(c)
    \/ SessionOpenFails(c) \/ ReloadSwaps(c) \/ RegisterChecks(c) \/ RegisterSets(c)
    \/ RegisterCompletes(c)

ApiCall(c) ==
    \/ StreamAgent(c) \/ ReplaceAgentRun(c) \/ CancelAgentRun(c)
    \/ CloseAgent(c) \/ ReloadAgentSession(c) \/ ResumeAgent(c)

ProviderStep(c) ==
    \/ StartTurnResolves(c) \/ StartTurnFails(c) \/ StartTurnFailsUnrecorded(c)
    \/ ProviderStartsTurn(c) \/ ProviderEndsTurn(c)

Delivery == DequeueSessionEvent \/ NotifyWaiter

Next ==
    \/ \E c \in Call : ApiCall(c) \/ RunStep(c) \/ CancelStep(c) \/ RegisterStep(c) \/ ProviderStep(c)
    \/ Delivery
    \/ ProviderActsAutonomously

Spec == Init /\ [][Next]_vars

(* The event loop runs every promise job and every timer; it forces no API  *)
(* call and nothing of the provider (interrupt() is raced with a timer).    *)
Fairness ==
    /\ WF_vars(Delivery)
    /\ \A c \in Call : WF_vars(RunStep(c)) /\ WF_vars(CancelStep(c))

FairSpec == Spec /\ Fairness

-----------------------------------------------------------------------------
(* Safety. *)

InRun(c) == call[c].pc \in {"starting", "streaming"}
Live(c) == InRun(c) /\ call[c].gen = agents

(* Two generators never run a turn on the registered agent at once, however  *)
(* cancels, replacements, timeouts and late startTurn answers interleave:    *)
(* the pending-run token a live run holds until its finally block keeps      *)
(* every streamAgent out (agent-manager.ts:1499).                            *)
OneRunPerAgent ==
    \A c, d \in Call : Live(c) /\ Live(d) => c = d

(* The stream of a run on the registered object can be ended: its terminal   *)
(* event has reached it or is about to, or its turn is the active one and    *)
(* its waiter is in place for an event, or a cancel, to settle.              *)
CanBeEnded(c) ==
    \/ inbox[c] = "terminal"
    \/ <<c, TRUE>> \in notify
    \/ /\ current.activeForegroundTurnId = c
       /\ c \in current.foregroundTurnWaiters \ settled

(* The stream of a run on the registered agent can always still be ended,    *)
(* however terminal events, forced cancels, closes and reloads fall.         *)
StreamReachable ==
    \A c \in Call : call[c].pc = "streaming" /\ call[c].gen = agents => CanBeEnded(c)

(* A leaked pending-run token makes every later streamAgent of the id throw  *)
(* "already has an active run" until a close or a reload.  It leaks in two   *)
(* ways only: a startTurn that fails while the timeline is missing           *)
(* (agent-manager.ts:1528), and a run whose object a second registration of  *)
(* the id has overwritten.  Otherwise the token is that of a run on the      *)
(* registered agent that awaits startTurn or whose stream can be ended, and  *)
(* it never outlives the agent.                                              *)
PendingRunOwned ==
    pendingRun # None =>
        /\ Registered
        /\ timeline /\ call[pendingRun].gen = agents =>
              \/ call[pendingRun].pc = "starting"
              \/ call[pendingRun].pc = "streaming" /\ CanBeEnded(pendingRun)

(* The active turn is never one the agent remembers as finalized: its own    *)
(* terminal event, and the turn_canceled that cancelAgentRun forces, would   *)
(* be dropped as duplicates (agent-manager.ts:2641) and the turn never end.  *)
ActiveNotFinalized ==
    Registered /\ current.activeForegroundTurnId # None =>
        ~hasFinalizedTurn(current, current.activeForegroundTurnId)

(* A registered agent's turn stops being active only by being finalized      *)
(* under its own id: neither another run's failed start, nor a late event    *)
(* of another turn, nor a new run takes it down.                             *)
TurnEndsOnlyFinalized ==
    [][\A t \in Turn :
          /\ Registered /\ agents' = agents
          /\ current.activeForegroundTurnId = t
          /\ current'.activeForegroundTurnId # t
          => hasFinalizedTurn(current', t)]_vars

(* While a replacement is cancelling the old run or starting its own, no     *)
(* step leaves the agent idle: subscribers would see a finished run          *)
(* (agent-manager.test.ts:2548).                                             *)
NoIdleDuringReplacement ==
    [][\A c \in Call :
          /\ call[c].op = "replace" /\ call'[c].op = "replace"
          /\ {call[c].pc, call'[c].pc} \subseteq AwaitInCancel \cup {"starting"}
          /\ Registered /\ agents' = agents
          => current'.lifecycle # "idle"]_vars

(* A settled waiter means its stream has been, or is being, woken            *)
(* (agent-manager.ts:1846).                                                  *)
SettledWaiterWakesStream ==
    \A c \in settled : call[c].pc = "streaming" => inbox[c] # "empty"

(* The inductive strengthening the proofs use.  A generation is handed out  *)
(* once, and a call that uses a captured agent object has one;              *)
HoldsObject(c) ==
    \/ call[c].pc \in AwaitInCancel \cup {"starting", "streaming"}
    \/ call[c].pc = "opening" /\ call[c].op = "reload"

Generations ==
    /\ agents < nextGen
    /\ \A c \in Call : /\ call[c].gen < nextGen
                       /\ HoldsObject(c) => call[c].gen # NoGen

(* a run on the registered agent is the one that holds the token; and the   *)
(* token is that of a run in progress, or one of the two leaks.             *)
LiveRunHoldsToken ==
    \A c \in Call : Live(c) => pendingRun = c

TokenHeld ==
    pendingRun # None =>
        /\ Registered
        /\ \/ InRun(pendingRun)
           \/ /\ call[pendingRun].pc = "done"
              /\ timeline => call[pendingRun].gen # agents

IInv == TypeOK /\ Generations /\ LiveRunHoldsToken /\ TokenHeld

-----------------------------------------------------------------------------
(* Liveness. *)

(* A cancel, also the one inside a replacement, always comes to an end, even *)
(* when the provider answers neither interrupt() nor with a terminal event.  *)
CancelTerminates ==
    \A c \in Call : call[c].pc \in AwaitInCancel ~> call[c].pc \notin AwaitInCancel

(* Cancelling an active turn ends the stream its caller drains.              *)
CancelEndsStream ==
    \A c, t \in Call :
        (call[c].pc = "interrupting" /\ call[c].fg = t) ~> (call[t].pc = "done")

=============================================================================
