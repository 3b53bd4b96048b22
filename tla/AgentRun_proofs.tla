---------------------------- MODULE AgentRun_proofs ----------------------------
(***************************************************************************)
(* Theorems about AgentRun for any number of calls, any operations and any *)
(* bounds: type correctness, and that the pending-run token excludes two   *)
(* runs on the registered agent.                                           *)
(***************************************************************************)
EXTENDS AgentRun, TLAPS

(* Handling an event keeps an agent object well-formed. *)
LEMMA RememberType ==
    ASSUME NEW a \in Agent, NEW t \in Turn
    PROVE  rememberFinalizedTurn(a, t) \in Seq(Turn)
<1>1. a.finalizedForegroundTurnIds \in Seq(Turn)
  BY DEF Agent
<1> DEFINE grown == IF hasFinalizedTurn(a, t) THEN a.finalizedForegroundTurnIds
                    ELSE Append(a.finalizedForegroundTurnIds, t)
<1>2. grown \in Seq(Turn)
  BY <1>1
<1>3. Len(grown) > FinalizedCap => grown # <<>>
  BY <1>2, CapAssumption
<1>4. Len(grown) > FinalizedCap => Tail(grown) \in Seq(Turn)
  BY <1>2, <1>3
<1>5. QED
  BY <1>2, <1>4 DEF rememberFinalizedTurn

LEMMA FinalizeType ==
    ASSUME NEW a \in Agent, NEW t \in Turn \cup {None}
    PROVE  finalizeForegroundTurn(a, t) \in Agent
<1>1. t # None => rememberFinalizedTurn(a, t) \in Seq(Turn)
  BY RememberType
<1>2. lifecycleAfterTurn(a) \in Lifecycle
  BY DEF lifecycleAfterTurn, Lifecycle
<1>3. QED
  BY <1>1, <1>2 DEF finalizeForegroundTurn, Agent

LEMMA DispatchType ==
    ASSUME NEW a \in Agent, NEW ev \in Event
    PROVE  dispatchStreamEventByType(a, ev) \in Agent
<1>1. onStreamTurnStarted(a, ev) \in Agent
  BY DEF onStreamTurnStarted, Agent, Lifecycle
<1>2. onStreamTurnCompleted(a, ev) \in Agent
  BY DEF onStreamTurnCompleted, Agent, Lifecycle
<1>3. onStreamTurnFailed(a, ev) \in Agent
  BY DEF onStreamTurnFailed, Agent, Lifecycle
<1>4. onStreamTurnCanceled(a, ev) \in Agent
  BY DEF onStreamTurnCanceled, Agent, Lifecycle
<1>5. ev.type \in {"turn_started", "turn_completed", "turn_failed", "turn_canceled"}
  BY DEF Event, EventType, TerminalType
<1>6. QED
  BY <1>1, <1>2, <1>3, <1>4, <1>5 DEF dispatchStreamEventByType

LEMMA HandleType ==
    ASSUME NEW a \in Agent, NEW ev \in Event
    PROVE  handleStreamEvent(a, ev) \in Agent
<1>1. ev.turn \in Turn \cup {None}
  BY DEF Event
<1>2. dispatchStreamEventByType(a, ev) \in Agent
  BY DispatchType
<1>3. finalizeForegroundTurn(dispatchStreamEventByType(a, ev), ev.turn) \in Agent
  BY <1>1, <1>2, FinalizeType
<1>4. QED
  BY <1>2, <1>3 DEF handleStreamEvent

LEMMA AfterEventType ==
    ASSUME NEW a \in Agent, NEW ev \in Event
    PROVE  afterEvent(a, ev) \in Agent
<1>1. onStreamTurnFailed(a, ev) \in Agent
  BY DEF onStreamTurnFailed, Agent, Lifecycle
<1>2. QED
  BY <1>1, HandleType DEF afterEvent

(* So does every other update an action makes to one. *)
LEMMA AgentUpdates ==
    ASSUME NEW a \in Agent, NEW t \in Turn
    PROVE  /\ runRequested(a) \in Agent
           /\ turnActive(a, t) \in Agent
           /\ replaceRunCatch(a) \in Agent
           /\ deleteWaiter(a, t) \in Agent
           /\ replacementRequested(a) \in Agent
           /\ detached(a) \in Agent
           /\ registrationComplete(a) \in Agent
<1>1. runRequested(a) \in Agent
  BY DEF runRequested, Agent
<1>2. turnActive(a, t) \in Agent
  BY DEF turnActive, Agent, Lifecycle
<1>3. replaceRunCatch(a) \in Agent
  BY DEF replaceRunCatch, Agent, Lifecycle
<1>4. deleteWaiter(a, t) \in Agent
  BY DEF deleteWaiter, Agent
<1>5. replacementRequested(a) \in Agent
  BY DEF replacementRequested, Agent, Lifecycle
<1>6. detached(a) \in Agent
  BY DEF detached, Agent
<1>7. registrationComplete(a) \in Agent
  BY DEF registrationComplete, Agent, Lifecycle
<1>8. QED
  BY <1>1, <1>2, <1>3, <1>4, <1>5, <1>6, <1>7

LEMMA RegisteredType ==
    ASSUME NEW err \in BOOLEAN
    PROVE  registeredAgent(err) \in Agent
<1>1. <<>> \in Seq(Turn)
  OBVIOUS
<1>2. QED
  BY <1>1 DEF registeredAgent, Agent, Lifecycle

-----------------------------------------------------------------------------

(* The tables stay well-formed when one entry is replaced by a well-formed one. *)
LEMMA ObjectUpdate ==
    ASSUME TypeOK, NEW g, NEW a, g \in Gen => a \in Agent
    PROVE  [object EXCEPT ![g] = a] \in [Gen -> Agent]
BY DEF TypeOK

LEMMA CallUpdate ==
    ASSUME TypeOK, NEW c \in Call, NEW r \in CallState
    PROVE  [call EXCEPT ![c] = r] \in [Call -> CallState]
BY DEF TypeOK

LEMMA CallFields ==
    ASSUME TypeOK, NEW c \in Call
    PROVE  /\ call[c] \in CallState
           /\ call[c].gen \in Gen \cup {NoGen}
           /\ call[c].pr \in Call \cup {None}
           /\ call[c].gen \in Gen => object[call[c].gen] \in Agent
BY DEF TypeOK, CallState

LEMMA MoveType ==
    ASSUME TypeOK, NEW c \in Call, NEW pc \in Pc, MoveTo(c, pc)
    PROVE  call' \in [Call -> CallState]
<1>1. [call[c] EXCEPT !.pc = pc] \in CallState
  BY CallFields DEF CallState
<1>2. QED
  BY <1>1, CallUpdate DEF MoveTo

LEMMA LeaveType ==
    ASSUME TypeOK, NEW c \in Call, NEW pc \in Pc, Leave(c, pc)
    PROVE  call' \in [Call -> CallState]
<1>1. [call[c] EXCEPT !.pc = pc, !.fg = None, !.pr = None] \in CallState
  BY CallFields DEF CallState
<1>2. QED
  BY <1>1, CallUpdate DEF Leave

LEMMA CancelBeginsType ==
    ASSUME TypeOK, NEW c \in Call, NEW op \in Operation, Registered, CancelBegins(c, op)
    PROVE  call' \in [Call -> CallState]
<1>1. agents \in Gen /\ object[agents] \in Agent
  BY DEF Registered, TypeOK
<1>2. object[agents].activeForegroundTurnId \in Turn \cup {None}
  BY <1>1 DEF Agent
<1>3. pendingRun \in Call \cup {None}
  BY DEF TypeOK
<1>4. [op |-> op, pc |-> "interrupting", gen |-> agents,
       fg |-> object[agents].activeForegroundTurnId, pr |-> pendingRun] \in CallState
  BY <1>1, <1>2, <1>3 DEF CallState, Pc, AwaitInCancel
<1>5. QED
  BY <1>4, CallUpdate DEF CancelBegins, current

(* Dispatching an event keeps the object table and the notifications well-formed. *)
LEMMA DispatchSessionType ==
    ASSUME TypeOK, NEW g \in Gen, NEW ev \in Event, dispatchSessionEvent(g, ev)
    PROVE  object' \in [Gen -> Agent] /\ notify' \in SUBSET (Turn \X BOOLEAN)
<1>1. object[g] \in Agent
  BY DEF TypeOK
<1>2. afterEvent(object[g], ev) \in Agent
  BY <1>1, AfterEventType
<1>3. object' \in [Gen -> Agent]
  BY <1>2, ObjectUpdate DEF dispatchSessionEvent
<1>4. getMatchingWaiters(object[g], ev.turn) \subseteq Turn
  BY <1>1 DEF getMatchingWaiters, Agent
<1>5. isTurnTerminalEvent(ev) \in BOOLEAN
  BY DEF isTurnTerminalEvent
<1>6. notify' \subseteq Turn \X BOOLEAN
  BY <1>4, <1>5 DEF dispatchSessionEvent, TypeOK
<1>7. QED
  BY <1>3, <1>6

LEMMA BeginRunType ==
    ASSUME TypeOK, NEW c \in Call, NEW op \in Operation, BeginRun(c, op)
    PROVE  TypeOK'
<1>1. agents \in Gen /\ object[agents] \in Agent
  BY DEF BeginRun, canStream, Registered, TypeOK
<1>2. object' \in [Gen -> Agent]
  <2>1. runRequested(object[agents]) \in Agent
    BY <1>1 DEF runRequested, Agent
  <2>2. QED
    BY <2>1, ObjectUpdate DEF BeginRun
<1>3. call' \in [Call -> CallState]
  <2>1. [call[c] EXCEPT !.op = op, !.pc = "starting", !.gen = agents] \in CallState
    BY <1>1, CallFields DEF CallState, Pc
  <2>2. QED
    BY <2>1, CallUpdate DEF BeginRun
<1>4. provider' \in [Call -> {"closed", "opened", "started", "ended"}]
  BY DEF BeginRun, TypeOK
<1>5. pendingRun' \in Call \cup {None}
  BY DEF BeginRun
<1>6. QED
  BY <1>2, <1>3, <1>4, <1>5 DEF BeginRun, TypeOK

LEMMA CatchType ==
    ASSUME TypeOK, NEW c \in Call, NEW objects \in [Gen -> Agent]
    PROVE  afterRunError(c, objects) \in [Gen -> Agent]
<1>1. ASSUME NEW a \in Agent PROVE replaceRunCatch(a) \in Agent
  BY <1>1 DEF replaceRunCatch, Agent, Lifecycle
<1>2. CASE call[c].op = "replace" /\ Registered
  <2>1. agents \in Gen
    BY <1>2 DEF Registered, TypeOK
  <2>2. replaceRunCatch(objects[agents]) \in Agent
    BY <1>1, <2>1
  <2>3. QED
    BY <1>2, <2>1, <2>2 DEF afterRunError
<1>3. CASE ~(call[c].op = "replace" /\ Registered)
  BY <1>3 DEF afterRunError
<1>4. QED
  BY <1>2, <1>3

-----------------------------------------------------------------------------
(* Type correctness. *)

LEMMA InitType == Init => TypeOK
<1> SUFFICES ASSUME Init PROVE TypeOK
  OBVIOUS
<1>1. registeredAgent(FALSE) \in Agent
  BY RegisteredType
<1>2. registrationComplete(registeredAgent(FALSE)) \in Agent
  BY <1>1 DEF registrationComplete, Agent, Lifecycle
<1>3. object \in [Gen -> Agent]
  BY <1>1, <1>2 DEF Init
<1>4. call \in [Call -> CallState]
  BY DEF Init, CallState, Pc
<1>5. agents \in Gen /\ nextGen \in 1..(MaxGen + 1) /\ sent \in 0..MaxEvents
  BY BoundsAssumption DEF Init, Gen
<1>6. tail \in Seq(Event)
  BY DEF Init
<1>7. QED
  BY <1>3, <1>4, <1>5, <1>6 DEF Init, TypeOK

(* A step that only moves one call. *)
LEMMA OnlyCallType ==
    ASSUME TypeOK, call' \in [Call -> CallState], NothingElse
    PROVE  TypeOK'
BY DEF TypeOK, NothingElse

LEMMA ApiCallType ==
    ASSUME TypeOK, NEW c \in Call, ApiCall(c)
    PROVE  TypeOK'
<1> USE DEF Operation
<1>1. CASE StreamAgent(c)
  BY <1>1, BeginRunType DEF StreamAgent
<1>2. CASE ReplaceAgentRun(c)
  <2>1. agents \in Gen /\ object[agents] \in Agent
    BY <1>2 DEF ReplaceAgentRun, hasInFlightRun, Registered, TypeOK
  <2>2. replacementRequested(object[agents]) \in Agent
    BY <2>1 DEF replacementRequested, Agent, Lifecycle
  <2>3. object' \in [Gen -> Agent]
    BY <1>2, <2>2, ObjectUpdate DEF ReplaceAgentRun
  <2>4. call' \in [Call -> CallState]
    BY <1>2, CancelBeginsType DEF ReplaceAgentRun, hasInFlightRun
  <2>5. QED
    BY <1>2, <2>3, <2>4 DEF ReplaceAgentRun, TypeOK
<1>3. CASE CancelAgentRun(c)
  <2>1. call' \in [Call -> CallState]
    BY <1>3, CancelBeginsType DEF CancelAgentRun, hasInFlightRun
  <2>2. QED
    BY <1>3, <2>1 DEF CancelAgentRun, TypeOK
<1>4. CASE CloseAgent(c)
  <2>1. agents \in Gen /\ object[agents] \in Agent
    BY <1>4 DEF CloseAgent, Registered, TypeOK
  <2>2. detached(object[agents]) \in Agent
    BY <2>1 DEF detached, Agent
  <2>3. object' \in [Gen -> Agent]
    BY <1>4, <2>2, ObjectUpdate DEF CloseAgent
  <2>4. object[agents].foregroundTurnWaiters \subseteq Turn
    BY <2>1 DEF Agent
  <2>5. settled' \subseteq Turn
    BY <1>4, <2>4 DEF CloseAgent, current, TypeOK
  <2>6. inbox' \in [Call -> {"empty", "event", "terminal"}]
    BY <1>4 DEF CloseAgent, TypeOK
  <2>7. call' \in [Call -> CallState]
    <3>1. [call[c] EXCEPT !.op = "close", !.pc = "closing"] \in CallState
      BY CallFields DEF CallState, Pc
    <3>2. QED
      BY <1>4, <3>1, CallUpdate DEF CloseAgent
  <2>8. QED
    BY <1>4, <2>3, <2>5, <2>6, <2>7 DEF CloseAgent, TypeOK
<1>5. CASE ReloadAgentSession(c)
  <2>1. CASE hasInFlightRun
    BY <1>5, <2>1, CancelBeginsType, OnlyCallType DEF ReloadAgentSession
  <2>2. CASE ~hasInFlightRun
    <3>1. agents \in Gen
      BY <1>5 DEF ReloadAgentSession, Registered, TypeOK
    <3>2. [call[c] EXCEPT !.op = "reload", !.pc = "opening", !.gen = agents] \in CallState
      BY <3>1, CallFields DEF CallState, Pc, AwaitInRegister
    <3>3. QED
      BY <1>5, <2>2, <3>2, CallUpdate, OnlyCallType DEF ReloadAgentSession
  <2>3. QED
    BY <2>1, <2>2
<1>6. CASE ResumeAgent(c)
  <2>1. [call[c] EXCEPT !.op = "resume", !.pc = "opening"] \in CallState
    BY CallFields DEF CallState, Pc, AwaitInRegister
  <2>2. QED
    BY <1>6, <2>1, CallUpdate, OnlyCallType DEF ResumeAgent
<1>7. QED
  BY <1>1, <1>2, <1>3, <1>4, <1>5, <1>6 DEF ApiCall

LEMMA RunStepType ==
    ASSUME TypeOK, NEW c \in Call, RunStep(c)
    PROVE  TypeOK'
<1>1. CASE StreamEnds(c)
  <2>1. ASSUME call[c].gen \in Gen
        PROVE  deleteWaiter(object[call[c].gen], c) \in Agent
    BY <2>1, CallFields DEF deleteWaiter, Agent
  <2>2. object' \in [Gen -> Agent]
    BY <1>1, <2>1, ObjectUpdate DEF StreamEnds
  <2>3. call' \in [Call -> CallState]
    <3>1. [call[c] EXCEPT !.pc = "done"] \in CallState
      BY CallFields DEF CallState, Pc
    <3>2. QED
      BY <1>1, <3>1, CallUpdate DEF StreamEnds
  <2>4. settled' \subseteq Turn
    BY <1>1 DEF StreamEnds, TypeOK, Call
  <2>5. QED
    BY <1>1, <2>2, <2>3, <2>4 DEF StreamEnds, settlePendingRun, TypeOK
<1>2. CASE StreamContinues(c)
  BY <1>2 DEF StreamContinues, TypeOK
<1>3. QED
  BY <1>1, <1>2 DEF RunStep

LEMMA ProviderStepType ==
    ASSUME TypeOK, NEW c \in Call, ProviderStep(c)
    PROVE  TypeOK'
<1>0. [call[c] EXCEPT !.pc = "done"] \in CallState /\ [call[c] EXCEPT !.pc = "streaming"] \in CallState
  BY CallFields DEF CallState, Pc
<1>1. CASE StartTurnResolves(c)
  <2>1. ASSUME call[c].gen \in Gen
        PROVE  turnActive(object[call[c].gen], c) \in Agent
    BY <2>1, CallFields DEF turnActive, Agent, Lifecycle, Call
  <2>2. object' \in [Gen -> Agent]
    BY <1>1, <2>1, ObjectUpdate DEF StartTurnResolves
  <2>3. call' \in [Call -> CallState]
    BY <1>0, <1>1, CallUpdate DEF StartTurnResolves
  <2>4. QED
    BY <1>1, <2>2, <2>3 DEF StartTurnResolves, TypeOK
<1>2. CASE StartTurnFails(c)
  <2> DEFINE g == call[c].gen
             failed == finalizeForegroundTurn(handleStreamEvent(object[g], startFailedEvent), None)
  <2>1. startFailedEvent \in Event
    BY DEF startFailedEvent, Event, EventType, TerminalType
  <2>2. ASSUME g \in Gen PROVE failed \in Agent
    <3>1. handleStreamEvent(object[g], startFailedEvent) \in Agent
      BY <2>1, <2>2, CallFields, HandleType
    <3>2. QED
      BY <3>1, FinalizeType
  <2>3. [object EXCEPT ![g] = failed] \in [Gen -> Agent]
    BY <2>2, ObjectUpdate
  <2>4. object' \in [Gen -> Agent]
    BY <1>2, <2>3, CatchType DEF StartTurnFails
  <2>5. call' \in [Call -> CallState]
    BY <1>0, <1>2, CallUpdate DEF StartTurnFails
  <2>6. QED
    BY <1>2, <2>4, <2>5 DEF StartTurnFails, settlePendingRun, TypeOK
<1>3. CASE StartTurnFailsUnrecorded(c)
  <2> DEFINE g == call[c].gen
             failed == onStreamTurnFailed(object[g], startFailedEvent)
  <2>1. ASSUME g \in Gen PROVE failed \in Agent
    BY <2>1, CallFields DEF onStreamTurnFailed, Agent, Lifecycle
  <2>2. [object EXCEPT ![g] = failed] \in [Gen -> Agent]
    BY <2>1, ObjectUpdate
  <2>3. object' \in [Gen -> Agent]
    BY <1>3, <2>2, CatchType DEF StartTurnFailsUnrecorded
  <2>4. call' \in [Call -> CallState]
    BY <1>0, <1>3, CallUpdate DEF StartTurnFailsUnrecorded
  <2>5. QED
    BY <1>3, <2>3, <2>4 DEF StartTurnFailsUnrecorded, TypeOK
<1>4. CASE ProviderStartsTurn(c)
  <2>1. [type |-> "turn_started", turn |-> c] \in Event
    BY DEF Event, EventType, Call
  <2>2. QED
    BY <1>4, <2>1, BoundsAssumption DEF ProviderStartsTurn, Send, TypeOK
<1>5. CASE ProviderEndsTurn(c)
  <2>1. PICK type \in TerminalType : Send(call[c].gen, [type |-> type, turn |-> c])
    BY <1>5 DEF ProviderEndsTurn
  <2>2. [type |-> type, turn |-> c] \in Event
    BY DEF Event, EventType, Call
  <2>3. QED
    BY <1>5, <2>1, <2>2, BoundsAssumption DEF ProviderEndsTurn, Send, TypeOK
<1>6. QED
  BY <1>1, <1>2, <1>3, <1>4, <1>5 DEF ProviderStep

LEMMA CancelStepType ==
    ASSUME TypeOK, Generations, NEW c \in Call, CancelStep(c)
    PROVE  TypeOK'
<1> USE DEF Pc, AwaitInCancel, AwaitInRegister
<1>0. afterTurnWait(c) \in Pc
  BY DEF afterTurnWait
<1>1. CASE InterruptReturns(c)
  BY <1>0, <1>1, MoveType, OnlyCallType DEF InterruptReturns
<1>2. CASE WaiterSettled(c)
  BY <1>0, <1>2, MoveType, OnlyCallType DEF WaiterSettled
<1>3. CASE IdleSeen(c)
  BY <1>0, <1>3, MoveType, OnlyCallType DEF IdleSeen
<1>4. CASE PendingSettled(c)
  BY <1>4, MoveType, OnlyCallType DEF PendingSettled
<1>5. CASE CancelTimesOut(c)
  BY <1>5, MoveType, OnlyCallType DEF CancelTimesOut
<1>6. CASE ForceCancel(c)
  <2> DEFINE g == call[c].gen
  <2>1. call[c].fg \in Turn
    BY <1>6, CallFields DEF ForceCancel, CallState
  <2>2. [type |-> "turn_canceled", turn |-> call[c].fg] \in Event
    BY <2>1 DEF Event, EventType, TerminalType
  <2>3. call' \in [Call -> CallState]
    <3>1. [call[c] EXCEPT !.fg = None, !.pr = pendingRun,
                          !.pc = IF pendingRun = None THEN "cancelled" ELSE "await_stale"]
            \in CallState
      <4>1. pendingRun \in Call \cup {None}
        BY DEF TypeOK
      <4>2. QED
        BY <4>1, CallFields DEF CallState
    <3>2. QED
      BY <1>6, <3>1, CallUpdate DEF ForceCancel
  <2>4. object' \in [Gen -> Agent] /\ notify' \in SUBSET (Turn \X BOOLEAN)
    <3>1. g \in Gen
      BY <1>6, CallFields DEF ForceCancel, Generations, HoldsObject
    <3>2. QED
      BY <1>6, <2>2, <3>1, DispatchSessionType DEF ForceCancel
  <2>5. QED
    BY <1>6, <2>3, <2>4 DEF ForceCancel, TypeOK
<1>7. CASE NothingToForce(c)
  BY <1>7, LeaveType, OnlyCallType DEF NothingToForce
<1>8. CASE StaleRunSettled(c)
  BY <1>8, LeaveType, MoveType, OnlyCallType DEF StaleRunSettled
<1>9. CASE CancelReturns(c)
  BY <1>9, MoveType, OnlyCallType DEF CancelReturns
<1>10. CASE ReplacementStarts(c)
  BY <1>10, BeginRunType DEF ReplacementStarts, Operation
<1>11. CASE ReplacementRejected(c)
  <2>1. object' \in [Gen -> Agent]
    BY <1>11, CatchType DEF ReplacementRejected, TypeOK
  <2>2. call' \in [Call -> CallState]
    BY <1>11, MoveType DEF ReplacementRejected
  <2>3. QED
    BY <1>11, <2>1, <2>2 DEF ReplacementRejected, TypeOK
<1>12. CASE ReloadProceeds(c)
  <2>1. [call[c] EXCEPT !.gen = agents, !.pc = IF Registered THEN "opening" ELSE "done"]
          \in CallState
    <3>1. agents \in Gen \cup {NoGen}
      BY DEF TypeOK
    <3>2. QED
      BY <3>1, CallFields DEF CallState
  <2>2. QED
    BY <1>12, <2>1, CallUpdate, OnlyCallType DEF ReloadProceeds
<1>13. QED
  BY <1>1, <1>2, <1>3, <1>4, <1>5, <1>6, <1>7, <1>8, <1>9, <1>10, <1>11, <1>12 DEF CancelStep

LEMMA RegisterStepType ==
    ASSUME TypeOK, Generations, NEW c \in Call, RegisterStep(c)
    PROVE  TypeOK'
<1> USE DEF Pc, AwaitInCancel, AwaitInRegister
<1>1. CASE SessionOpenFails(c)
  BY <1>1, MoveType, OnlyCallType DEF SessionOpenFails
<1>2. CASE ReloadSwaps(c)
  <2> DEFINE g == call[c].gen
  <2>1. g \in Gen /\ object[g] \in Agent
    BY <1>2, CallFields DEF ReloadSwaps, Generations, HoldsObject
  <2>2. object' \in [Gen -> Agent]
    <3>1. detached(object[g]) \in Agent
      BY <2>1 DEF detached, Agent
    <3>2. QED
      BY <1>2, <3>1, ObjectUpdate DEF ReloadSwaps
  <2>3. call' \in [Call -> CallState]
    BY <1>2, MoveType DEF ReloadSwaps
  <2>4. settled' \subseteq Turn
    BY <1>2, <2>1 DEF ReloadSwaps, TypeOK, Agent
  <2>5. QED
    BY <1>2, <2>2, <2>3, <2>4 DEF ReloadSwaps, TypeOK
<1>3. CASE RegisterChecks(c)
  <2>1. call' \in [Call -> CallState]
    BY <1>3, MoveType DEF RegisterChecks
  <2>2. timeline' \in BOOLEAN
    BY <1>3 DEF RegisterChecks, TypeOK
  <2>3. QED
    BY <1>3, <2>1, <2>2 DEF RegisterChecks, TypeOK
<1>4. CASE RegisterSets(c)
  <2>1. nextGen \in Gen
    BY <1>4, BoundsAssumption DEF RegisterSets, TypeOK, Gen
  <2>2. object' \in [Gen -> Agent]
    <3>1. PICK err \in BOOLEAN : object' = [object EXCEPT ![nextGen] = registeredAgent(err)]
      BY <1>4 DEF RegisterSets
    <3>2. registeredAgent(err) \in Agent
      BY RegisteredType
    <3>3. QED
      BY <3>1, <3>2, ObjectUpdate
  <2>3. call' \in [Call -> CallState]
    <3>1. [call[c] EXCEPT !.gen = nextGen, !.pc = "settling"] \in CallState
      BY <2>1, CallFields DEF CallState
    <3>2. QED
      BY <1>4, <3>1, CallUpdate DEF RegisterSets
  <2>4. nextGen' \in 1..(MaxGen + 1)
    BY <1>4, BoundsAssumption DEF RegisterSets, TypeOK
  <2>5. QED
    BY <1>4, <2>1, <2>2, <2>3, <2>4 DEF RegisterSets, TypeOK
<1>5. CASE RegisterCompletes(c)
  <2> DEFINE g == call[c].gen
  <2>1. ASSUME g \in Gen PROVE registrationComplete(object[g]) \in Agent
    BY <2>1, CallFields DEF registrationComplete, Agent, Lifecycle
  <2>2. object' \in [Gen -> Agent]
    BY <1>5, <2>1, ObjectUpdate DEF RegisterCompletes
  <2>3. call' \in [Call -> CallState]
    BY <1>5, MoveType DEF RegisterCompletes
  <2>4. QED
    BY <1>5, <2>2, <2>3 DEF RegisterCompletes, TypeOK
<1>6. CASE CloseReturns(c)
  <2>1. call' \in [Call -> CallState]
    BY <1>6, MoveType DEF CloseReturns
  <2>2. timeline' \in BOOLEAN
    BY <1>6 DEF CloseReturns, TypeOK
  <2>3. QED
    BY <1>6, <2>1, <2>2 DEF CloseReturns, TypeOK
<1>7. QED
  BY <1>1, <1>2, <1>3, <1>4, <1>5, <1>6 DEF RegisterStep

LEMMA DeliveryType ==
    ASSUME TypeOK, Delivery
    PROVE  TypeOK'
<1>1. CASE DequeueSessionEvent
  <2>1. Head(tail) \in Event /\ tail' \in Seq(Event)
    BY <1>1 DEF DequeueSessionEvent, TypeOK
  <2>2. object' \in [Gen -> Agent] /\ notify' \in SUBSET (Turn \X BOOLEAN)
    <3>1. CASE Registered
      <4>1. agents \in Gen
        BY <3>1 DEF Registered, TypeOK
      <4>2. QED
        BY <1>1, <2>1, <3>1, <4>1, DispatchSessionType DEF DequeueSessionEvent
    <3>2. CASE ~Registered
      BY <1>1, <3>2 DEF DequeueSessionEvent, TypeOK
    <3>3. QED
      BY <3>1, <3>2
  <2>3. QED
    BY <1>1, <2>1, <2>2 DEF DequeueSessionEvent, TypeOK
<1>2. CASE NotifyWaiter
  <2>1. PICK n \in notify :
          /\ notify' = notify \ {n}
          /\ inbox' = [inbox EXCEPT ![n[1]] = IF n[2] THEN "terminal"
                                              ELSE IF @ = "empty" THEN "event" ELSE @]
          /\ settled' = IF n[2] THEN settled \cup {n[1]} ELSE settled
          /\ UNCHANGED <<agents, object, nextGen, timeline, pendingRun, tail, call, provider, sent>>
    BY <1>2 DEF NotifyWaiter
  <2>2. n[1] \in Turn
    BY DEF TypeOK
  <2>3. inbox' \in [Call -> {"empty", "event", "terminal"}]
    BY <2>1, <2>2 DEF TypeOK, Call
  <2>4. notify' \subseteq Turn \X BOOLEAN /\ settled' \subseteq Turn
    BY <2>1, <2>2 DEF TypeOK
  <2>5. QED
    BY <2>1, <2>3, <2>4 DEF TypeOK
<1>3. QED
  BY <1>1, <1>2 DEF Delivery

LEMMA AutonomousType ==
    ASSUME TypeOK, ProviderActsAutonomously
    PROVE  TypeOK'
<1>1. PICK g \in Gen, type \in EventType : Send(g, [type |-> type, turn |-> None])
  BY DEF ProviderActsAutonomously
<1>2. [type |-> type, turn |-> None] \in Event
  BY DEF Event
<1>3. QED
  BY <1>1, <1>2, BoundsAssumption DEF ProviderActsAutonomously, Send, TypeOK

LEMMA TypeStep ==
    ASSUME TypeOK, Generations, [Next]_vars
    PROVE  TypeOK'
<1>1. ASSUME NEW c \in Call, ApiCall(c) PROVE TypeOK'
  BY <1>1, ApiCallType
<1>2. ASSUME NEW c \in Call, RunStep(c) PROVE TypeOK'
  BY <1>2, RunStepType
<1>3. ASSUME NEW c \in Call, CancelStep(c) PROVE TypeOK'
  BY <1>3, CancelStepType
<1>4. ASSUME NEW c \in Call, RegisterStep(c) PROVE TypeOK'
  BY <1>4, RegisterStepType
<1>5. ASSUME NEW c \in Call, ProviderStep(c) PROVE TypeOK'
  BY <1>5, ProviderStepType
<1>6. CASE Delivery
  BY <1>6, DeliveryType
<1>7. CASE ProviderActsAutonomously
  BY <1>7, AutonomousType
<1>8. CASE UNCHANGED vars
  BY <1>8 DEF vars, TypeOK
<1>9. QED
  BY <1>1, <1>2, <1>3, <1>4, <1>5, <1>6, <1>7, <1>8 DEF Next

-----------------------------------------------------------------------------
(* The token excludes a second run. *)

(* What TokenHeld says, for the cases the proofs split on. *)
LEMMA HolderCases ==
    ASSUME TypeOK, TokenHeld, pendingRun # None
    PROVE  /\ pendingRun \in Call /\ Registered
           /\ call[pendingRun].pc \in {"starting", "streaming", "done"}
           /\ call[pendingRun].pc = "done" /\ timeline => call[pendingRun].gen # agents
BY DEF TokenHeld, InRun, TypeOK

RunInv == Generations /\ LiveRunHoldsToken /\ TokenHeld

LEMMA InitRunInv == Init => RunInv
BY DEF Init, RunInv, Generations, LiveRunHoldsToken, TokenHeld, HoldsObject, Live, InRun,
       AwaitInCancel, NoGen

(* A step that changes neither the map, the token nor a run keeps RunInv. *)
LEMMA OutsideRuns ==
    ASSUME TypeOK, RunInv, NEW c \in Call, NEW r \in CallState, ~InRun(c),
           call[c].pc # "done", timeline' => timeline,
           r.pc \notin {"starting", "streaming"}, r.gen < nextGen,
           r.pc \in AwaitInCancel \/ (r.pc = "opening" /\ r.op = "reload") => r.gen # NoGen,
           call' = [call EXCEPT ![c] = r], UNCHANGED <<agents, nextGen, pendingRun>>
    PROVE  RunInv'
<1>1. call'[c] = r /\ \A d \in Call \ {c} : call'[d] = call[d]
  BY DEF TypeOK
<1>2. Generations'
  BY <1>1 DEF RunInv, Generations, HoldsObject, InRun
<1>3. LiveRunHoldsToken'
  BY <1>1 DEF RunInv, LiveRunHoldsToken, Live, InRun
<1>4. TokenHeld'
  <2> SUFFICES ASSUME pendingRun # None PROVE TokenHeld'
    BY DEF TokenHeld
  <2>1. /\ pendingRun \in Call \ {c} /\ Registered
        /\ call[pendingRun].pc \in {"starting", "streaming", "done"}
        /\ call[pendingRun].pc = "done" /\ timeline => call[pendingRun].gen # agents
    BY HolderCases DEF RunInv, InRun
  <2>2. QED
    BY <1>1, <2>1 DEF TokenHeld, InRun, Registered
<1>5. QED
  BY <1>2, <1>3, <1>4 DEF RunInv

(* A step that touches no call, run or map entry. *)
LEMMA NoCallTouched ==
    ASSUME RunInv, UNCHANGED <<agents, nextGen, timeline, pendingRun, call>>
    PROVE  RunInv'
BY DEF RunInv, Generations, LiveRunHoldsToken, TokenHeld, HoldsObject, Live, InRun, Registered

LEMMA BeginRunInv ==
    ASSUME TypeOK, RunInv, NEW c \in Call, NEW op \in Operation, BeginRun(c, op), ~InRun(c)
    PROVE  RunInv'
<1>1. agents \in Gen /\ agents < nextGen /\ pendingRun = None
  BY DEF BeginRun, canStream, Registered, TypeOK, RunInv, Generations
<1>2. /\ call'[c].pc = "starting" /\ call'[c].gen = agents
      /\ \A d \in Call \ {c} : call'[d] = call[d]
      /\ agents' = agents /\ nextGen' = nextGen /\ pendingRun' = c
  BY CallFields DEF BeginRun, TypeOK, CallState
<1>3. \A d \in Call : ~Live(d)
  BY <1>1, NoneAssumption DEF RunInv, LiveRunHoldsToken, Call
<1>4. Generations'
  BY <1>1, <1>2 DEF RunInv, Generations, HoldsObject, Gen, NoGen
<1>5. LiveRunHoldsToken'
  BY <1>2, <1>3 DEF LiveRunHoldsToken, Live, InRun
<1>6. TokenHeld'
  BY <1>1, <1>2 DEF TokenHeld, InRun, Registered, Gen, NoGen
<1>7. QED
  BY <1>4, <1>5, <1>6 DEF RunInv

(* A run that ends settles its own token and nobody else's. *)
LEMMA RunEndsInv ==
    ASSUME TypeOK, RunInv, NEW c \in Call, call' = [call EXCEPT ![c].pc = "done"],
           pendingRun' = settlePendingRun(c), UNCHANGED <<agents, nextGen, timeline>>
    PROVE  RunInv'
<1>1. /\ call'[c].pc = "done" /\ call'[c].gen = call[c].gen
      /\ \A d \in Call \ {c} : call'[d] = call[d]
  BY CallFields DEF TypeOK, CallState
<1>2. Generations'
  BY <1>1 DEF RunInv, Generations, HoldsObject, AwaitInCancel
<1>3. LiveRunHoldsToken'
  <2> SUFFICES ASSUME NEW d \in Call, Live(d)' PROVE pendingRun' = d
    BY DEF LiveRunHoldsToken
  <2>1. d # c /\ Live(d)
    BY <1>1 DEF Live, InRun
  <2>2. pendingRun = d
    BY <2>1 DEF RunInv, LiveRunHoldsToken
  <2>3. QED
    BY <2>1, <2>2 DEF settlePendingRun
<1>4. TokenHeld'
  <2> SUFFICES ASSUME pendingRun' # None PROVE TokenHeld'
    BY DEF TokenHeld
  <2>1. pendingRun' = pendingRun /\ pendingRun # c /\ pendingRun # None
    BY DEF settlePendingRun
  <2>2. /\ pendingRun \in Call \ {c} /\ Registered
        /\ call[pendingRun].pc \in {"starting", "streaming", "done"}
        /\ call[pendingRun].pc = "done" /\ timeline => call[pendingRun].gen # agents
    BY <2>1, HolderCases DEF RunInv
  <2>3. QED
    BY <1>1, <2>1, <2>2 DEF TokenHeld, InRun, Registered
<1>5. QED
  BY <1>2, <1>3, <1>4 DEF RunInv

LEMMA MoveOutside ==
    ASSUME TypeOK, RunInv, NEW c \in Call, NEW pc \in Pc \ {"starting", "streaming", "opening"},
           ~InRun(c), call[c].pc # "done", MoveTo(c, pc) \/ Leave(c, pc),
           pc \in AwaitInCancel => call[c].gen # NoGen, timeline' => timeline,
           UNCHANGED <<agents, nextGen, pendingRun>>
    PROVE  RunInv'
<1>1. call[c].gen < nextGen
  BY DEF RunInv, Generations
<1>2. CASE MoveTo(c, pc)
  <2> DEFINE r == [call[c] EXCEPT !.pc = pc]
  <2>1. r \in CallState /\ r.pc = pc /\ r.gen = call[c].gen
    BY CallFields DEF CallState
  <2>2. call' = [call EXCEPT ![c] = r]
    BY <1>2 DEF MoveTo
  <2>3. QED
    BY <1>1, <2>1, <2>2, OutsideRuns
<1>3. CASE Leave(c, pc)
  <2> DEFINE r == [call[c] EXCEPT !.pc = pc, !.fg = None, !.pr = None]
  <2>1. r \in CallState /\ r.pc = pc /\ r.gen = call[c].gen
    BY CallFields DEF CallState
  <2>2. call' = [call EXCEPT ![c] = r]
    BY <1>3 DEF Leave
  <2>3. QED
    BY <1>1, <2>1, <2>2, OutsideRuns
<1>4. QED
  BY <1>2, <1>3

LEMMA CancelBeginsInv ==
    ASSUME TypeOK, RunInv, NEW c \in Call, NEW op \in Operation, Registered, CancelBegins(c, op),
           ~InRun(c), call[c].pc # "done", UNCHANGED <<agents, nextGen, timeline, pendingRun>>
    PROVE  RunInv'
<1> DEFINE r == [op |-> op, pc |-> "interrupting", gen |-> agents,
                 fg |-> object[agents].activeForegroundTurnId, pr |-> pendingRun]
<1>1. agents \in Gen /\ object[agents] \in Agent
  BY DEF Registered, TypeOK
<1>2. r \in CallState
  BY <1>1 DEF CallState, Pc, AwaitInCancel, Agent, TypeOK
<1>3. r.pc = "interrupting" /\ r.gen < nextGen /\ r.gen # NoGen
  BY DEF RunInv, Generations, Registered
<1>4. call' = [call EXCEPT ![c] = r]
  BY DEF CancelBegins, current
<1>5. QED
  BY <1>2, <1>3, <1>4, OutsideRuns

LEMMA ApiCallInv ==
    ASSUME TypeOK, RunInv, NEW c \in Call, ApiCall(c)
    PROVE  RunInv'
<1> USE DEF Operation
<1>0. ~InRun(c) /\ call[c].pc # "done" /\ call[c].gen < nextGen
  BY DEF ApiCall, StreamAgent, ReplaceAgentRun, CancelAgentRun, CloseAgent, ReloadAgentSession,
         ResumeAgent, InRun, RunInv, Generations
<1>1. CASE StreamAgent(c)
  BY <1>0, <1>1, BeginRunInv DEF StreamAgent
<1>2. CASE ReplaceAgentRun(c)
  BY <1>0, <1>2, CancelBeginsInv DEF ReplaceAgentRun, hasInFlightRun
<1>3. CASE CancelAgentRun(c)
  BY <1>0, <1>3, CancelBeginsInv DEF CancelAgentRun, hasInFlightRun
<1>4. CASE CloseAgent(c)
  <2>1. /\ call'[c].pc = "closing" /\ call'[c].gen = call[c].gen
        /\ \A d \in Call \ {c} : call'[d] = call[d]
    BY <1>4, CallFields DEF CloseAgent, TypeOK, CallState
  <2>2. agents' = NoGen /\ pendingRun' = None /\ nextGen' = nextGen
    BY <1>4 DEF CloseAgent
  <2>3. Generations'
    BY <2>1, <2>2, BoundsAssumption
    DEF RunInv, Generations, HoldsObject, AwaitInCancel, NoGen, TypeOK
  <2>4. LiveRunHoldsToken'
    BY <2>2, <2>3 DEF LiveRunHoldsToken, Live, InRun, Generations, HoldsObject
  <2>5. QED
    BY <2>2, <2>3, <2>4 DEF RunInv, TokenHeld
<1>5. CASE ReloadAgentSession(c)
  <2>1. CASE hasInFlightRun
    BY <1>0, <1>5, <2>1, CancelBeginsInv DEF ReloadAgentSession, NothingElse
  <2>2. CASE ~hasInFlightRun
    <3> DEFINE r == [call[c] EXCEPT !.op = "reload", !.pc = "opening", !.gen = agents]
    <3>1. agents \in Gen /\ agents < nextGen /\ agents # NoGen
      BY <1>5 DEF ReloadAgentSession, Registered, TypeOK, RunInv, Generations
    <3>2. r \in CallState /\ r.pc = "opening" /\ r.gen = agents
      BY <3>1, CallFields DEF CallState, Pc, AwaitInRegister
    <3>3. call' = [call EXCEPT ![c] = r] /\ UNCHANGED <<agents, nextGen, timeline, pendingRun>>
      BY <1>5, <2>2 DEF ReloadAgentSession, NothingElse
    <3>4. QED
      BY <1>0, <3>1, <3>2, <3>3, OutsideRuns
  <2>3. QED
    BY <2>1, <2>2
<1>6. CASE ResumeAgent(c)
  <2> DEFINE r == [call[c] EXCEPT !.op = "resume", !.pc = "opening"]
  <2>1. r \in CallState /\ r.pc = "opening" /\ r.op = "resume" /\ r.gen = call[c].gen
    BY CallFields DEF CallState, Pc, AwaitInRegister
  <2>2. call' = [call EXCEPT ![c] = r] /\ UNCHANGED <<agents, nextGen, timeline, pendingRun>>
    BY <1>6 DEF ResumeAgent, NothingElse
  <2>3. "opening" \notin AwaitInCancel
    BY DEF AwaitInCancel
  <2>4. QED
    BY <1>0, <2>1, <2>2, <2>3, OutsideRuns
<1>7. QED
  BY <1>1, <1>2, <1>3, <1>4, <1>5, <1>6 DEF ApiCall

LEMMA CancelStepInv ==
    ASSUME TypeOK, RunInv, NEW c \in Call, CancelStep(c)
    PROVE  RunInv'
<1> USE DEF Pc, AwaitInCancel, AwaitInRegister, NothingElse
<1>0. call[c].pc \in AwaitInCancel
  BY DEF CancelStep, InterruptReturns, WaiterSettled, IdleSeen, PendingSettled, CancelTimesOut,
         ForceCancel, NothingToForce, StaleRunSettled, CancelReturns, ReplacementStarts,
         ReplacementRejected, ReloadProceeds
<1>a. ~InRun(c) /\ call[c].pc # "done" /\ call[c].gen # NoGen /\ call[c].gen < nextGen
  BY <1>0 DEF InRun, RunInv, Generations, HoldsObject
<1>b. afterTurnWait(c) \in {"await_pending", "checking"}
  BY DEF afterTurnWait
<1>1. CASE InterruptReturns(c)
  BY <1>a, <1>b, <1>1, MoveOutside DEF InterruptReturns
<1>2. CASE WaiterSettled(c)
  BY <1>a, <1>b, <1>2, MoveOutside DEF WaiterSettled
<1>3. CASE IdleSeen(c)
  BY <1>a, <1>b, <1>3, MoveOutside DEF IdleSeen
<1>4. CASE PendingSettled(c)
  BY <1>a, <1>4, MoveOutside DEF PendingSettled
<1>5. CASE CancelTimesOut(c)
  BY <1>a, <1>5, MoveOutside DEF CancelTimesOut
<1>6. CASE ForceCancel(c)
  <2> DEFINE r == [call[c] EXCEPT !.fg = None, !.pr = pendingRun,
                                  !.pc = IF pendingRun = None THEN "cancelled" ELSE "await_stale"]
  <2>1. r \in CallState /\ r.pc \in {"cancelled", "await_stale"} /\ r.gen = call[c].gen
    <3>1. pendingRun \in Call \cup {None}
      BY DEF TypeOK
    <3>2. QED
      BY <3>1, CallFields DEF CallState
  <2>2. call' = [call EXCEPT ![c] = r] /\ UNCHANGED <<agents, nextGen, timeline, pendingRun>>
    BY <1>6 DEF ForceCancel
  <2>3. QED
    BY <1>a, <2>1, <2>2, OutsideRuns
<1>7. CASE NothingToForce(c)
  BY <1>a, <1>7, MoveOutside DEF NothingToForce
<1>8. CASE StaleRunSettled(c)
  BY <1>a, <1>8, MoveOutside DEF StaleRunSettled
<1>9. CASE CancelReturns(c)
  BY <1>a, <1>9, MoveOutside DEF CancelReturns
<1>10. CASE ReplacementStarts(c)
  BY <1>a, <1>10, BeginRunInv DEF ReplacementStarts, Operation
<1>11. CASE ReplacementRejected(c)
  BY <1>a, <1>11, MoveOutside DEF ReplacementRejected
<1>12. CASE ReloadProceeds(c)
  <2> DEFINE r == [call[c] EXCEPT !.gen = agents, !.pc = IF Registered THEN "opening" ELSE "done"]
  <2>1. agents \in Gen \cup {NoGen} /\ agents < nextGen
    BY DEF TypeOK, RunInv, Generations
  <2>2. /\ r \in CallState /\ r.gen = agents
        /\ r.pc = IF Registered THEN "opening" ELSE "done"
    BY <2>1, CallFields DEF CallState
  <2>3. call' = [call EXCEPT ![c] = r] /\ UNCHANGED <<agents, nextGen, timeline, pendingRun>>
    BY <1>12 DEF ReloadProceeds
  <2>4. QED
    <3>1. r.pc \notin {"starting", "streaming"} /\ r.gen < nextGen
      BY <2>1, <2>2
    <3>2. r.pc \in AwaitInCancel \/ (r.pc = "opening" /\ r.op = "reload") => r.gen # NoGen
      BY <2>2 DEF Registered
    <3>3. QED
      BY <1>a, <2>2, <2>3, <3>1, <3>2, OutsideRuns
<1>13. QED
  BY <1>1, <1>2, <1>3, <1>4, <1>5, <1>6, <1>7, <1>8, <1>9, <1>10, <1>11, <1>12 DEF CancelStep

LEMMA RegisterStepInv ==
    ASSUME TypeOK, RunInv, NEW c \in Call, RegisterStep(c)
    PROVE  RunInv'
<1>0. ~InRun(c) /\ call[c].pc # "done" /\ call[c].gen < nextGen
  BY DEF RegisterStep, SessionOpenFails, ReloadSwaps, RegisterChecks, RegisterSets,
         RegisterCompletes, CloseReturns, InRun, RunInv, Generations
<1>1. CASE SessionOpenFails(c)
  BY <1>0, <1>1, MoveOutside DEF SessionOpenFails, NothingElse, Pc, AwaitInCancel
<1>2. CASE ReloadSwaps(c)
  <2>1. /\ call'[c].pc = "closing_old" /\ call'[c].gen = call[c].gen
        /\ \A d \in Call \ {c} : call'[d] = call[d]
    BY <1>2, CallFields DEF ReloadSwaps, MoveTo, TypeOK, CallState
  <2>2. agents' = NoGen /\ pendingRun' = None /\ nextGen' = nextGen
    BY <1>2 DEF ReloadSwaps
  <2>3. Generations'
    BY <2>1, <2>2, BoundsAssumption
    DEF RunInv, Generations, HoldsObject, AwaitInCancel, NoGen, TypeOK
  <2>4. LiveRunHoldsToken'
    BY <2>2, <2>3 DEF LiveRunHoldsToken, Live, InRun, Generations, HoldsObject
  <2>5. QED
    BY <2>2, <2>3, <2>4 DEF RunInv, TokenHeld
<1>3. CASE RegisterChecks(c)
  <2>1. UNCHANGED <<agents, nextGen, pendingRun>> /\ (timeline' => timeline)
    <3>1. timeline' \in {timeline, FALSE}
      BY <1>3, Zenon DEF RegisterChecks
    <3>2. timeline' => timeline
      BY <3>1, Zenon
    <3>3. QED
      BY <1>3, <3>2 DEF RegisterChecks
  <2>2. MoveTo(c, "done") \/ MoveTo(c, "registering")
    BY <1>3 DEF RegisterChecks
  <2>3. QED
    BY <1>0, <2>1, <2>2, MoveOutside DEF Pc, AwaitInCancel, AwaitInRegister
<1>4. CASE RegisterSets(c)
  <2>1. nextGen \in Gen /\ agents' = nextGen /\ nextGen' = nextGen + 1 /\ pendingRun' = pendingRun
    BY <1>4, BoundsAssumption DEF RegisterSets, TypeOK, Gen
  <2>2. /\ call'[c].pc = "settling" /\ call'[c].gen = nextGen
        /\ \A d \in Call \ {c} : call'[d] = call[d]
    BY <1>4, CallFields DEF RegisterSets, TypeOK, CallState
  <2>3. \A d \in Call : call[d].gen < nextGen /\ call[d].gen \in Nat
    BY BoundsAssumption DEF RunInv, Generations, TypeOK, CallState, Gen, NoGen
  <2>4. Generations'
    BY <2>1, <2>2, <2>3, BoundsAssumption
    DEF RunInv, Generations, HoldsObject, AwaitInCancel, Gen, NoGen
  <2>5. LiveRunHoldsToken'
    BY <2>1, <2>2, <2>3 DEF LiveRunHoldsToken, Live, InRun
  <2>6. TokenHeld'
    <3> SUFFICES ASSUME pendingRun # None PROVE TokenHeld'
      BY <2>1 DEF TokenHeld
    <3>1. /\ pendingRun \in Call \ {c}
          /\ call[pendingRun].pc \in {"starting", "streaming", "done"}
      BY <1>0, HolderCases DEF RunInv, InRun
    <3>2. call'[pendingRun] = call[pendingRun] /\ call[pendingRun].gen # nextGen
      BY <2>2, <2>3, <3>1
    <3>3. QED
      BY <2>1, <3>1, <3>2 DEF TokenHeld, InRun, Registered, Gen, NoGen
  <2>7. QED
    BY <2>4, <2>5, <2>6 DEF RunInv
<1>5. CASE RegisterCompletes(c)
  BY <1>0, <1>5, MoveOutside DEF RegisterCompletes, Pc, AwaitInCancel
<1>6. CASE CloseReturns(c)
  <2>1. UNCHANGED <<agents, nextGen, pendingRun>> /\ (timeline' => timeline)
    <3>1. timeline' \in {timeline, FALSE}
      BY <1>6 DEF CloseReturns
    <3>2. timeline' => timeline
      BY <3>1, Zenon
    <3>3. QED
      BY <1>6, <3>2 DEF CloseReturns
  <2>2. QED
    BY <1>0, <1>6, <2>1, MoveOutside DEF CloseReturns, Pc, AwaitInCancel
<1>7. QED
  BY <1>1, <1>2, <1>3, <1>4, <1>5, <1>6 DEF RegisterStep

LEMMA RunStepInv ==
    ASSUME TypeOK, RunInv, NEW c \in Call, RunStep(c)
    PROVE  RunInv'
<1>1. CASE StreamEnds(c)
  BY <1>1, RunEndsInv DEF StreamEnds
<1>2. CASE StreamContinues(c)
  BY <1>2, NoCallTouched DEF StreamContinues
<1>3. QED
  BY <1>1, <1>2 DEF RunStep

LEMMA ProviderStepInv ==
    ASSUME TypeOK, RunInv, NEW c \in Call, ProviderStep(c)
    PROVE  RunInv'
<1>1. CASE StartTurnResolves(c)
  <2>1. /\ call'[c].pc = "streaming" /\ call[c].pc = "starting" /\ call'[c].gen = call[c].gen
        /\ \A d \in Call \ {c} : call'[d] = call[d]
    BY <1>1, CallFields DEF StartTurnResolves, TypeOK, CallState
  <2>2. UNCHANGED <<agents, nextGen, timeline, pendingRun>>
    BY <1>1 DEF StartTurnResolves
  <2>3. Generations'
    BY <2>1, <2>2 DEF RunInv, Generations, HoldsObject, AwaitInCancel
  <2>4. LiveRunHoldsToken'
    BY <2>1, <2>2 DEF RunInv, LiveRunHoldsToken, Live, InRun
  <2>5. TokenHeld'
    <3> SUFFICES ASSUME pendingRun # None PROVE TokenHeld'
      BY <2>2 DEF TokenHeld
    <3>1. /\ pendingRun \in Call /\ Registered
          /\ call[pendingRun].pc \in {"starting", "streaming", "done"}
          /\ call[pendingRun].pc = "done" /\ timeline => call[pendingRun].gen # agents
      BY HolderCases DEF RunInv
    <3>2. QED
      BY <2>1, <2>2, <3>1 DEF TokenHeld, InRun, Registered
  <2>6. QED
    BY <2>3, <2>4, <2>5 DEF RunInv
<1>2. CASE StartTurnFails(c)
  BY <1>2, RunEndsInv DEF StartTurnFails
<1>3. CASE StartTurnFailsUnrecorded(c)
  <2>1. /\ call'[c].pc = "done" /\ call'[c].gen = call[c].gen
        /\ \A d \in Call \ {c} : call'[d] = call[d]
    BY <1>3, CallFields DEF StartTurnFailsUnrecorded, TypeOK, CallState
  <2>2. UNCHANGED <<agents, nextGen, timeline, pendingRun>> /\ ~timeline
    BY <1>3 DEF StartTurnFailsUnrecorded
  <2>3. Generations'
    BY <2>1, <2>2 DEF RunInv, Generations, HoldsObject, AwaitInCancel
  <2>4. LiveRunHoldsToken'
    BY <2>1, <2>2 DEF RunInv, LiveRunHoldsToken, Live, InRun
  <2>5. TokenHeld'
    <3> SUFFICES ASSUME pendingRun # None PROVE TokenHeld'
      BY <2>2 DEF TokenHeld
    <3>1. /\ pendingRun \in Call /\ Registered
          /\ call[pendingRun].pc \in {"starting", "streaming", "done"}
      BY HolderCases DEF RunInv
    <3>2. QED
      BY <2>1, <2>2, <3>1 DEF TokenHeld, InRun, Registered
  <2>6. QED
    BY <2>3, <2>4, <2>5 DEF RunInv
<1>4. CASE ProviderStartsTurn(c)
  BY <1>4, NoCallTouched DEF ProviderStartsTurn, Send
<1>5. CASE ProviderEndsTurn(c)
  BY <1>5, NoCallTouched DEF ProviderEndsTurn, Send
<1>6. QED
  BY <1>1, <1>2, <1>3, <1>4, <1>5 DEF ProviderStep

LEMMA RunInvStep ==
    ASSUME TypeOK, RunInv, [Next]_vars
    PROVE  RunInv'
<1>1. ASSUME NEW c \in Call, ApiCall(c) PROVE RunInv'
  BY <1>1, ApiCallInv
<1>2. ASSUME NEW c \in Call, RunStep(c) PROVE RunInv'
  BY <1>2, RunStepInv
<1>3. ASSUME NEW c \in Call, CancelStep(c) PROVE RunInv'
  BY <1>3, CancelStepInv
<1>4. ASSUME NEW c \in Call, RegisterStep(c) PROVE RunInv'
  BY <1>4, RegisterStepInv
<1>5. ASSUME NEW c \in Call, ProviderStep(c) PROVE RunInv'
  BY <1>5, ProviderStepInv
<1>6. CASE Delivery
  BY <1>6, NoCallTouched DEF Delivery, DequeueSessionEvent, NotifyWaiter
<1>7. CASE ProviderActsAutonomously
  BY <1>7, NoCallTouched DEF ProviderActsAutonomously, Send
<1>8. CASE UNCHANGED vars
  BY <1>8, NoCallTouched DEF vars
<1>9. QED
  BY <1>1, <1>2, <1>3, <1>4, <1>5, <1>6, <1>7, <1>8 DEF Next

-----------------------------------------------------------------------------

(* The inductive invariant: types, generations, and the token that ties the *)
(* live run to pendingRuns.                                                 *)
THEOREM Inductive == Spec => []IInv
<1>1. Init => IInv
  BY InitType, InitRunInv DEF RunInv, IInv
<1>2. IInv /\ [Next]_vars => IInv'
  <2> SUFFICES ASSUME IInv, [Next]_vars PROVE IInv'
    OBVIOUS
  <2>1. TypeOK /\ RunInv
    BY DEF IInv, RunInv
  <2>2. TypeOK'
    BY <2>1, TypeStep DEF RunInv
  <2>3. RunInv'
    BY <2>1, RunInvStep
  <2>4. QED
    BY <2>2, <2>3 DEF IInv, RunInv
<1>3. QED
  BY <1>1, <1>2, PTL DEF Spec

(* Every field of every agent object, call and queue keeps its type; in     *)
(* particular a generation outside the map is never used as an agent.       *)
THEOREM TypeCorrect == Spec => []TypeOK
<1>1. IInv => TypeOK
  BY DEF IInv
<1>2. QED
  BY <1>1, Inductive, PTL

(* However many calls stream, replace, cancel, reload, close and resume an  *)
(* agent at once, at most one generator runs on the registered object.      *)
THEOREM ExclusiveRun == Spec => []OneRunPerAgent
<1>1. IInv => OneRunPerAgent
  BY DEF IInv, LiveRunHoldsToken, OneRunPerAgent
<1>2. QED
  BY <1>1, Inductive, PTL

=============================================================================
