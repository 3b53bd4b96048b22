------------------------- MODULE AgentRunStream_proofs -------------------------
(***************************************************************************)
(* Theorems about the turns of AgentRun for any number of calls, any       *)
(* operations and any bounds: the active turn is never one already         *)
(* finalized, it ends only by being finalized, the stream of a run on the  *)
(* registered agent can always be ended, and so the pending-run token is   *)
(* leaked in the two races PendingRunOwned names only.                     *)
(***************************************************************************)
EXTENDS AgentRun_proofs

-----------------------------------------------------------------------------
(* The inductive invariant. *)

(* The provider's startTurn of the turn has resolved: only then do objects and waiters know it. *)
Begun(t) == call[t].pc \in {"streaming", "done"}

TurnsBegun ==
    /\ \A g \in Gen, t \in Turn :
         \/ object[g].activeForegroundTurnId = t
         \/ hasFinalizedTurn(object[g], t)
         \/ t \in object[g].foregroundTurnWaiters
         => Begun(t)
    /\ \A t \in settled : Begun(t)
    /\ \A n \in notify : Begun(n[1])

NotFinalized ==
    \A g \in Gen : object[g].activeForegroundTurnId # None =>
        ~hasFinalizedTurn(object[g], object[g].activeForegroundTurnId)

(* The run that is about to set the active turn finds none. *)
StartingIdle ==
    \A c \in Call : call[c].pc = "starting" /\ call[c].gen = agents =>
        current.activeForegroundTurnId = None

StreamInv == TurnsBegun /\ NotFinalized /\ StartingIdle /\ StreamReachable

(* The steps of TurnEndsOnlyFinalized. *)
TurnEnds ==
    Registered /\ agents' = agents =>
        \A t \in Turn : current.activeForegroundTurnId = t /\ current'.activeForegroundTurnId # t
                        => hasFinalizedTurn(current', t)

-----------------------------------------------------------------------------
(* What the operators on an agent object do to its turns. *)
SameRun(b, a) ==
    /\ b.activeForegroundTurnId = a.activeForegroundTurnId
    /\ b.finalizedForegroundTurnIds = a.finalizedForegroundTurnIds
    /\ b.foregroundTurnWaiters = a.foregroundTurnWaiters

(* The active turn may end, and only that one may be added to the finalized ones. *)
Calm(b, a) ==
    /\ b.foregroundTurnWaiters \subseteq a.foregroundTurnWaiters
    /\ \/ /\ b.activeForegroundTurnId = a.activeForegroundTurnId
          /\ b.finalizedForegroundTurnIds = a.finalizedForegroundTurnIds
       \/ /\ b.activeForegroundTurnId = None
          /\ \A t \in Turn : hasFinalizedTurn(b, t) =>
                hasFinalizedTurn(a, t) \/ t = a.activeForegroundTurnId

LEMMA RememberHas ==
    ASSUME NEW a \in Agent, NEW t \in Turn, NEW ids, ids = rememberFinalizedTurn(a, t)
    PROVE  /\ \A i \in DOMAIN ids : ids[i] = t \/ hasFinalizedTurn(a, ids[i])
           /\ ~hasFinalizedTurn(a, t) => \E i \in DOMAIN ids : ids[i] = t
<1> DEFINE seen == a.finalizedForegroundTurnIds
           grown == IF hasFinalizedTurn(a, t) THEN seen ELSE Append(seen, t)
<1>1. seen \in Seq(Turn)
    BY DEF Agent
<1>2. ids = IF Len(grown) > FinalizedCap THEN Tail(grown) ELSE grown
    BY DEF rememberFinalizedTurn
<1>3. /\ grown \in Seq(Turn)
      /\ \A i \in 1..Len(grown) : grown[i] = t \/ \E j \in 1..Len(seen) : seen[j] = grown[i]
      /\ ~hasFinalizedTurn(a, t) => grown[Len(grown)] = t /\ Len(grown) >= 1
    <2>1. CASE hasFinalizedTurn(a, t)
        BY <1>1, <2>1
    <2>2. CASE ~hasFinalizedTurn(a, t)
        <3>1. grown = Append(seen, t)
            BY <2>2
        <3>2. /\ Append(seen, t) \in Seq(Turn) /\ Len(Append(seen, t)) = Len(seen) + 1
              /\ Len(seen) \in Nat
              /\ \A i \in 1..Len(seen) : Append(seen, t)[i] = seen[i]
              /\ Append(seen, t)[Len(seen) + 1] = t
              /\ \A i \in 1..(Len(seen) + 1) : i \in 1..Len(seen) \/ i = Len(seen) + 1
            BY <1>1
        <3>3. QED
            BY <3>1, <3>2
    <2>3. QED
        BY <2>1, <2>2
<1>4. \A i \in 1..Len(grown) : grown[i] = t \/ hasFinalizedTurn(a, grown[i])
    BY <1>1, <1>3 DEF hasFinalizedTurn
<1> HIDE DEF grown
<1>5. CASE Len(grown) > FinalizedCap
    <2>1. Len(grown) \in Nat /\ Len(grown) >= 2
        BY <1>3, <1>5, CapAssumption
    <2>2. /\ ids = Tail(grown) /\ DOMAIN ids = 1..(Len(grown) - 1)
          /\ \A i \in 1..(Len(grown) - 1) : ids[i] = grown[i + 1] /\ i + 1 \in 1..Len(grown)
        BY <1>2, <1>3, <1>5, <2>1
    <2>3. Len(grown) - 1 \in DOMAIN ids /\ ids[Len(grown) - 1] = grown[Len(grown)]
        BY <2>1, <2>2
    <2>4. QED
        BY <1>3, <1>4, <2>2, <2>3
<1>6. CASE ~(Len(grown) > FinalizedCap)
    <2>1. ids = grown /\ DOMAIN ids = 1..Len(grown)
        BY <1>2, <1>3, <1>6
    <2>2. QED
        BY <1>3, <1>4, <2>1
<1>7. QED
    BY <1>5, <1>6

LEMMA FinalizeFields ==
    ASSUME NEW a \in Agent, NEW t \in Turn \cup {None}, NEW b, b = finalizeForegroundTurn(a, t)
    PROVE  /\ b.activeForegroundTurnId = None
           /\ b.foregroundTurnWaiters = a.foregroundTurnWaiters
           /\ t = None => b.finalizedForegroundTurnIds = a.finalizedForegroundTurnIds
           /\ t # None => b.finalizedForegroundTurnIds = rememberFinalizedTurn(a, t)
BY DEF finalizeForegroundTurn, Agent

LEMMA DispatchFields ==
    ASSUME NEW a \in Agent, NEW ev \in Event
    PROVE  SameRun(dispatchStreamEventByType(a, ev), a)
<1>1. SameRun(onStreamTurnStarted(a, ev), a)
    BY DEF onStreamTurnStarted, Agent, SameRun
<1>2. SameRun(onStreamTurnCompleted(a, ev), a)
    BY DEF onStreamTurnCompleted, Agent, SameRun
<1>3. SameRun(onStreamTurnFailed(a, ev), a)
    BY DEF onStreamTurnFailed, Agent, SameRun
<1>4. SameRun(onStreamTurnCanceled(a, ev), a)
    BY DEF onStreamTurnCanceled, Agent, SameRun
<1>5. ev.type \in {"turn_started", "turn_completed", "turn_failed", "turn_canceled"}
    BY DEF Event, EventType, TerminalType
<1>6. QED
    BY <1>1, <1>2, <1>3, <1>4, <1>5 DEF dispatchStreamEventByType

(* Handling an event leaves the turns alone, or finalizes the active one under its own id. *)
LEMMA HandleFields ==
    ASSUME NEW a \in Agent, NEW ev \in Event, NEW b, b = handleStreamEvent(a, ev)
    PROVE  /\ b.foregroundTurnWaiters = a.foregroundTurnWaiters
           /\ Calm(b, a)
           /\ \/ SameRun(b, a)
              \/ /\ ev.turn \in Turn /\ a.activeForegroundTurnId = ev.turn
                 /\ isTurnTerminalEvent(ev)
                 /\ ~hasFinalizedTurn(a, ev.turn) /\ hasFinalizedTurn(b, ev.turn)
           /\ /\ ev.turn # None /\ a.activeForegroundTurnId = ev.turn
              /\ b.activeForegroundTurnId # ev.turn
              => isTurnTerminalEvent(ev)
<1> DEFINE d == dispatchStreamEventByType(a, ev)
<1>1. d \in Agent /\ SameRun(d, a)
    BY DispatchType, DispatchFields
<1>2. ev.turn \in Turn \cup {None}
    BY DEF Event
<1> HIDE DEF d
<1>3. CASE isDuplicateTerminal(a, ev)
    <2>1. b = a
        BY <1>3 DEF handleStreamEvent
    <2>2. QED
        BY <2>1 DEF SameRun, Calm
<1>4. CASE ~isDuplicateTerminal(a, ev) /\ isForegroundEvent(a, ev) /\ isTurnTerminalEvent(ev)
    <2>1. b = finalizeForegroundTurn(d, ev.turn)
        BY <1>4 DEF handleStreamEvent, d
    <2>2. /\ ev.turn \in Turn /\ ev.turn # None /\ a.activeForegroundTurnId = ev.turn
          /\ ~hasFinalizedTurn(a, ev.turn)
        BY <1>2, <1>4 DEF isForegroundEvent, isDuplicateTerminal
    <2>3. /\ b.activeForegroundTurnId = None
          /\ b.foregroundTurnWaiters = a.foregroundTurnWaiters
          /\ b.finalizedForegroundTurnIds = rememberFinalizedTurn(d, ev.turn)
        BY <1>1, <1>2, <2>1, <2>2, FinalizeFields DEF SameRun
    <2>4. \A t : hasFinalizedTurn(d, t) <=> hasFinalizedTurn(a, t)
        BY <1>1 DEF SameRun, hasFinalizedTurn
    <2>5. /\ \A t \in Turn : hasFinalizedTurn(b, t) => hasFinalizedTurn(a, t) \/ t = ev.turn
          /\ hasFinalizedTurn(b, ev.turn)
        BY <1>1, <2>2, <2>3, <2>4, RememberHas DEF hasFinalizedTurn
    <2>6. QED
        BY <1>4, <2>2, <2>3, <2>5 DEF Calm
<1>5. CASE ~isDuplicateTerminal(a, ev) /\ ~(isForegroundEvent(a, ev) /\ isTurnTerminalEvent(ev))
    <2>1. b = d
        BY <1>5 DEF handleStreamEvent, d
    <2>2. QED
        BY <1>1, <2>1 DEF SameRun, Calm
<1>6. QED
    BY <1>3, <1>4, <1>5

(* Without a timeline a turn_failed changes no turn either. *)
LEMMA AfterEventFields ==
    ASSUME NEW a \in Agent, NEW ev \in Event, NEW b, b = afterEvent(a, ev)
    PROVE  /\ b.foregroundTurnWaiters = a.foregroundTurnWaiters
           /\ Calm(b, a)
           /\ \/ SameRun(b, a)
              \/ /\ ev.turn \in Turn /\ a.activeForegroundTurnId = ev.turn
                 /\ isTurnTerminalEvent(ev) /\ ~throwsHalfway(a, ev)
                 /\ ~hasFinalizedTurn(a, ev.turn) /\ hasFinalizedTurn(b, ev.turn)
<1>1. CASE throwsHalfway(a, ev)
    <2>1. b = onStreamTurnFailed(a, ev)
        BY <1>1 DEF afterEvent
    <2>2. SameRun(b, a)
        BY <2>1 DEF onStreamTurnFailed, Agent, SameRun
    <2>3. QED
        BY <2>2 DEF SameRun, Calm
<1>2. CASE ~throwsHalfway(a, ev)
    <2>1. b = handleStreamEvent(a, ev)
        BY <1>2 DEF afterEvent
    <2>2. QED
        BY <1>2, <2>1, HandleFields
<1>3. QED
    BY <1>1, <1>2

LEMMA UpdateFields ==
    ASSUME NEW a \in Agent, NEW t \in Turn
    PROVE  /\ SameRun(runRequested(a), a) /\ SameRun(replaceRunCatch(a), a)
           /\ SameRun(replacementRequested(a), a) /\ SameRun(registrationComplete(a), a)
           /\ Calm(deleteWaiter(a, t), a) /\ Calm(detached(a), a)
           /\ deleteWaiter(a, t).activeForegroundTurnId = a.activeForegroundTurnId
           /\ deleteWaiter(a, t).foregroundTurnWaiters = a.foregroundTurnWaiters \ {t}
           /\ turnActive(a, t).activeForegroundTurnId = t
           /\ turnActive(a, t).foregroundTurnWaiters = a.foregroundTurnWaiters \cup {t}
           /\ turnActive(a, t).finalizedForegroundTurnIds = a.finalizedForegroundTurnIds
<1>1. SameRun(runRequested(a), a)
    BY DEF runRequested, Agent, SameRun
<1>2. SameRun(replaceRunCatch(a), a)
    BY DEF replaceRunCatch, Agent, SameRun
<1>3. SameRun(replacementRequested(a), a)
    BY DEF replacementRequested, Agent, SameRun
<1>4. SameRun(registrationComplete(a), a)
    BY DEF registrationComplete, Agent, SameRun
<1>5. /\ Calm(deleteWaiter(a, t), a)
      /\ deleteWaiter(a, t).activeForegroundTurnId = a.activeForegroundTurnId
      /\ deleteWaiter(a, t).foregroundTurnWaiters = a.foregroundTurnWaiters \ {t}
    BY DEF deleteWaiter, Agent, Calm
<1>6. Calm(detached(a), a)
    BY DEF detached, Agent, Calm
<1>7. /\ turnActive(a, t).activeForegroundTurnId = t
      /\ turnActive(a, t).foregroundTurnWaiters = a.foregroundTurnWaiters \cup {t}
      /\ turnActive(a, t).finalizedForegroundTurnIds = a.finalizedForegroundTurnIds
    BY DEF turnActive, Agent
<1>8. QED
    BY <1>1, <1>2, <1>3, <1>4, <1>5, <1>6, <1>7

LEMMA FreshFields ==
    ASSUME NEW err \in BOOLEAN, NEW a \in Agent
    PROVE  /\ registeredAgent(err).activeForegroundTurnId = None
           /\ \A t : ~hasFinalizedTurn(registeredAgent(err), t)
           /\ registeredAgent(err).foregroundTurnWaiters = {}
           /\ Calm(registeredAgent(err), a)
BY DEF registeredAgent, hasFinalizedTurn, Calm

LEMMA SameIsCalm ==
    ASSUME NEW b, NEW a, SameRun(b, a)
    PROVE  Calm(b, a)
BY DEF SameRun, Calm

LEMMA SelfIsSame ==
    ASSUME NEW a
    PROVE  SameRun(a, a)
BY DEF SameRun

-----------------------------------------------------------------------------
(* What a step keeps. *)

Reached(c) == inbox[c] = "terminal" \/ <<c, TRUE>> \in notify

Open(c) ==
    /\ current.activeForegroundTurnId = c
    /\ c \in current.foregroundTurnWaiters \ settled

(* Only turns that have begun are settled or notified, and no turn is begun anew. *)
OnlyBegun ==
    /\ \A t \in Turn : Begun(t) => Begun(t)'
    /\ \A t \in settled' : t \in settled \/ Begun(t)'
    /\ \A n \in notify' : n \in notify \/ Begun(n[1])'

LEMMA TurnsKept ==
    ASSUME IInv, TypeOK', StreamInv, OnlyBegun,
           \A g \in Gen : Calm(object'[g], object[g])
    PROVE  TurnsBegun' /\ NotFinalized'
<1>1. \A g \in Gen : object[g] \in Agent /\ object'[g] \in Agent
    BY DEF IInv, TypeOK
<1>2. ASSUME NEW g \in Gen, NEW t \in Turn,
             \/ object'[g].activeForegroundTurnId = t
             \/ hasFinalizedTurn(object'[g], t)
             \/ t \in object'[g].foregroundTurnWaiters
      PROVE  \/ object[g].activeForegroundTurnId = t
             \/ hasFinalizedTurn(object[g], t)
             \/ t \in object[g].foregroundTurnWaiters
    <2>1. Calm(object'[g], object[g]) /\ t # None
        BY NoneAssumption
    <2>2. CASE t \in object'[g].foregroundTurnWaiters
        BY <2>1, <2>2 DEF Calm
    <2>3. CASE object'[g].activeForegroundTurnId = t
        BY <2>1, <2>3 DEF Calm
    <2>4. CASE hasFinalizedTurn(object'[g], t)
        BY <2>1, <2>4 DEF Calm, hasFinalizedTurn
    <2>5. QED
        BY <1>2, <2>2, <2>3, <2>4
<1>3. TurnsBegun'
    <2>1. \A g \in Gen, t \in Turn :
             \/ object'[g].activeForegroundTurnId = t
             \/ hasFinalizedTurn(object'[g], t)
             \/ t \in object'[g].foregroundTurnWaiters
             => Begun(t)
        BY <1>2 DEF StreamInv, TurnsBegun
    <2>2. settled' \subseteq Turn /\ \A n \in notify' : n[1] \in Turn
        BY DEF TypeOK
    <2>3. /\ \A t \in settled' : Begun(t)'
          /\ \A n \in notify' : Begun(n[1])'
        BY <2>2 DEF OnlyBegun, StreamInv, TurnsBegun
    <2>4. QED
        BY <2>1, <2>3 DEF OnlyBegun, TurnsBegun
<1>4. NotFinalized'
    <2> SUFFICES ASSUME NEW g \in Gen, object'[g].activeForegroundTurnId # None
                 PROVE  ~hasFinalizedTurn(object'[g], object'[g].activeForegroundTurnId)
        BY DEF NotFinalized
    <2>1. /\ object'[g].activeForegroundTurnId = object[g].activeForegroundTurnId
          /\ object'[g].finalizedForegroundTurnIds = object[g].finalizedForegroundTurnIds
        BY DEF Calm
    <2>2. ~hasFinalizedTurn(object[g], object[g].activeForegroundTurnId)
        BY <2>1 DEF StreamInv, NotFinalized
    <2>3. QED
        BY <2>1, <2>2 DEF hasFinalizedTurn
<1>5. QED
    BY <1>3, <1>4

(* A step that leaves the turns, the waiters and the runs of every object alone. *)
LEMMA CallsOnly ==
    ASSUME IInv, TypeOK', StreamInv,
           \A g \in Gen : SameRun(object'[g], object[g]),
           UNCHANGED <<settled, notify, inbox, agents>>,
           \A d \in Call : Begun(d) => Begun(d)',
           \A d \in Call : call'[d].pc \in {"starting", "streaming"} => call'[d] = call[d]
    PROVE  StreamInv' /\ TurnEnds
<1>1. TurnsBegun' /\ NotFinalized'
    <2>1. OnlyBegun
        BY DEF OnlyBegun, Call
    <2>2. \A g \in Gen : Calm(object'[g], object[g])
        BY SameIsCalm
    <2>3. QED
        BY <2>1, <2>2, TurnsKept
<1>2. ASSUME NEW d \in Call, call'[d].pc \in {"starting", "streaming"}, call'[d].gen = agents'
      PROVE  SameRun(current', current) /\ call'[d] = call[d] /\ call[d].gen = agents
    <2>1. call[d].gen \in Gen
        BY <1>2 DEF IInv, Generations, HoldsObject, TypeOK, CallState
    <2>2. QED
        BY <1>2, <2>1 DEF current
<1>3. StartingIdle'
    BY <1>2 DEF StreamInv, StartingIdle, SameRun
<1>4. StreamReachable'
    BY <1>2 DEF StreamInv, StreamReachable, CanBeEnded, SameRun
<1>5. TurnEnds
    BY DEF TurnEnds, Registered, current, IInv, TypeOK, SameRun
<1>6. QED
    BY <1>1, <1>3, <1>4, <1>5 DEF StreamInv

LEMMA CallMoves ==
    ASSUME TypeOK, NEW c \in Call, NEW r, call' = [call EXCEPT ![c] = r],
           call[c].pc \notin {"streaming", "done"}, r.pc \notin {"starting", "streaming"}
    PROVE  /\ \A d \in Call : Begun(d) => Begun(d)'
           /\ \A d \in Call : call'[d].pc \in {"starting", "streaming"} => call'[d] = call[d]
BY DEF TypeOK, Begun

LEMMA ObjectSame ==
    ASSUME TypeOK, NEW g, NEW b, object' = [object EXCEPT ![g] = b],
           g \in Gen => SameRun(b, object[g])
    PROVE  \A h \in Gen : SameRun(object'[h], object[h])
BY SelfIsSame DEF TypeOK

LEMMA ObjectCalm ==
    ASSUME TypeOK, NEW g, NEW b, object' = [object EXCEPT ![g] = b],
           g \in Gen => Calm(b, object[g])
    PROVE  \A h \in Gen : Calm(object'[h], object[h])
BY SelfIsSame, SameIsCalm DEF TypeOK

-----------------------------------------------------------------------------
(* The steps that only move a call. *)
LEMMA CallStepOnly ==
    ASSUME IInv, TypeOK', StreamInv, NEW c \in Call, NEW r, call' = [call EXCEPT ![c] = r],
           call[c].pc \notin {"streaming", "done"}, r.pc \notin {"starting", "streaming"},
           UNCHANGED <<settled, notify, inbox, agents>>,
           \/ UNCHANGED object
           \/ \E g \in Gen : \E b : /\ object' = [object EXCEPT ![g] = b]
                                    /\ SameRun(b, object[g])
    PROVE  StreamInv' /\ TurnEnds
<1>1. TypeOK
    BY DEF IInv
<1>2. \A g \in Gen : SameRun(object'[g], object[g])
    BY <1>1, SelfIsSame, ObjectSame
<1>3. /\ \A d \in Call : Begun(d) => Begun(d)'
      /\ \A d \in Call : call'[d].pc \in {"starting", "streaming"} => call'[d] = call[d]
    BY <1>1, CallMoves
<1>4. QED
    BY <1>2, <1>3, CallsOnly

LEMMA MoveStepOnly ==
    ASSUME IInv, TypeOK', StreamInv, NEW c \in Call, NEW pc, MoveTo(c, pc) \/ Leave(c, pc),
           call[c].pc \notin {"streaming", "done"}, pc \notin {"starting", "streaming"},
           UNCHANGED <<settled, notify, inbox, agents>>,
           \/ UNCHANGED object
           \/ \E g \in Gen : \E b : /\ object' = [object EXCEPT ![g] = b]
                                    /\ SameRun(b, object[g])
    PROVE  StreamInv' /\ TurnEnds
<1>1. call[c] \in CallState
    BY DEF IInv, TypeOK
<1>2. CASE MoveTo(c, pc)
    <2> DEFINE r == [call[c] EXCEPT !.pc = pc]
    <2>1. r.pc = pc /\ call' = [call EXCEPT ![c] = r]
        BY <1>1, <1>2 DEF MoveTo, CallState
    <2> HIDE DEF r
    <2>2. QED
        BY <2>1, CallStepOnly
<1>3. CASE Leave(c, pc)
    <2> DEFINE r == [call[c] EXCEPT !.pc = pc, !.fg = None, !.pr = None]
    <2>1. r.pc = pc /\ call' = [call EXCEPT ![c] = r]
        BY <1>1, <1>3 DEF Leave, CallState
    <2> HIDE DEF r
    <2>2. QED
        BY <2>1, CallStepOnly
<1>4. QED
    BY <1>2, <1>3

LEMMA CancelBeginsOnly ==
    ASSUME IInv, TypeOK', StreamInv, NEW c \in Call, NEW op, CancelBegins(c, op),
           call[c].pc = "none", UNCHANGED <<settled, notify, inbox, agents>>,
           \/ UNCHANGED object
           \/ \E g \in Gen : \E b : /\ object' = [object EXCEPT ![g] = b]
                                    /\ SameRun(b, object[g])
    PROVE  StreamInv' /\ TurnEnds
<1> DEFINE r == [op |-> op, pc |-> "interrupting", gen |-> agents,
                 fg |-> current.activeForegroundTurnId, pr |-> pendingRun]
<1>1. r.pc = "interrupting" /\ call' = [call EXCEPT ![c] = r]
    BY DEF CancelBegins
<1> HIDE DEF r
<1>2. QED
    BY <1>1, CallStepOnly

(* A run begins: it has no active turn to find, and no stream is disturbed. *)
LEMMA BeginRunStream ==
    ASSUME IInv, TypeOK', StreamInv, NEW c \in Call, NEW op, BeginRun(c, op),
           call[c].pc \notin {"streaming", "done"}
    PROVE  StreamInv' /\ TurnEnds
<1>1. TypeOK /\ agents \in Gen /\ object[agents] \in Agent /\ call[c] \in CallState
    BY DEF IInv, TypeOK, BeginRun, canStream, Registered
<1>2. /\ agents' = agents /\ settled' = settled /\ notify' = notify /\ inbox' = inbox
      /\ object[agents].activeForegroundTurnId = None
      /\ object' = [object EXCEPT ![agents] = runRequested(object[agents])]
    BY DEF BeginRun, canStream, current
<1>3. \A g \in Gen : SameRun(object'[g], object[g])
    <2> DEFINE b == runRequested(object[agents])
    <2>1. SameRun(b, object[agents])
        BY <1>1, NoneAssumption, UpdateFields DEF runRequested, Agent, SameRun
    <2>2. object' = [object EXCEPT ![agents] = b]
        BY <1>2
    <2> HIDE DEF b
    <2>3. QED
        BY <1>1, <2>1, <2>2, ObjectSame
<1>4. /\ call'[c].pc = "starting" /\ \A d \in Call \ {c} : call'[d] = call[d]
    BY <1>1 DEF BeginRun, TypeOK, CallState
<1>5. OnlyBegun
    BY <1>2, <1>4 DEF OnlyBegun, Begun, Call
<1>6. TurnsBegun' /\ NotFinalized'
    BY <1>3, <1>5, SameIsCalm, TurnsKept
<1>7. SameRun(current', current)
    BY <1>1, <1>2, <1>3 DEF current
<1>8. StartingIdle'
    BY <1>2, <1>7 DEF StartingIdle, SameRun, current
<1>9. StreamReachable'
    BY <1>2, <1>4, <1>7 DEF StreamInv, StreamReachable, CanBeEnded, SameRun
<1>10. TurnEnds
    BY <1>7 DEF TurnEnds, SameRun
<1>11. QED
    BY <1>6, <1>8, <1>9, <1>10 DEF StreamInv

(* Without a registered agent there is no live run to speak of. *)
LEMMA UnregisteredStream ==
    ASSUME IInv, IInv', StreamInv, OnlyBegun, agents' = NoGen,
           \A g \in Gen : Calm(object'[g], object[g])
    PROVE  StreamInv' /\ TurnEnds
<1>1. TurnsBegun' /\ NotFinalized'
    BY TurnsKept DEF IInv
<1>2. \A d \in Call : call'[d].pc \in {"starting", "streaming"} => call'[d].gen # agents'
    BY DEF IInv, Generations, HoldsObject
<1>3. StartingIdle' /\ StreamReachable'
    BY <1>2 DEF StartingIdle, StreamReachable, CanBeEnded
<1>4. TurnEnds
    BY DEF TurnEnds, Registered
<1>5. QED
    BY <1>1, <1>3, <1>4 DEF StreamInv

LEMMA ApiCallStream ==
    ASSUME IInv, IInv', StreamInv, NEW c \in Call, ApiCall(c)
    PROVE  StreamInv' /\ TurnEnds
<1>0. TypeOK /\ TypeOK' /\ call[c] \in CallState
    BY DEF IInv, TypeOK
<1>1. CASE StreamAgent(c)
    BY <1>0, <1>1, BeginRunStream DEF StreamAgent
<1>2. CASE ReplaceAgentRun(c)
    <2>1. agents \in Gen /\ object[agents] \in Agent
        BY <1>0, <1>2 DEF ReplaceAgentRun, hasInFlightRun, Registered, TypeOK
    <2> DEFINE b == replacementRequested(object[agents])
    <2>2. SameRun(b, object[agents])
        BY <2>1 DEF replacementRequested, Agent, SameRun
    <2>3. object' = [object EXCEPT ![agents] = b]
        BY <1>2 DEF ReplaceAgentRun
    <2> HIDE DEF b
    <2>4. /\ call[c].pc = "none" /\ CancelBegins(c, "replace")
          /\ UNCHANGED <<settled, notify, inbox, agents>>
        BY <1>2 DEF ReplaceAgentRun
    <2>5. \E g \in Gen : \E x : object' = [object EXCEPT ![g] = x] /\ SameRun(x, object[g])
        BY <2>1, <2>2, <2>3
    <2>6. QED
        BY <1>0, <2>4, <2>5, CancelBeginsOnly
<1>3. CASE CancelAgentRun(c)
    <2>1. /\ call[c].pc = "none" /\ CancelBegins(c, "cancel")
          /\ UNCHANGED <<settled, notify, inbox, agents, object>>
        BY <1>3 DEF CancelAgentRun
    <2>2. QED
        BY <1>0, <2>1, CancelBeginsOnly
<1>4. CASE CloseAgent(c)
    <2>1. agents \in Gen /\ object[agents] \in Agent
        BY <1>0, <1>4 DEF CloseAgent, Registered, TypeOK
    <2> DEFINE b == detached(object[agents])
    <2>2. Calm(b, object[agents])
        BY <2>1 DEF detached, Agent, Calm
    <2>3. /\ object' = [object EXCEPT ![agents] = b]
          /\ settled' = settled \cup object[agents].foregroundTurnWaiters
          /\ notify' = notify /\ agents' = NoGen
          /\ call[c].pc = "none"
          /\ call' = [call EXCEPT ![c] = [@ EXCEPT !.op = "close", !.pc = "closing"]]
        BY <1>4 DEF CloseAgent, current
    <2> HIDE DEF b
    <2>4. \A g \in Gen : Calm(object'[g], object[g])
        BY <1>0, <2>2, <2>3, ObjectCalm
    <2>5. /\ call'[c].pc = "closing" /\ \A d \in Call \ {c} : call'[d] = call[d]
        BY <1>0, <2>3 DEF TypeOK, CallState
    <2>6. \A t \in object[agents].foregroundTurnWaiters : t \in Turn /\ Begun(t)
        BY <2>1 DEF StreamInv, TurnsBegun, Agent
    <2>7. OnlyBegun
        BY <2>3, <2>5, <2>6 DEF OnlyBegun, Begun, Call
    <2>8. QED
        BY <2>3, <2>4, <2>7, UnregisteredStream
<1>5. CASE ReloadAgentSession(c)
    <2>1. call[c].pc = "none" /\ UNCHANGED <<settled, notify, inbox, agents, object>>
        BY <1>5 DEF ReloadAgentSession, NothingElse
    <2>2. CASE hasInFlightRun
        BY <1>0, <1>5, <2>1, <2>2, CancelBeginsOnly DEF ReloadAgentSession
    <2>3. CASE ~hasInFlightRun
        <3> DEFINE r == [call[c] EXCEPT !.op = "reload", !.pc = "opening", !.gen = agents]
        <3>1. r.pc = "opening" /\ call' = [call EXCEPT ![c] = r]
            BY <1>0, <1>5, <2>3 DEF ReloadAgentSession, CallState
        <3> HIDE DEF r
        <3>2. QED
            BY <1>0, <2>1, <3>1, CallStepOnly
    <2>4. QED
        BY <2>2, <2>3
<1>6. CASE ResumeAgent(c)
    <2> DEFINE r == [call[c] EXCEPT !.op = "resume", !.pc = "opening"]
    <2>1. r.pc = "opening" /\ call' = [call EXCEPT ![c] = r]
        BY <1>0, <1>6 DEF ResumeAgent, CallState
    <2> HIDE DEF r
    <2>2. call[c].pc = "none" /\ UNCHANGED <<settled, notify, inbox, agents, object>>
        BY <1>6 DEF ResumeAgent, NothingElse
    <2>3. QED
        BY <1>0, <2>1, <2>2, CallStepOnly
<1>7. QED
    BY <1>1, <1>2, <1>3, <1>4, <1>5, <1>6 DEF ApiCall

-----------------------------------------------------------------------------
(* The steps of the generator and of the delivery of events. *)
LEMMA RunStepStream ==
    ASSUME IInv, IInv', StreamInv, NEW c \in Call, RunStep(c)
    PROVE  StreamInv' /\ TurnEnds
<1>0. TypeOK /\ TypeOK' /\ call[c] \in CallState /\ c \in Turn
    BY DEF IInv, TypeOK, Call
<1>1. CASE StreamEnds(c)
    <2> DEFINE g == call[c].gen
               b == deleteWaiter(object[g], c)
    <2>1. /\ call[c].pc = "streaming" /\ g \in Gen
        BY <1>0, <1>1 DEF StreamEnds, IInv, Generations, HoldsObject, CallState
    <2>2. object[g] \in Agent
        BY <1>0, <2>1 DEF TypeOK
    <2>3. /\ Calm(b, object[g])
          /\ b.activeForegroundTurnId = object[g].activeForegroundTurnId
          /\ b.foregroundTurnWaiters = object[g].foregroundTurnWaiters \ {c}
        BY <1>0, <2>2, UpdateFields
    <2>4. /\ object' = [object EXCEPT ![g] = b]
          /\ settled' = settled \cup {c} /\ notify' = notify /\ agents' = agents
        BY <1>1 DEF StreamEnds
    <2> HIDE DEF b, g
    <2>5. \A h \in Gen : Calm(object'[h], object[h])
        BY <1>0, <2>3, <2>4, ObjectCalm
    <2>6. /\ call'[c].pc = "done" /\ \A d \in Call \ {c} : call'[d] = call[d]
          /\ \A d \in Call \ {c} : inbox'[d] = inbox[d]
        BY <1>0, <1>1 DEF StreamEnds, TypeOK, CallState
    <2>7. OnlyBegun
        BY <1>0, <2>4, <2>6 DEF OnlyBegun, Begun, Call
    <2>8. TurnsBegun' /\ NotFinalized'
        BY <1>0, <2>5, <2>7, TurnsKept
    <2>9. \A h \in Gen :
             /\ object'[h].activeForegroundTurnId = object[h].activeForegroundTurnId
             /\ object[h].foregroundTurnWaiters \ {c} \subseteq object'[h].foregroundTurnWaiters
        BY <1>0, <2>3, <2>4 DEF TypeOK
    <2>10. agents # NoGen =>
             /\ current'.activeForegroundTurnId = current.activeForegroundTurnId
             /\ current.foregroundTurnWaiters \ {c} \subseteq current'.foregroundTurnWaiters
        BY <1>0, <2>4, <2>9 DEF current, TypeOK
    <2>11. \A d \in Call : call'[d].pc \in {"starting", "streaming"} /\ call'[d].gen = agents'
                           => /\ d # c /\ call'[d] = call[d] /\ agents # NoGen
                              /\ call[d].pc = call'[d].pc /\ call[d].gen = agents
        BY <2>4, <2>6 DEF IInv, Generations, HoldsObject
    <2>12. StartingIdle'
        BY <2>10, <2>11 DEF StreamInv, StartingIdle
    <2>13. StreamReachable'
        <3> SUFFICES ASSUME NEW d \in Call, call'[d].pc = "streaming", call'[d].gen = agents'
                     PROVE  \/ inbox'[d] = "terminal"
                            \/ <<d, TRUE>> \in notify'
                            \/ /\ current'.activeForegroundTurnId = d
                               /\ d \in current'.foregroundTurnWaiters \ settled'
            BY DEF StreamReachable, CanBeEnded
        <3>1. d # c /\ Registered /\ (inbox'[d] = inbox[d])
            BY <2>6, <2>11 DEF Registered
        <3>2. \/ inbox[d] = "terminal"
              \/ <<d, TRUE>> \in notify
              \/ /\ current.activeForegroundTurnId = d
                 /\ d \in current.foregroundTurnWaiters \ settled
            BY <2>11 DEF StreamInv, StreamReachable, CanBeEnded
        <3>3. QED
            BY <2>4, <2>10, <3>1, <3>2 DEF Registered
    <2>14. TurnEnds
        BY <2>10 DEF TurnEnds, Registered
    <2>15. QED
        BY <2>8, <2>12, <2>13, <2>14 DEF StreamInv
<1>2. CASE StreamContinues(c)
    <2>1. /\ inbox[c] = "event"
          /\ UNCHANGED <<agents, object, settled, notify, call>>
          /\ \A d \in Call \ {c} : inbox'[d] = inbox[d]
        BY <1>0, <1>2 DEF StreamContinues, TypeOK
    <2>2. current' = current
        BY <2>1 DEF current
    <2>3. QED
        BY <2>1, <2>2 DEF StreamInv, TurnsBegun, NotFinalized, StartingIdle, StreamReachable, CanBeEnded,
                          TurnEnds, Begun
<1>3. QED
    BY <1>1, <1>2 DEF RunStep

LEMMA NotifyStream ==
    ASSUME IInv, IInv', StreamInv, NotifyWaiter
    PROVE  StreamInv' /\ TurnEnds
<1>1. PICK n \in notify :
        /\ notify' = notify \ {n}
        /\ inbox' = [inbox EXCEPT ![n[1]] = IF n[2] THEN "terminal"
                                            ELSE IF @ = "empty" THEN "event" ELSE @]
        /\ settled' = IF n[2] THEN settled \cup {n[1]} ELSE settled
        /\ UNCHANGED <<agents, object, nextGen, pendingRun, tail, call, provider, sent>>
    BY DEF NotifyWaiter
<1>2. n[1] \in Call /\ n[2] \in BOOLEAN /\ n = <<n[1], n[2]>>
    BY DEF IInv, TypeOK, Call
<1>3. /\ \A d \in Call \ {n[1]} : inbox'[d] = inbox[d]
      /\ n[2] => inbox'[n[1]] = "terminal"
      /\ inbox[n[1]] = "terminal" => inbox'[n[1]] = "terminal"
    BY <1>1, <1>2 DEF IInv, TypeOK
<1>4. current' = current
    BY <1>1 DEF current
<1>5. \A g \in Gen : SameRun(object'[g], object[g])
    BY <1>1 DEF SameRun
<1>6. OnlyBegun
    BY <1>1, <1>2 DEF OnlyBegun, Begun, StreamInv, TurnsBegun
<1>7. TurnsBegun' /\ NotFinalized'
    BY <1>5, <1>6, SameIsCalm, TurnsKept DEF IInv
<1>8. StartingIdle'
    BY <1>1, <1>4 DEF StreamInv, StartingIdle
<1>9. StreamReachable'
    <2> SUFFICES ASSUME NEW d \in Call, call[d].pc = "streaming", call[d].gen = agents
                 PROVE  \/ inbox'[d] = "terminal"
                        \/ <<d, TRUE>> \in notify'
                        \/ /\ current.activeForegroundTurnId = d
                           /\ d \in current.foregroundTurnWaiters \ settled'
        BY <1>1, <1>4 DEF StreamReachable, CanBeEnded
    <2>1. \/ inbox[d] = "terminal"
          \/ <<d, TRUE>> \in notify
          \/ /\ current.activeForegroundTurnId = d
             /\ d \in current.foregroundTurnWaiters \ settled
        BY DEF StreamInv, StreamReachable, CanBeEnded
    <2>2. CASE inbox[d] = "terminal"
        BY <1>3, <2>2
    <2>3. CASE <<d, TRUE>> \in notify
        <3>1. CASE n = <<d, TRUE>>
            <4>1. n[1] = d /\ n[2] = TRUE
                BY <3>1
            <4>2. QED
                BY <1>3, <4>1
        <3>2. CASE n # <<d, TRUE>>
            <4>1. notify' = notify \ {n}
                BY <1>1
            <4>2. QED
                BY <2>3, <3>2, <4>1
        <3>3. QED
            BY <3>1, <3>2
    <2>4. CASE d \in current.foregroundTurnWaiters \ settled /\ current.activeForegroundTurnId = d
        BY <1>1, <1>2, <1>3, <2>4
    <2>5. QED
        BY <2>1, <2>2, <2>3, <2>4
<1>10. TurnEnds
    BY <1>4 DEF TurnEnds
<1>11. QED
    BY <1>7, <1>8, <1>9, <1>10 DEF StreamInv

(* A dispatched event that ends the turn of a stream is on its way to it. *)
LEMMA DispatchStream ==
    ASSUME IInv, IInv', StreamInv, NEW g \in Gen, NEW ev \in Event, dispatchSessionEvent(g, ev),
           UNCHANGED <<settled, inbox, agents>>,
           \A d \in Call : Begun(d) => Begun(d)',
           \A d \in Call : call'[d].pc \in {"starting", "streaming"} => call'[d] = call[d]
    PROVE  StreamInv' /\ TurnEnds
<1> DEFINE b == afterEvent(object[g], ev)
<1>1. TypeOK /\ TypeOK' /\ object[g] \in Agent /\ ev.turn \in Turn \cup {None}
    BY DEF IInv, TypeOK, Event
<1>2. /\ b.foregroundTurnWaiters = object[g].foregroundTurnWaiters
      /\ Calm(b, object[g])
      /\ \/ SameRun(b, object[g])
         \/ /\ ev.turn \in Turn /\ object[g].activeForegroundTurnId = ev.turn
            /\ isTurnTerminalEvent(ev) /\ ~throwsHalfway(object[g], ev)
            /\ ~hasFinalizedTurn(object[g], ev.turn) /\ hasFinalizedTurn(b, ev.turn)
    BY <1>1, AfterEventFields
<1>3. object' = [object EXCEPT ![g] = b]
    BY DEF dispatchSessionEvent
<1> HIDE DEF b
<1>4. \A h \in Gen : Calm(object'[h], object[h])
    BY <1>1, <1>2, <1>3, ObjectCalm
<1>5. /\ notify \subseteq notify'
      /\ \A n \in notify' : n \in notify \/ n[1] \in object[g].foregroundTurnWaiters
    BY DEF dispatchSessionEvent, getMatchingWaiters
<1>6. \A t \in object[g].foregroundTurnWaiters : t \in Turn /\ Begun(t)
    BY <1>1 DEF StreamInv, TurnsBegun, Agent
<1>7. OnlyBegun
    BY <1>5, <1>6 DEF OnlyBegun, Call
<1>8. TurnsBegun' /\ NotFinalized'
    BY <1>1, <1>4, <1>7, TurnsKept
<1>9. object'[g] = b /\ \A h \in Gen \ {g} : object'[h] = object[h]
    BY <1>1, <1>3 DEF TypeOK
<1>10. \A d \in Call : call'[d].pc \in {"starting", "streaming"} /\ call'[d].gen = agents'
                       => /\ call'[d] = call[d] /\ agents \in Gen
                          /\ call[d].pc = call'[d].pc /\ call[d].gen = agents
    BY <1>1 DEF IInv, Generations, HoldsObject, TypeOK
<1>11. agents \in Gen =>
         /\ current'.foregroundTurnWaiters = current.foregroundTurnWaiters
         /\ current.activeForegroundTurnId = None => current'.activeForegroundTurnId = None
    BY <1>2, <1>9 DEF current, Calm
<1>12. StartingIdle'
    BY <1>10, <1>11 DEF StreamInv, StartingIdle
<1>13. ASSUME agents \in Gen, NEW t \in Turn, current.activeForegroundTurnId = t,
              current'.activeForegroundTurnId # t
       PROVE  /\ hasFinalizedTurn(current', t)
              /\ t \in current.foregroundTurnWaiters \ settled => <<t, TRUE>> \in notify'
    <2>1. agents = g /\ current = object[g] /\ current' = b
        BY <1>9, <1>13 DEF current
    <2>2. /\ ev.turn = t /\ isTurnTerminalEvent(ev) /\ ~throwsHalfway(object[g], ev)
          /\ ~hasFinalizedTurn(object[g], ev.turn) /\ hasFinalizedTurn(b, ev.turn)
        BY <1>2, <1>13, <2>1 DEF SameRun
    <2>3. /\ ~isDuplicateTerminal(object[g], ev) /\ isTurnTerminalEvent(ev) = TRUE
        BY <2>2 DEF isDuplicateTerminal, isTurnTerminalEvent
    <2>4. {<<w, isTurnTerminalEvent(ev)>> : w \in getMatchingWaiters(object[g], ev.turn)}
              \subseteq notify'
        BY <2>2, <2>3 DEF dispatchSessionEvent
    <2>5. t \in current.foregroundTurnWaiters \ settled =>
              t \in getMatchingWaiters(object[g], ev.turn)
        BY <2>1, <2>2 DEF getMatchingWaiters
    <2>6. QED
        BY <2>1, <2>2, <2>3, <2>4, <2>5
<1>14. StreamReachable'
    <2> SUFFICES ASSUME NEW d \in Call, call'[d].pc = "streaming", call'[d].gen = agents'
                 PROVE  \/ inbox'[d] = "terminal"
                        \/ <<d, TRUE>> \in notify'
                        \/ /\ current'.activeForegroundTurnId = d
                           /\ d \in current'.foregroundTurnWaiters \ settled'
        BY DEF StreamReachable, CanBeEnded
    <2>1. \/ inbox[d] = "terminal"
          \/ <<d, TRUE>> \in notify
          \/ /\ current.activeForegroundTurnId = d
             /\ d \in current.foregroundTurnWaiters \ settled
        BY <1>10 DEF StreamInv, StreamReachable, CanBeEnded
    <2>2. d \in Turn /\ agents \in Gen
        BY <1>10 DEF Call
    <2>3. QED
        BY <1>5, <1>11, <1>13, <2>1, <2>2
<1>15. TurnEnds
    BY <1>1, <1>13 DEF TurnEnds, Registered, TypeOK
<1>16. QED
    BY <1>8, <1>12, <1>14, <1>15 DEF StreamInv

LEMMA DeliveryStream ==
    ASSUME IInv, IInv', StreamInv, Delivery
    PROVE  StreamInv' /\ TurnEnds
<1>1. CASE DequeueSessionEvent
    <2>1. CASE Registered
        <3>1. agents \in Gen /\ Head(tail) \in Event
            BY <1>1, <2>1 DEF DequeueSessionEvent, IInv, TypeOK, Registered
        <3>2. /\ dispatchSessionEvent(agents, Head(tail))
              /\ UNCHANGED <<settled, inbox, agents, call>>
            BY <1>1, <2>1 DEF DequeueSessionEvent
        <3>3. \A d \in Call : Begun(d) => Begun(d)'
            BY <3>2 DEF Begun
        <3>4. QED
            BY <3>1, <3>2, <3>3, DispatchStream
    <2>2. CASE ~Registered
        <3>1. UNCHANGED <<object, notify, settled, inbox, agents, call>>
            BY <1>1, <2>2 DEF DequeueSessionEvent
        <3>2. QED
            BY <3>1, SelfIsSame, CallsOnly DEF IInv, Begun
    <2>3. QED
        BY <2>1, <2>2
<1>2. CASE NotifyWaiter
    BY <1>2, NotifyStream
<1>3. QED
    BY <1>1, <1>2 DEF Delivery

-----------------------------------------------------------------------------
(* The steps of cancels, reloads and registrations. *)
LEMMA CatchSame ==
    ASSUME NEW c \in Call, NEW objects \in [Gen -> Agent], agents \in Gen \cup {NoGen},
           NEW after, after = afterRunError(c, objects)
    PROVE  \A g \in Gen : SameRun(after[g], objects[g])
<1>1. ASSUME NEW a \in Agent PROVE SameRun(replaceRunCatch(a), a)
    BY <1>1 DEF replaceRunCatch, Agent, SameRun
<1>2. CASE call[c].op = "replace" /\ Registered
    <2>1. agents \in Gen /\ after = [objects EXCEPT ![agents] = replaceRunCatch(objects[agents])]
        BY <1>2 DEF Registered, afterRunError
    <2>2. SameRun(replaceRunCatch(objects[agents]), objects[agents])
        BY <1>1, <2>1
    <2>3. QED
        BY <2>1, <2>2, SelfIsSame
<1>3. CASE ~(call[c].op = "replace" /\ Registered)
    BY <1>3, SelfIsSame DEF afterRunError
<1>4. QED
    BY <1>2, <1>3

LEMMA CancelStepStream ==
    ASSUME IInv, IInv', StreamInv, NEW c \in Call, CancelStep(c)
    PROVE  StreamInv' /\ TurnEnds
<1>0. TypeOK /\ TypeOK' /\ call[c] \in CallState
    BY DEF IInv, TypeOK
<1>a. call[c].pc \in AwaitInCancel
    BY DEF CancelStep, InterruptReturns, WaiterSettled, IdleSeen, PendingSettled, CancelTimesOut,
           ForceCancel, NothingToForce, StaleRunSettled, CancelReturns, ReplacementStarts,
           ReplacementRejected, ReloadProceeds, AwaitInCancel
<1>b. call[c].pc \notin {"streaming", "done"} /\ call[c].gen \in Gen
    BY <1>0, <1>a DEF AwaitInCancel, IInv, Generations, HoldsObject, CallState
<1>c. afterTurnWait(c) \in {"await_pending", "checking"}
    BY DEF afterTurnWait
<1>d. ASSUME NothingElse, NEW pc \in AwaitInCancel \cup {"done"}, MoveTo(c, pc) \/ Leave(c, pc)
      PROVE  StreamInv' /\ TurnEnds
    <2>1. /\ UNCHANGED <<settled, notify, inbox, agents>> /\ UNCHANGED object
          /\ pc \notin {"starting", "streaming"}
        BY <1>d DEF NothingElse, AwaitInCancel
    <2>2. QED
        BY <1>0, <1>b, <1>d, <2>1, MoveStepOnly
<1>1. CASE InterruptReturns(c)
    <2> DEFINE pc == IF call[c].fg # None /\ call[c].fg \in object[call[c].gen].foregroundTurnWaiters
                     THEN "await_waiter"
                     ELSE IF call[c].fg # None /\ object[call[c].gen].activeForegroundTurnId = call[c].fg
                          THEN "await_idle" ELSE afterTurnWait(c)
    <2>1. MoveTo(c, pc) /\ NothingElse
        BY <1>1 DEF InterruptReturns
    <2>2. pc \in AwaitInCancel \cup {"done"}
        BY <1>c DEF AwaitInCancel
    <2> HIDE DEF pc
    <2>3. QED
        BY <1>d, <2>1, <2>2
<1>2. CASE WaiterSettled(c)
    BY <1>2, <1>c, <1>d DEF WaiterSettled, AwaitInCancel
<1>3. CASE IdleSeen(c)
    BY <1>3, <1>c, <1>d DEF IdleSeen, AwaitInCancel
<1>4. CASE PendingSettled(c)
    BY <1>4, <1>d DEF PendingSettled, AwaitInCancel
<1>5. CASE CancelTimesOut(c)
    BY <1>5, <1>d DEF CancelTimesOut, AwaitInCancel
<1>6. CASE ForceCancel(c)
    <2> DEFINE ev == [type |-> "turn_canceled", turn |-> call[c].fg]
               r == [call[c] EXCEPT !.fg = None, !.pr = pendingRun,
                                    !.pc = IF pendingRun = None THEN "cancelled" ELSE "await_stale"]
    <2>1. ev \in Event
        BY <1>0 DEF Event, EventType, TerminalType, CallState
    <2>2. /\ dispatchSessionEvent(call[c].gen, ev) /\ call' = [call EXCEPT ![c] = r]
          /\ UNCHANGED <<settled, inbox, agents>>
        BY <1>6 DEF ForceCancel
    <2>3. r.pc \notin {"starting", "streaming"}
        BY <1>0 DEF CallState
    <2> HIDE DEF ev, r
    <2>4. /\ \A d \in Call : Begun(d) => Begun(d)'
          /\ \A d \in Call : call'[d].pc \in {"starting", "streaming"} => call'[d] = call[d]
        BY <1>0, <1>b, <2>2, <2>3, CallMoves
    <2>5. QED
        BY <1>b, <2>1, <2>2, <2>4, DispatchStream
<1>7. CASE NothingToForce(c)
    BY <1>7, <1>d DEF NothingToForce, AwaitInCancel
<1>8. CASE StaleRunSettled(c)
    BY <1>8, <1>d DEF StaleRunSettled, AwaitInCancel
<1>9. CASE CancelReturns(c)
    BY <1>9, <1>d DEF CancelReturns
<1>10. CASE ReplacementStarts(c)
    BY <1>0, <1>b, <1>10, BeginRunStream DEF ReplacementStarts
<1>11. CASE ReplacementRejected(c)
    <2>1. \A g \in Gen : SameRun(object'[g], object[g])
        BY <1>0, <1>11, CatchSame DEF ReplacementRejected, TypeOK
    <2> DEFINE r == [call[c] EXCEPT !.pc = "done"]
    <2>2. r.pc = "done" /\ call' = [call EXCEPT ![c] = r]
        BY <1>0, <1>11 DEF ReplacementRejected, MoveTo, CallState
    <2> HIDE DEF r
    <2>3. /\ \A d \in Call : Begun(d) => Begun(d)'
          /\ \A d \in Call : call'[d].pc \in {"starting", "streaming"} => call'[d] = call[d]
        BY <1>0, <1>b, <2>2, CallMoves
    <2>4. UNCHANGED <<settled, notify, inbox, agents>>
        BY <1>11 DEF ReplacementRejected
    <2>5. QED
        BY <1>0, <2>1, <2>3, <2>4, CallsOnly
<1>12. CASE ReloadProceeds(c)
    <2> DEFINE r == [call[c] EXCEPT !.gen = agents, !.pc = IF Registered THEN "opening" ELSE "done"]
    <2>1. /\ call' = [call EXCEPT ![c] = r]
          /\ UNCHANGED <<settled, notify, inbox, agents, object>>
        BY <1>12 DEF ReloadProceeds, NothingElse
    <2>2. r.pc \notin {"starting", "streaming"}
        BY <1>0 DEF CallState
    <2> HIDE DEF r
    <2>3. QED
        BY <1>0, <1>b, <2>1, <2>2, CallStepOnly
<1>13. QED
    BY <1>1, <1>2, <1>3, <1>4, <1>5, <1>6, <1>7, <1>8, <1>9, <1>10, <1>11, <1>12 DEF CancelStep

LEMMA RegisterStepStream ==
    ASSUME IInv, IInv', StreamInv, NEW c \in Call, RegisterStep(c)
    PROVE  StreamInv' /\ TurnEnds
<1>0. TypeOK /\ TypeOK' /\ call[c] \in CallState
    BY DEF IInv, TypeOK
<1>a. /\ call[c].pc \in AwaitInRegister \cup {"closing"}
      /\ call[c].pc \notin {"starting", "streaming", "done"}
    BY DEF RegisterStep, SessionOpenFails, ReloadSwaps, RegisterChecks, RegisterSets,
           RegisterCompletes, CloseReturns, AwaitInRegister
<1>1. CASE SessionOpenFails(c)
    BY <1>0, <1>a, <1>1, MoveStepOnly DEF SessionOpenFails, NothingElse
<1>2. CASE ReloadSwaps(c)
    <2> DEFINE g == call[c].gen
               b == detached(object[g])
    <2>1. g \in Gen /\ object[g] \in Agent
        BY <1>0, <1>2 DEF ReloadSwaps, IInv, Generations, HoldsObject, CallState, TypeOK
    <2>2. Calm(b, object[g])
        BY <2>1 DEF detached, Agent, Calm
    <2>3. /\ object' = [object EXCEPT ![g] = b]
          /\ settled' = settled \cup object[g].foregroundTurnWaiters
          /\ notify' = notify /\ agents' = NoGen
          /\ call' = [call EXCEPT ![c].pc = "closing_old"]
        BY <1>2 DEF ReloadSwaps, MoveTo
    <2> HIDE DEF b, g
    <2>4. \A h \in Gen : Calm(object'[h], object[h])
        BY <1>0, <2>2, <2>3, ObjectCalm
    <2>5. \A d \in Call : Begun(d) => Begun(d)'
        BY <1>0, <1>a, <2>3 DEF TypeOK, Begun
    <2>6. \A t \in object[g].foregroundTurnWaiters : t \in Turn /\ Begun(t)
        BY <2>1 DEF StreamInv, TurnsBegun, Agent
    <2>7. OnlyBegun
        BY <2>3, <2>5, <2>6 DEF OnlyBegun, Call
    <2>8. QED
        BY <2>3, <2>4, <2>7, UnregisteredStream
<1>3. CASE RegisterChecks(c)
    <2> DEFINE pc == IF Registered THEN "done" ELSE "registering"
    <2>1. /\ MoveTo(c, pc) /\ pc \notin {"starting", "streaming"}
          /\ UNCHANGED <<settled, notify, inbox, agents, object>>
        BY <1>3 DEF RegisterChecks
    <2> HIDE DEF pc
    <2>2. QED
        BY <1>0, <1>a, <2>1, MoveStepOnly
<1>4. CASE RegisterSets(c)
    <2>1. /\ nextGen \in Gen /\ agents' = nextGen
          /\ UNCHANGED <<settled, notify, inbox>>
          /\ call' = [call EXCEPT ![c] = [@ EXCEPT !.gen = nextGen, !.pc = "settling"]]
        BY <1>0, <1>4, BoundsAssumption DEF RegisterSets, TypeOK, Gen
    <2>2. PICK err \in BOOLEAN : object' = [object EXCEPT ![nextGen] = registeredAgent(err)]
        BY <1>4 DEF RegisterSets
    <2> DEFINE b == registeredAgent(err)
    <2>3. Calm(b, object[nextGen])
        BY <1>0, <2>1, FreshFields DEF TypeOK
    <2>4. object' = [object EXCEPT ![nextGen] = b]
        BY <2>2
    <2> HIDE DEF b
    <2>5. \A h \in Gen : Calm(object'[h], object[h])
        BY <1>0, <2>3, <2>4, ObjectCalm
    <2>6. /\ \A d \in Call : Begun(d) => Begun(d)'
          /\ \A d \in Call : call'[d].pc \in {"starting", "streaming"} => call'[d] = call[d]
        BY <1>0, <1>a, <2>1 DEF TypeOK, Begun, CallState
    <2>7. OnlyBegun
        BY <2>1, <2>6 DEF OnlyBegun, Call
    <2>8. TurnsBegun' /\ NotFinalized'
        BY <1>0, <2>5, <2>7, TurnsKept
    <2>9. \A d \in Call : call'[d].pc \in {"starting", "streaming"} => call'[d].gen # agents'
        BY <1>0, <2>1, <2>6 DEF IInv, Generations, TypeOK, CallState, Gen, NoGen
    <2>10. StartingIdle' /\ StreamReachable'
        BY <2>9 DEF StartingIdle, StreamReachable, CanBeEnded
    <2>11. TurnEnds
        BY <1>0, <2>1 DEF TurnEnds, IInv, Generations, TypeOK, Gen, NoGen
    <2>12. QED
        BY <2>8, <2>10, <2>11 DEF StreamInv
<1>5. CASE RegisterCompletes(c)
    <2> DEFINE g == call[c].gen
               b == registrationComplete(object[g])
    <2>1. g \in Gen => SameRun(b, object[g])
        BY <1>0, CallFields DEF registrationComplete, Agent, SameRun
    <2>2. /\ object' = [object EXCEPT ![g] = b]
          /\ MoveTo(c, "done") /\ UNCHANGED <<settled, notify, inbox, agents>>
        BY <1>5 DEF RegisterCompletes
    <2> DEFINE r == [call[c] EXCEPT !.pc = "done"]
    <2>3. r.pc = "done" /\ call' = [call EXCEPT ![c] = r]
        BY <1>0, <2>2 DEF MoveTo, CallState
    <2> HIDE DEF g, b, r
    <2>4. \A h \in Gen : SameRun(object'[h], object[h])
        BY <1>0, <2>1, <2>2, ObjectSame
    <2>5. /\ \A d \in Call : Begun(d) => Begun(d)'
          /\ \A d \in Call : call'[d].pc \in {"starting", "streaming"} => call'[d] = call[d]
        BY <1>0, <1>a, <2>3, CallMoves
    <2>6. QED
        BY <1>0, <2>2, <2>4, <2>5, CallsOnly
<1>6. CASE CloseReturns(c)
    BY <1>0, <1>a, <1>6, MoveStepOnly DEF CloseReturns
<1>7. QED
    BY <1>1, <1>2, <1>3, <1>4, <1>5, <1>6 DEF RegisterStep

-----------------------------------------------------------------------------
(* The provider's answer to startTurn. *)

(* The starting run on the registered agent is the only live one. *)
LEMMA OnlyStarting ==
    ASSUME IInv, NEW c \in Call, call[c].pc = "starting", call[c].gen = agents,
           NEW d \in Call, call[d].pc \in {"starting", "streaming"}, call[d].gen = agents
    PROVE  d = c
BY DEF IInv, LiveRunHoldsToken, Live, InRun

LEMMA StartTurnResolvesStream ==
    ASSUME IInv, IInv', StreamInv, NEW c \in Call, StartTurnResolves(c)
    PROVE  StreamInv' /\ TurnEnds
<1> DEFINE g == call[c].gen
           b == turnActive(object[g], c)
<1>0. /\ TypeOK /\ TypeOK' /\ call[c] \in CallState /\ c \in Turn /\ c # None
      /\ call[c].pc = "starting" /\ g \in Gen /\ object[g] \in Agent
    BY NoneAssumption DEF IInv, TypeOK, Call, StartTurnResolves, Generations, HoldsObject, CallState
<1>1. /\ b.activeForegroundTurnId = c
      /\ b.foregroundTurnWaiters = object[g].foregroundTurnWaiters \cup {c}
      /\ b.finalizedForegroundTurnIds = object[g].finalizedForegroundTurnIds
    BY <1>0, UpdateFields
<1>2. /\ object' = [object EXCEPT ![g] = b]
      /\ UNCHANGED <<agents, settled, notify, inbox>>
    BY <1>0 DEF StartTurnResolves
<1>3. /\ call'[c].pc = "streaming" /\ call'[c].gen = g
      /\ \A d \in Call \ {c} : call'[d] = call[d]
    BY <1>0 DEF StartTurnResolves, TypeOK, CallState
<1>4. ~Begun(c) /\ Begun(c)' /\ \A d \in Call : Begun(d) => Begun(d)'
    BY <1>0, <1>3 DEF Begun
<1>5. g = agents => current.activeForegroundTurnId = None
    BY <1>0 DEF StreamInv, StartingIdle
<1>6. \A d \in Call : d # c /\ call[d].pc \in {"starting", "streaming"} /\ call[d].gen = agents
                      => g # agents
    BY <1>0, OnlyStarting
<1> HIDE DEF b, g
<1>7. object'[g] = b /\ \A h \in Gen \ {g} : object'[h] = object[h]
    BY <1>0, <1>2 DEF TypeOK
<1>8. \A t \in Turn : hasFinalizedTurn(b, t) <=> hasFinalizedTurn(object[g], t)
    BY <1>1 DEF hasFinalizedTurn
<1>9. TurnsBegun'
    <2>1. ASSUME NEW h \in Gen, NEW t \in Turn,
                 \/ object'[h].activeForegroundTurnId = t
                 \/ hasFinalizedTurn(object'[h], t)
                 \/ t \in object'[h].foregroundTurnWaiters
          PROVE  t = c \/ Begun(t)
        BY <1>0, <1>1, <1>7, <1>8, <2>1 DEF StreamInv, TurnsBegun
    <2>2. /\ \A t \in settled' : Begun(t)'
          /\ \A n \in notify' : Begun(n[1])'
        BY <1>0, <1>2, <1>4 DEF StreamInv, TurnsBegun, TypeOK, Call
    <2>3. QED
        BY <1>4, <2>1, <2>2 DEF TurnsBegun, Call
<1>10. NotFinalized'
    <2>1. ~hasFinalizedTurn(object[g], c)
        BY <1>0, <1>4 DEF StreamInv, TurnsBegun
    <2>2. QED
        BY <1>0, <1>1, <1>7, <1>8, <2>1 DEF StreamInv, NotFinalized
<1>11. g # agents /\ agents # NoGen => current' = current
    BY <1>0, <1>2, <1>7 DEF current, TypeOK
<1>12. \A d \in Call : d # c /\ call'[d].pc \in {"starting", "streaming"} /\ call'[d].gen = agents'
                       => current' = current /\ call'[d] = call[d]
    BY <1>0, <1>2, <1>3, <1>6, <1>11 DEF IInv, Generations, HoldsObject
<1>13. StartingIdle'
    BY <1>2, <1>3, <1>12 DEF StreamInv, StartingIdle
<1>14. StreamReachable'
    <2> SUFFICES ASSUME NEW d \in Call, call'[d].pc = "streaming", call'[d].gen = agents'
                 PROVE  \/ inbox'[d] = "terminal"
                        \/ <<d, TRUE>> \in notify'
                        \/ /\ current'.activeForegroundTurnId = d
                           /\ d \in current'.foregroundTurnWaiters \ settled'
        BY DEF StreamReachable, CanBeEnded
    <2>1. CASE d = c
        <3>1. current' = b
            BY <1>2, <1>3, <1>7, <2>1 DEF current
        <3>2. c \notin settled
            BY <1>4 DEF StreamInv, TurnsBegun
        <3>3. QED
            BY <1>1, <1>2, <2>1, <3>1, <3>2
    <2>2. CASE d # c
        BY <1>2, <1>12, <2>2 DEF StreamInv, StreamReachable, CanBeEnded
    <2>3. QED
        BY <2>1, <2>2
<1>15. TurnEnds
    BY <1>5, <1>11, NoneAssumption DEF TurnEnds, Registered
<1>16. QED
    BY <1>9, <1>10, <1>13, <1>14, <1>15 DEF StreamInv

LEMMA StartTurnFailsStream ==
    ASSUME IInv, IInv', StreamInv, NEW c \in Call, StartTurnFails(c)
    PROVE  StreamInv' /\ TurnEnds
<1> DEFINE g == call[c].gen
           h == handleStreamEvent(object[g], startFailedEvent)
           b == finalizeForegroundTurn(h, None)
           mid == [object EXCEPT ![g] = b]
<1>0. /\ TypeOK /\ TypeOK' /\ call[c] \in CallState
      /\ call[c].pc = "starting" /\ g \in Gen /\ object[g] \in Agent
    BY DEF IInv, TypeOK, StartTurnFails, Generations, HoldsObject, CallState
<1>1. startFailedEvent \in Event /\ startFailedEvent.turn = None
    BY DEF startFailedEvent, Event, EventType, TerminalType
<1>2. h \in Agent /\ SameRun(h, object[g])
    BY <1>0, <1>1, NoneAssumption, HandleType, HandleFields
<1>3. /\ b \in Agent /\ b.activeForegroundTurnId = None
      /\ b.foregroundTurnWaiters = object[g].foregroundTurnWaiters
      /\ b.finalizedForegroundTurnIds = object[g].finalizedForegroundTurnIds
    BY <1>2, FinalizeFields, FinalizeType DEF SameRun
<1>4. /\ object' = afterRunError(c, mid)
      /\ UNCHANGED <<agents, settled, notify, inbox>>
    BY DEF StartTurnFails
<1>5. /\ call'[c].pc = "done"
      /\ \A d \in Call \ {c} : call'[d] = call[d]
    BY <1>0 DEF StartTurnFails, TypeOK, CallState
<1>6. g = agents => current.activeForegroundTurnId = None
    BY <1>0 DEF StreamInv, StartingIdle
<1>7. \A d \in Call : d # c /\ call[d].pc \in {"starting", "streaming"} /\ call[d].gen = agents
                      => g # agents
    BY <1>0, OnlyStarting
<1> HIDE DEF g, h, b
<1>8. mid \in [Gen -> Agent] /\ mid[g] = b /\ \A k \in Gen \ {g} : mid[k] = object[k]
    BY <1>0, <1>3 DEF TypeOK
<1> HIDE DEF mid
<1>9. \A k \in Gen : SameRun(object'[k], mid[k])
    BY <1>0, <1>4, <1>8, CatchSame DEF TypeOK
<1>10. \A k \in Gen : Calm(object'[k], object[k])
    BY <1>3, <1>8, <1>9 DEF SameRun, Calm, hasFinalizedTurn
<1>11. OnlyBegun
    BY <1>4, <1>5 DEF OnlyBegun, Begun, Call
<1>12. TurnsBegun' /\ NotFinalized'
    BY <1>0, <1>10, <1>11, TurnsKept
<1>13. g # agents /\ agents # NoGen => SameRun(current', current)
    BY <1>0, <1>4, <1>8, <1>9 DEF current, TypeOK, SameRun
<1>14. g = agents => current'.activeForegroundTurnId = None
    BY <1>0, <1>3, <1>4, <1>8, <1>9 DEF current, SameRun
<1>15. \A d \in Call : call'[d].pc \in {"starting", "streaming"} /\ call'[d].gen = agents'
                       => SameRun(current', current) /\ call'[d] = call[d]
    BY <1>0, <1>4, <1>5, <1>7, <1>13 DEF IInv, Generations, HoldsObject
<1>16. StartingIdle'
    BY <1>4, <1>15 DEF StreamInv, StartingIdle, SameRun
<1>17. StreamReachable'
    BY <1>4, <1>15 DEF StreamInv, StreamReachable, CanBeEnded, SameRun
<1>18. TurnEnds
    BY <1>6, <1>13, NoneAssumption DEF TurnEnds, Registered, SameRun
<1>19. QED
    BY <1>12, <1>16, <1>17, <1>18 DEF StreamInv

LEMMA StartTurnUnrecordedStream ==
    ASSUME IInv, IInv', StreamInv, NEW c \in Call, StartTurnFailsUnrecorded(c)
    PROVE  StreamInv' /\ TurnEnds
<1> DEFINE g == call[c].gen
           b == onStreamTurnFailed(object[g], startFailedEvent)
           mid == [object EXCEPT ![g] = b]
           r == [call[c] EXCEPT !.pc = "done"]
<1>0. /\ TypeOK /\ TypeOK' /\ call[c] \in CallState
      /\ call[c].pc = "starting" /\ g \in Gen /\ object[g] \in Agent
    BY DEF IInv, TypeOK, StartTurnFailsUnrecorded, Generations, HoldsObject, CallState
<1>1. b \in Agent /\ SameRun(b, object[g])
    BY <1>0 DEF onStreamTurnFailed, Agent, Lifecycle, SameRun
<1>2. /\ object' = afterRunError(c, mid) /\ call' = [call EXCEPT ![c] = r] /\ r.pc = "done"
      /\ UNCHANGED <<agents, settled, notify, inbox>>
    BY <1>0 DEF StartTurnFailsUnrecorded, CallState
<1> HIDE DEF g, b, r
<1>3. mid \in [Gen -> Agent] /\ mid[g] = b /\ \A k \in Gen \ {g} : mid[k] = object[k]
    BY <1>0, <1>1 DEF TypeOK
<1> HIDE DEF mid
<1>4. \A k \in Gen : SameRun(object'[k], mid[k])
    BY <1>0, <1>2, <1>3, CatchSame DEF TypeOK
<1>5. \A k \in Gen : SameRun(object'[k], object[k])
    BY <1>1, <1>3, <1>4 DEF SameRun
<1>6. /\ \A d \in Call : Begun(d) => Begun(d)'
      /\ \A d \in Call : call'[d].pc \in {"starting", "streaming"} => call'[d] = call[d]
    BY <1>0, <1>2, CallMoves
<1>7. QED
    BY <1>0, <1>2, <1>5, <1>6, CallsOnly

LEMMA ProviderStepStream ==
    ASSUME IInv, IInv', StreamInv, NEW c \in Call, ProviderStep(c)
    PROVE  StreamInv' /\ TurnEnds
<1>0. TypeOK /\ TypeOK' /\ call[c] \in CallState
    BY DEF IInv, TypeOK
<1>1. CASE StartTurnResolves(c)
    BY <1>1, StartTurnResolvesStream
<1>2. CASE StartTurnFails(c)
    BY <1>2, StartTurnFailsStream
<1>3. CASE StartTurnFailsUnrecorded(c)
    BY <1>3, StartTurnUnrecordedStream
<1>4. CASE ProviderStartsTurn(c) \/ ProviderEndsTurn(c)
    <2>1. UNCHANGED <<object, settled, notify, inbox, agents, call>>
        BY <1>4 DEF ProviderStartsTurn, ProviderEndsTurn, Send
    <2>2. QED
        BY <1>0, <2>1, SelfIsSame, CallsOnly DEF Begun
<1>5. QED
    BY <1>1, <1>2, <1>3, <1>4 DEF ProviderStep

LEMMA InitStream == Init => StreamInv
<1> SUFFICES ASSUME Init PROVE StreamInv
    OBVIOUS
<1>1. /\ registeredAgent(FALSE).activeForegroundTurnId = None
      /\ registeredAgent(FALSE).finalizedForegroundTurnIds = <<>>
      /\ registeredAgent(FALSE).foregroundTurnWaiters = {}
      /\ registeredAgent(FALSE) \in Agent
    BY RegisteredType DEF registeredAgent
<1>2. SameRun(registrationComplete(registeredAgent(FALSE)), registeredAgent(FALSE))
    BY <1>1 DEF registrationComplete, Agent, SameRun
<1>3. \A g \in Gen : /\ object[g].activeForegroundTurnId = None
                     /\ object[g].finalizedForegroundTurnIds = <<>>
                     /\ object[g].foregroundTurnWaiters = {}
    BY <1>1, <1>2 DEF Init, SameRun
<1>a. DOMAIN <<>> = {}
    OBVIOUS
<1>b. \A g \in Gen, t \in Turn : ~hasFinalizedTurn(object[g], t)
    BY <1>3, <1>a DEF hasFinalizedTurn
<1>4. TurnsBegun /\ NotFinalized
    <2>1. settled = {} /\ notify = {}
        BY DEF Init
    <2>2. TurnsBegun
        BY <1>3, <1>b, <2>1, NoneAssumption DEF TurnsBegun
    <2>3. NotFinalized
        BY <1>3 DEF NotFinalized
    <2>4. QED
        BY <2>2, <2>3
<1>5. \A c \in Call : call[c].pc = "none"
    BY DEF Init
<1>6. StartingIdle /\ StreamReachable
    BY <1>5 DEF StartingIdle, StreamReachable, CanBeEnded
<1>7. QED
    BY <1>4, <1>6 DEF StreamInv

LEMMA StreamStep ==
    ASSUME IInv, IInv', StreamInv, [Next]_vars
    PROVE  StreamInv' /\ TurnEnds
<1>1. ASSUME NEW c \in Call, ApiCall(c) PROVE StreamInv' /\ TurnEnds
    BY <1>1, ApiCallStream
<1>2. ASSUME NEW c \in Call, RunStep(c) PROVE StreamInv' /\ TurnEnds
    BY <1>2, RunStepStream
<1>3. ASSUME NEW c \in Call, CancelStep(c) PROVE StreamInv' /\ TurnEnds
    BY <1>3, CancelStepStream
<1>4. ASSUME NEW c \in Call, RegisterStep(c) PROVE StreamInv' /\ TurnEnds
    BY <1>4, RegisterStepStream
<1>5. ASSUME NEW c \in Call, ProviderStep(c) PROVE StreamInv' /\ TurnEnds
    BY <1>5, ProviderStepStream
<1>6. CASE Delivery
    BY <1>6, DeliveryStream
<1>7. CASE ProviderActsAutonomously \/ UNCHANGED vars
    <2>1. TypeOK' /\ UNCHANGED <<object, settled, notify, inbox, agents, call>>
        BY <1>7 DEF ProviderActsAutonomously, Send, vars, IInv
    <2>2. QED
        BY <2>1, SelfIsSame, CallsOnly DEF Begun
<1>8. QED
    BY <1>1, <1>2, <1>3, <1>4, <1>5, <1>6, <1>7 DEF Next

-----------------------------------------------------------------------------
(* The theorems. *)

(* What the stream theorems rest on: only turns whose startTurn has          *)
(* resolved are known to an agent object, and the run about to start one     *)
(* finds no turn active.                                                     *)
THEOREM StreamInductive == Spec => [](IInv /\ StreamInv)
<1>1. IInv /\ StreamInv /\ IInv' /\ [Next]_vars => StreamInv'
    BY StreamStep
<1>2. QED
    BY <1>1, InitStream, Inductive, PTL DEF Spec

(* However cancels, replacements, reloads, timeouts and late provider events *)
(* interleave, the generator that runs on the registered agent can still be  *)
(* woken for the last time: no stream is left hanging on a lost waiter.      *)
THEOREM StreamNeverStranded == Spec => []StreamReachable
<1>1. StreamInv => StreamReachable
    BY DEF StreamInv
<1>2. QED
    BY <1>1, StreamInductive, PTL

(* A pending-run token is never held for an unregistered id.  While the      *)
(* timeline is there, the token of a run on the registered agent is that of  *)
(* a run that awaits startTurn or whose stream can be ended: nothing is      *)
(* leaked but in the two races the property names.                           *)
THEOREM TokenOwned == Spec => []PendingRunOwned
<1>1. IInv /\ StreamInv => PendingRunOwned
    <2> SUFFICES ASSUME IInv, StreamInv, pendingRun # None
                 PROVE  PendingRunOwned
        BY DEF PendingRunOwned
    <2>1. /\ pendingRun \in Call /\ Registered
          /\ call[pendingRun].pc \in {"starting", "streaming", "done"}
          /\ call[pendingRun].pc = "done" /\ timeline => call[pendingRun].gen # agents
        BY HolderCases DEF IInv
    <2>2. call[pendingRun].pc = "streaming" /\ call[pendingRun].gen = agents =>
            CanBeEnded(pendingRun)
        BY <2>1 DEF StreamInv, StreamReachable
    <2>3. QED
        BY <2>1, <2>2 DEF PendingRunOwned
<1>2. QED
    BY <1>1, StreamInductive, PTL

(* The turn a registered agent shows as active is never one whose terminal   *)
(* event would be dropped as a duplicate.                                    *)
THEOREM ActiveTurnCanEnd == Spec => []ActiveNotFinalized
<1>1. IInv /\ StreamInv => ActiveNotFinalized
    BY DEF IInv, TypeOK, StreamInv, NotFinalized, ActiveNotFinalized, Registered, current
<1>2. QED
    BY <1>1, StreamInductive, PTL

(* No step takes an active turn down other than by finalizing that turn:     *)
(* not the failed start of another run, not a late event of another turn.    *)
THEOREM TurnsEndByFinalization == Spec => TurnEndsOnlyFinalized
<1>1. (IInv /\ StreamInv) /\ (IInv /\ StreamInv)' /\ [Next]_vars =>
        [\A t \in Turn :
            /\ Registered /\ agents' = agents
            /\ current.activeForegroundTurnId = t
            /\ current'.activeForegroundTurnId # t
            => hasFinalizedTurn(current', t)]_vars
    BY StreamStep DEF TurnEnds
<1>2. QED
    BY <1>1, StreamInductive, PTL DEF Spec, TurnEndsOnlyFinalized

=============================================================================
