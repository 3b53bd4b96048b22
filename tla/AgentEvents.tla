------------------------------ MODULE AgentEvents ------------------------------
(***************************************************************************)
(* What AgentManager does to one agent object when a provider event is     *)
(* handled: pure operators on the object's run-related fields.  Timeline   *)
(* and permission events do not touch those fields and are not events      *)
(* here.  An error text is abstracted to "there is one" (lastError), and   *)
(* the awaited look-up of the last timeline item that turn_failed makes is *)
(* atomic: the daemon configures no durable timeline store, so it waits    *)
(* for nothing.                                                            *)
(***************************************************************************)
EXTENDS Naturals, Sequences

CONSTANTS
    Turn,           \* turn ids a provider hands out
    None,           \* "null": no turn, no pending run
    FinalizedCap    \* how many finalized turn ids an agent remembers (50)

ASSUME NoneAssumption == None \notin Turn
ASSUME CapAssumption == FinalizedCap \in Nat \ {0}

Lifecycle == {"initializing", "idle", "running", "error"}

TerminalType == {"turn_completed", "turn_failed", "turn_canceled"}
EventType == TerminalType \cup {"turn_started"}
Event == [type : EventType, turn : Turn \cup {None}]

(* The fields of a ManagedAgent that the run machinery reads or writes. *)
Agent == [lifecycle : Lifecycle,
          activeForegroundTurnId : Turn \cup {None},
          pendingReplacement : BOOLEAN,
          lastError : BOOLEAN,
          finalizedForegroundTurnIds : Seq(Turn),
          foregroundTurnWaiters : SUBSET Turn,
          subscribed : BOOLEAN]

isTurnTerminalEvent(ev) == ev.type \in TerminalType

hasFinalizedTurn(a, t) ==
    \E i \in DOMAIN a.finalizedForegroundTurnIds : a.finalizedForegroundTurnIds[i] = t

(* A JavaScript Set in insertion order, its oldest element dropped beyond the cap. *)
rememberFinalizedTurn(a, t) ==
    LET seen == a.finalizedForegroundTurnIds
        grown == IF hasFinalizedTurn(a, t) THEN seen ELSE Append(seen, t)
    IN  IF Len(grown) > FinalizedCap THEN Tail(grown) ELSE grown

(* The lifecycle a finished turn leaves: busy while a replacement is on its way. *)
lifecycleAfterTurn(a) ==
    IF a.lastError THEN "error" ELSE IF a.pendingReplacement THEN "running" ELSE "idle"

(* Variant: remembers a turn id even when the turn never got one. *)
finalizeRemembersNull(a, t) ==
    [a EXCEPT !.activeForegroundTurnId = None,
              !.lifecycle = lifecycleAfterTurn(a),
              !.finalizedForegroundTurnIds = rememberFinalizedTurn(a, t)]

finalizeForegroundTurn(a, t) ==
    [a EXCEPT !.activeForegroundTurnId = None,
              !.lifecycle = lifecycleAfterTurn(a),
              !.finalizedForegroundTurnIds = IF t = None THEN @ ELSE rememberFinalizedTurn(a, t)]

(* Variant: any event counts as the active turn's. *)
isForegroundEventOfAnyTurn(a, ev) == a.activeForegroundTurnId # None

isForegroundEvent(a, ev) == ev.turn # None /\ a.activeForegroundTurnId = ev.turn

onStreamTurnStarted(a, ev) ==
    IF isForegroundEvent(a, ev) THEN a ELSE [a EXCEPT !.lifecycle = "running"]

onStreamTurnCompleted(a, ev) ==
    [a EXCEPT !.lastError = FALSE,
              !.lifecycle = IF isForegroundEvent(a, ev) \/ a.pendingReplacement
                            THEN @ ELSE "idle"]

onStreamTurnFailed(a, ev) ==
    [a EXCEPT !.lastError = TRUE,
              !.lifecycle = IF isForegroundEvent(a, ev) THEN @ ELSE "error"]

onStreamTurnCanceled(a, ev) ==
    [a EXCEPT !.lastError = FALSE,
              !.lifecycle = IF isForegroundEvent(a, ev) \/ a.pendingReplacement
                            THEN @ ELSE "idle"]

dispatchStreamEventByType(a, ev) ==
    CASE ev.type = "turn_started"   -> onStreamTurnStarted(a, ev)
      [] ev.type = "turn_completed" -> onStreamTurnCompleted(a, ev)
      [] ev.type = "turn_failed"    -> onStreamTurnFailed(a, ev)
      [] ev.type = "turn_canceled"  -> onStreamTurnCanceled(a, ev)

(* A terminal event of a turn already finalized is dropped: no effect, no waiter told. *)
isDuplicateTerminal(a, ev) ==
    ev.turn # None /\ isTurnTerminalEvent(ev) /\ hasFinalizedTurn(a, ev.turn)

(* Variant: remembers every ended turn, also one that was not (yet) active. *)
handleRemembersEveryTurn(a, ev) ==
    IF isDuplicateTerminal(a, ev) THEN a
    ELSE IF isForegroundEvent(a, ev) /\ isTurnTerminalEvent(ev)
         THEN finalizeForegroundTurn(dispatchStreamEventByType(a, ev), ev.turn)
         ELSE IF ev.turn # None /\ isTurnTerminalEvent(ev)
         THEN [dispatchStreamEventByType(a, ev) EXCEPT
                  !.finalizedForegroundTurnIds = rememberFinalizedTurn(a, ev.turn)]
         ELSE dispatchStreamEventByType(a, ev)

handleStreamEvent(a, ev) ==
    IF isDuplicateTerminal(a, ev) THEN a
    ELSE IF isForegroundEvent(a, ev) /\ isTurnTerminalEvent(ev)
         THEN finalizeForegroundTurn(dispatchStreamEventByType(a, ev), ev.turn)
         ELSE dispatchStreamEventByType(a, ev)

=============================================================================
