------------------------------ MODULE AgentTimeline ------------------------------
(***************************************************************************)
(* The timeline of one agent, from InMemoryAgentTimelineStore through the  *)
(* Session of a connected app to the stream reducers of that app.          *)
(*                                                                         *)
(* Rows go to the app twice: live, each with its epoch and number, and in  *)
(* answers to fetch_agent_timeline_request.  The store is read in the same *)
(* synchronous step that emits the answer, and one socket carries both, so *)
(* an answer follows the rows that were live before it.  The app keeps the *)
(* range it displays as a cursor, and asks for what is after it when a row *)
(* leaves a gap.                                                           *)
(*                                                                         *)
(* Of an item only its kind is kept: text of the assistant, which streams  *)
(* into the head of the displayed list, or anything else, which closes the *)
(* head.                                                                   *)
(***************************************************************************)
EXTENDS Integers, Sequences, SequencesExt, FiniteSetsExt

CONSTANTS
    None,
    Limit,              \* TIMELINE_FETCH_PAGE_SIZE
    Scenarios,          \* sets of what may happen besides rows in one behaviour, each once
    Patterns,           \* the kinds of the rows: Patterns is a set of [epochs -> [rows -> Kind]]
    MaxRows, MaxEpochs, MaxWire, MaxRequests        \* bounds: sizes (MaxRows: of all epochs)

Kind == {"assistant", "other"}
Happening == {"disconnect", "restart", "focus", "reload", "reloadElsewhere", "hide", "timeout",
              "error"}

ASSUME BoundsAssumption == {Limit, MaxRows, MaxEpochs, MaxWire, MaxRequests} \subseteq Nat \ {0}
ASSUME ScenariosAssumption == Scenarios \subseteq SUBSET Happening /\ Scenarios # {}
ASSUME PatternsAssumption == Patterns \subseteq [1..MaxEpochs -> [1..MaxRows -> Kind]]

VARIABLES
    len,            \* len[e]: number of rows of epoch e; the last epoch is the store's
    kinds,          \* kinds[e][n]: kind of row n of epoch e
    loaded,         \* "no", "hydrating" or "yes": is the agent in AgentManager.agents, its history read
    forwarding,     \* ~shouldSkipAgentStreamForward
    connected,
    requests,       \* messages to the daemon that are not answered
    wire,           \* messages to the app, oldest first
    tail, head,     \* agentStreamTail, agentStreamHead: rows displayed
    cursor,         \* agentTimelineCursor
    queue,          \* pendingByAgentId of the reducer queue
    init,           \* the deferred of ensureAgentIsInitialized: its request's direction
    authoritative,  \* agentAuthoritativeHistoryApplied
    mustSync,       \* an effect that synchronizes the history has not run yet
    hasOlder, olderInFlight,
    told,           \* history: was the newest row sent over this connection ("yes", "no"), or did
                    \* a page leave newer rows out ("short": hasNewer, which the app does not read)
    outdated,       \* history: rows displayed before a page that was asked for an earlier list
    happened        \* the happenings so far

daemon == <<len, kinds, loaded, forwarding>>
displayed == <<tail, head, cursor, queue>>
sync == <<init, authoritative, mustSync, hasOlder, olderInFlight>>
history == <<told, outdated>>
vars == <<daemon, connected, requests, wire, displayed, sync, history, happened>>

epoch == Len(len)
rowCount == len[epoch]
(* MaxRows bounds the log of an epoch, and all of them together. *)
mayGrow == rowCount < MaxRows /\ FoldLeft(LAMBDA sum, n : sum + n, 0, len) < MaxRows

Row == [epoch : 1..MaxEpochs, seq : 1..MaxRows, kept : BOOLEAN]
Cursor == [epoch : 1..MaxEpochs, startSeq : 1..MaxRows, endSeq : 1..MaxRows]
ASSUME NoneAssumption == None \notin Cursor
Direction == {"tail", "after", "before"}
Request == [op : Direction \cup {"reload", "visible", "hidden"}, waits : BOOLEAN,
            epoch : 0..MaxEpochs, seq : 0..MaxRows]
Message == [type : {"row", "turn_end", "response", "error", "refreshed"}, op : Direction,
            reset : BOOLEAN, epoch : 0..MaxEpochs, first : Nat, last : Nat, hasOlder : BOOLEAN]

TypeOK ==
    /\ len \in Seq(0..MaxRows) /\ epoch \in 1..MaxEpochs
    /\ kinds \in Patterns
    /\ loaded \in {"no", "hydrating", "yes"}
    /\ forwarding \in BOOLEAN /\ connected \in BOOLEAN
    /\ requests \in Seq(Request)
    /\ wire \in Seq(Message)
    /\ tail \in Seq(Row) /\ head \in Seq(Row)
    /\ cursor \in Cursor \cup {None}
    /\ queue \in Seq(Message)
    /\ init \in {"none", "tail", "after"}
    /\ authoritative \in BOOLEAN /\ mustSync \in BOOLEAN
    /\ hasOlder \in BOOLEAN /\ olderInFlight \in BOOLEAN
    /\ told \in {"no", "yes", "short"} /\ outdated \in Nat
    /\ \E scenario \in Scenarios : happened \subseteq scenario

(* An agent with one row, and an app that has just connected and opened it. *)
Init ==
    /\ len = <<1>> /\ kinds \in Patterns
    /\ loaded = "yes" /\ forwarding = TRUE
    /\ connected = TRUE /\ requests = <<>> /\ wire = <<>>
    /\ tail = <<>> /\ head = <<>> /\ cursor = None /\ queue = <<>>
    /\ init = "none" /\ authoritative = FALSE /\ mustSync = TRUE
    /\ hasOlder = FALSE /\ olderInFlight = FALSE
    /\ told = "no" /\ outdated = 0
    /\ happened = {}

happens(h) ==
    /\ h \notin happened
    /\ \E scenario \in Scenarios : happened \cup {h} \subseteq scenario
    /\ happened' = happened \cup {h}

-----------------------------------------------------------------------------
(* The store. *)

fetchResult(op, e, first, last, reset, older) ==
    [type |-> "response", op |-> op, reset |-> reset, epoch |-> e, first |-> first, last |-> last,
     hasOlder |-> older]

(* The last rows of the log: `limit` of them or, when the window is chosen by projected entries, *)
(* enough rows for that many entries.                                                            *)
newestRows(req, reset) ==
    {fetchResult(req.op, epoch, rowCount - n + 1, rowCount, reset, n > 0 /\ n < rowCount) :
        n \in IF req.op = "tail" THEN Min({Limit, rowCount})..rowCount ELSE {Min({Limit, rowCount})}}

fetchAfter(req) ==
    fetchResult("after", epoch, req.seq + 1, Min({req.seq + Limit, rowCount}), FALSE, TRUE)

fetchBefore(req) ==
    LET first == Max({1, req.seq - Limit})
    IN fetchResult("before", epoch, first, req.seq - 1, FALSE, first < req.seq /\ first > 1)

(* Variant: a cursor of an earlier epoch is read as one of this epoch. *)
fetchOfAnyEpoch(req) ==
    IF req.op = "tail" \/ rowCount = 0 THEN newestRows(req, FALSE)
    ELSE CASE req.op = "after" /\ req.seq <= rowCount -> {fetchAfter(req)}
           [] req.op = "after" /\ req.seq > rowCount ->
                {fetchResult("after", epoch, req.seq + 1, req.seq, FALSE, FALSE)}
           [] req.op = "before" -> {fetchBefore(req)}

(* fetch: what the store may return. A log is never trimmed, so no cursor is before its first row. *)
fetch(req) ==
    IF req.epoch \notin {0, epoch} THEN newestRows(req, TRUE)
    ELSE IF rowCount = 0 THEN {fetchResult(req.op, epoch, 1, 0, FALSE, FALSE)}
    ELSE CASE req.op = "tail" -> newestRows(req, FALSE)
           [] req.op = "after" -> {fetchAfter(req)}
           [] req.op = "before" -> {fetchBefore(req)}

-----------------------------------------------------------------------------
(* The daemon. *)

notice(type, e, s) ==
    [type |-> type, op |-> "tail", reset |-> FALSE, epoch |-> e, first |-> s, last |-> s,
     hasOlder |-> FALSE]

Emits(m) == wire' = Append(wire, m)
Tells(newest) == told' = IF told = "short" THEN told ELSE IF newest THEN "yes" ELSE "no"
mayEmit == Len(wire) + Len(queue) < MaxWire

(* recordAndDispatchTimelineItem, and the subscriber of Session. *)
RowDispatched ==
    /\ loaded # "no" /\ mayGrow /\ mayEmit
    /\ len' = [len EXCEPT ![epoch] = @ + 1]
    /\ IF connected /\ forwarding
       THEN Emits(notice("row", epoch, rowCount + 1)) /\ Tells(TRUE)
       ELSE UNCHANGED wire /\ Tells(FALSE)
    /\ UNCHANGED <<kinds, loaded, forwarding, connected, requests, displayed, sync, outdated,
                   happened>>

(* turn_completed and its like are not rows. *)
TurnEnds ==
    /\ loaded # "no" /\ connected /\ forwarding /\ head # <<>> /\ mayEmit
    /\ \A i \in DOMAIN wire : wire[i].type # "turn_end"
    /\ Emits(notice("turn_end", 0, 0))
    /\ UNCHANGED <<daemon, connected, requests, displayed, sync, history, happened>>

(* hydrateTimelineFromLegacyProviderHistory: rows of the provider's history are not dispatched. *)
HistoryRead ==
    /\ loaded = "hydrating"
    /\ \/ /\ mayGrow
          /\ len' = [len EXCEPT ![epoch] = @ + 1]
          /\ Tells(FALSE)
          /\ UNCHANGED loaded
       \/ loaded' = "yes" /\ UNCHANGED <<len, told>>
    /\ UNCHANGED <<kinds, forwarding, connected, requests, wire, displayed, sync, outdated,
                   happened>>

(* Messages arrive in order; a heartbeat is handled at once, the others are asynchronous. *)
isHeartbeat(req) == req.op \in {"visible", "hidden"}
arrived == {i \in DOMAIN requests : \A j \in 1..(i - 1) : ~isHeartbeat(requests[j])}

HeartbeatHandled ==
    \E i \in arrived :
        /\ isHeartbeat(requests[i])
        /\ forwarding' = (requests[i].op = "visible")
        /\ requests' = RemoveAt(requests, i)
        /\ UNCHANGED <<len, kinds, loaded, connected, wire, displayed, sync, history, happened>>

(* ensureAgentLoaded: the agent is registered with an empty timeline. The requests that arrived *)
(* before that wait for its history too.                                                        *)
AgentRegistered ==
    /\ loaded = "no" /\ epoch < MaxEpochs
    /\ \E W \in SUBSET {i \in arrived : requests[i].op \in Direction} :
         /\ W # {}
         /\ requests' = [i \in DOMAIN requests |->
                           [requests[i] EXCEPT !.waits = @ \/ i \in W]]
    /\ len' = Append(len, 0)
    /\ loaded' = "hydrating"
    /\ Tells(FALSE)
    /\ UNCHANGED <<kinds, forwarding, connected, wire, displayed, sync, outdated, happened>>

(* handleLocalFetchAgentTimelineRequest, once the agent is there. *)
Answers(i) ==
    /\ i \in arrived /\ requests[i].op \in Direction
    /\ loaded = "yes" \/ (loaded = "hydrating" /\ ~requests[i].waits)
    /\ \E m \in fetch(requests[i]) :
         /\ Emits(m)
         /\ IF m.op = "after" /\ m.last < rowCount THEN told' = "short"
            ELSE IF m.op # "before" \/ m.reset THEN Tells(TRUE)
            ELSE UNCHANGED told
    /\ requests' = RemoveAt(requests, i)
    /\ UNCHANGED <<daemon, connected, displayed, sync, outdated, happened>>

AnswerFails(i) ==
    /\ i \in arrived /\ requests[i].op \in Direction
    /\ happens("error")
    /\ Emits([notice("error", 0, 0) EXCEPT !.op = requests[i].op])
    /\ requests' = RemoveAt(requests, i)
    /\ UNCHANGED <<daemon, connected, displayed, sync, history>>

(* handleRefreshAgentRequest: reloadAgentSession with rehydrateFromDisk begins a new epoch. *)
newEpoch ==
    /\ epoch < MaxEpochs
    /\ len' = Append(len, 0)
    /\ loaded' = "hydrating"
    /\ Tells(FALSE) /\ UNCHANGED outdated

ReloadBegins ==
    \/ /\ happens("reloadElsewhere")
       /\ loaded = "yes" /\ newEpoch
       /\ UNCHANGED <<kinds, forwarding, connected, requests, wire, displayed, sync>>
    \/ \E i \in arrived :
         /\ requests[i].op = "reload" /\ ~requests[i].waits
         /\ loaded # "hydrating" /\ newEpoch
         /\ requests' = [requests EXCEPT ![i].waits = TRUE]
         /\ UNCHANGED <<kinds, forwarding, connected, wire, displayed, sync, happened>>

ReloadReturns ==
    \E i \in DOMAIN requests :
        /\ requests[i].op = "reload" /\ requests[i].waits /\ loaded = "yes"
        /\ requests' = RemoveAt(requests, i)
        /\ Emits(notice("refreshed", 0, 0))
        /\ UNCHANGED <<daemon, connected, displayed, sync, history, happened>>

-----------------------------------------------------------------------------
(* The stream reducers of the app. c: what is displayed, with the catch-up requests it asks for. *)

kindOf(row) == kinds[row.epoch][row.seq]
rows(e, first, last) ==
    [i \in 1..(last - first + 1) |-> [epoch |-> e, seq |-> first + i - 1, kept |-> FALSE]]

(* The assistant's text at the end of s: one item. *)
lastText(s) ==
    LET n == Max({n \in 0..Len(s) :
                    \A i \in (Len(s) - n + 1)..Len(s) : kindOf(s[i]) = "assistant"})
    IN SubSeq(s, Len(s) - n + 1, Len(s))
withoutLastText(s) == SubSeq(s, 1, Len(s) - Len(lastText(s)))

(* Text that arrives when the head is empty goes on with the text at the end of the tail. *)
applyStreamEvent(c, row) ==
    IF kindOf(row) = "other"
    THEN [c EXCEPT !.tail = (@ \o c.head) \o <<row>>, !.head = <<>>]
    ELSE IF c.head = <<>>
    THEN [c EXCEPT !.tail = withoutLastText(@), !.head = lastText(c.tail) \o <<row>>]
    ELSE [c EXCEPT !.head = Append(@, row)]

(* Variant: a row that leaves a gap is accepted. *)
classifyWithoutGap(cur, e, s) ==
    CASE cur = None -> "init"
      [] cur # None /\ cur.epoch # e -> "drop_epoch"
      [] cur # None /\ cur.epoch = e /\ s <= cur.endSeq -> "drop_stale"
      [] OTHER -> "accept"

(* Variant: the epoch of a row is not compared. *)
classifyWithoutEpoch(cur, e, s) ==
    CASE cur = None -> "init"
      [] cur # None /\ s <= cur.endSeq -> "drop_stale"
      [] cur # None /\ s = cur.endSeq + 1 -> "accept"
      [] OTHER -> "gap"

classifySessionTimelineSeq(cur, e, s) ==
    CASE cur = None -> "init"
      [] cur # None /\ cur.epoch # e -> "drop_epoch"
      [] cur # None /\ cur.epoch = e /\ s <= cur.endSeq -> "drop_stale"
      [] cur # None /\ cur.epoch = e /\ s = cur.endSeq + 1 -> "accept"
      [] OTHER -> "gap"

advanced(cur, e, s) ==
    IF cur = None THEN [epoch |-> e, startSeq |-> s, endSeq |-> s] ELSE [cur EXCEPT !.endSeq = s]

after(cur) == [op |-> "after", waits |-> FALSE, epoch |-> cur.epoch, seq |-> cur.endSeq]

processAgentStreamEvent(c, m) ==
    IF m.type = "turn_end" THEN [c EXCEPT !.tail = @ \o c.head, !.head = <<>>]
    ELSE LET decision == classifySessionTimelineSeq(c.cursor, m.epoch, m.first)
         IN CASE decision \in {"init", "accept"} ->
                   [applyStreamEvent(c, rows(m.epoch, m.first, m.first)[1])
                      EXCEPT !.cursor = advanced(@, m.epoch, m.first)]
              [] decision = "gap" -> [c EXCEPT !.asks = Append(@, after(c.cursor))]
              [] OTHER -> c

shown == [tail |-> tail, head |-> head, cursor |-> cursor, asks |-> <<>>]

(* The events of the queue, one after the other. *)
batch[i \in 0..Len(queue)] ==
    IF i = 0 THEN shown ELSE processAgentStreamEvent(batch[i - 1], queue[i])

(* flushAgent and commit, which keeps a cursor that covers the last event of the batch. *)
flushed ==
    LET c == batch[Len(queue)]
        covered == /\ queue # <<>> /\ cursor # None
                   /\ Last(queue).type = "row" /\ Last(queue).epoch = cursor.epoch
                   /\ Last(queue).first \in cursor.startSeq..cursor.endSeq
    IN IF covered THEN [c EXCEPT !.cursor = cursor] ELSE c

(* preserveReplacePathAssistantHead: a head with live text survives a replacement whose last *)
(* item is no text; otherwise the replacement's own last text is the head, if that was live. *)
stillShown(c) == [i \in DOMAIN c.head |-> [c.head[i] EXCEPT !.kept = TRUE]]
preserveHead(c, new) ==
    IF c.head # <<>> /\ lastText(new) = <<>>
    THEN [c EXCEPT !.tail = new, !.head = stillShown(c)]
    ELSE IF c.head # <<>> /\ IsPrefix(lastText(new), c.head)
    THEN [c EXCEPT !.tail = withoutLastText(new), !.head = lastText(new)]
    ELSE [c EXCEPT !.tail = new, !.head = <<>>]

isBootstrap(m) == m.op = "tail" /\ init # "none"

(* Variant: an empty page leaves a cursor. *)
replacedByAnyPage(c, m) ==
    [preserveHead(c, rows(m.epoch, m.first, m.last))
       EXCEPT !.cursor = [epoch |-> m.epoch, startSeq |-> m.first, endSeq |-> m.last]]

applyTimelineReplacePath(c, m) ==
    LET new == [epoch |-> m.epoch, startSeq |-> m.first, endSeq |-> m.last]
        none == m.first > m.last
    IN [preserveHead(c, rows(m.epoch, m.first, m.last))
          EXCEPT !.cursor = IF none THEN None ELSE new,
                 !.asks = IF none \/ m.reset THEN @ ELSE Append(@, after(new))]

(* acceptOlderTimelineUnits: only rows before the first one displayed. *)
olderRows(c, m) ==
    IF c.cursor = None THEN <<>>
    ELSE IF c.cursor.epoch # m.epoch THEN <<>>
    ELSE rows(m.epoch, m.first, Min({m.last, c.cursor.startSeq - 1}))
acceptOlder(c, m) ==
    IF olderRows(c, m) = <<>> THEN c
    ELSE [c EXCEPT !.tail = olderRows(c, m) \o @, !.cursor.startSeq = m.first]

(* acceptIncrementalTimelineUnits: stops at the first gap. c: before the page, b: before its row. *)
acceptRow(c, b, row) ==
    LET decision == classifySessionTimelineSeq(b.cursor, row.epoch, row.seq)
    IN IF b.asks # c.asks THEN b
       ELSE CASE decision \in {"init", "accept"} ->
                   [IF c.head # <<>> THEN applyStreamEvent(b, row)
                                     ELSE [b EXCEPT !.tail = Append(@, row)]
                      EXCEPT !.cursor = advanced(@, row.epoch, row.seq)]
              [] decision = "gap" -> [b EXCEPT !.asks = Append(@, after(b.cursor))]
              [] OTHER -> b

accepted(c, page) ==
    LET upTo[i \in 0..Len(page)] == IF i = 0 THEN c ELSE acceptRow(c, upTo[i - 1], page[i])
    IN upTo
acceptIncremental(c, m) ==
    LET page == rows(m.epoch, m.first, m.last) IN accepted(c, page)[Len(page)]

replaces(m) == m.reset \/ isBootstrap(m)
processTimelineResponse(c, m) ==
    IF replaces(m) THEN applyTimelineReplacePath(c, m)
    ELSE IF m.op = "before" THEN acceptOlder(c, m)
    ELSE acceptIncremental(c, m)

(* The page was asked for a list that has been replaced since: it does not end where this begins. *)
leavesHole(c, m) ==
    /\ m.op = "before" /\ olderRows(c, m) # <<>>
    /\ Last(olderRows(c, m)).seq + 1 # c.cursor.startSeq
outdatedBy(c, m) ==
    IF replaces(m) THEN 0
    ELSE IF m.op = "before" /\ (outdated > 0 \/ leavesHole(c, m))
    THEN outdated + Len(olderRows(c, m))
    ELSE outdated

-----------------------------------------------------------------------------
(* The app. *)

Sends(new) == requests' = requests \o new
mayAsk == connected /\ Len(requests) < MaxRequests

Shows(c) ==
    /\ tail' = c.tail /\ head' = c.head /\ cursor' = c.cursor
    /\ queue' = <<>>
    /\ IF connected THEN Sends(c.asks) ELSE UNCHANGED requests

LiveEventReceived ==
    /\ wire # <<>> /\ Head(wire).type \in {"row", "turn_end"}
    /\ wire' = Tail(wire)
    /\ queue' = Append(queue, Head(wire))
    /\ UNCHANGED <<daemon, connected, requests, tail, head, cursor, sync, history, happened>>

QueueFlushed ==
    /\ queue # <<>>
    /\ \E c \in {flushed} : Shows(c)
    /\ UNCHANGED <<daemon, connected, wire, sync, history, happened>>

(* The listener of fetch_agent_timeline_response. *)
ResponseReceived ==
    /\ wire # <<>> /\ Head(wire).type = "response"
    /\ \E m \in {Head(wire)}, c \in {flushed} :
          /\ \E b \in {processTimelineResponse(c, m)} : Shows(b)
          /\ outdated' = outdatedBy(c, m)
          /\ init' = IF m.reset \/ init = m.op THEN "none" ELSE init
          /\ authoritative' = (authoritative \/ m.op # "before")
          /\ hasOlder' = m.hasOlder
          /\ olderInFlight' = (olderInFlight /\ m.op # "before")
    /\ wire' = Tail(wire)
    /\ UNCHANGED <<daemon, connected, mustSync, told, happened>>

ErrorReceived ==
    /\ wire # <<>> /\ Head(wire).type = "error"
    /\ \E c \in {flushed} : Shows(c)
    /\ init' = "none"
    /\ hasOlder' = FALSE
    /\ olderInFlight' = (olderInFlight /\ Head(wire).op # "before")
    /\ wire' = Tail(wire)
    /\ UNCHANGED <<daemon, connected, authoritative, mustSync, history, happened>>

(* ensureAgentIsInitialized *)
tailRequest == [op |-> "tail", waits |-> FALSE, epoch |-> 0, seq |-> 0]
EnsureInitialized ==
    IF init # "none" THEN UNCHANGED <<init, requests>>
    ELSE IF authoritative /\ cursor # None
    THEN init' = "after" /\ Sends(<<after(cursor)>>)
    ELSE init' = "tail" /\ Sends(<<tailRequest>>)

(* The panel's effect after a connection. *)
HistorySynced ==
    /\ mustSync /\ connected
    /\ mustSync' = FALSE
    /\ EnsureInitialized
    /\ UNCHANGED <<daemon, connected, wire, displayed, authoritative, hasOlder, olderInFlight,
                   history, happened>>

(* The panel is focused. *)
PaneFocused ==
    /\ mayAsk
    /\ happens("focus")
    /\ EnsureInitialized
    /\ UNCHANGED <<daemon, connected, wire, displayed, authoritative, mustSync, hasOlder,
                   olderInFlight, history>>

(* The request's timer; an answer may still come. *)
InitTimesOut ==
    /\ init # "none"
    /\ happens("timeout")
    /\ init' = "none"
    /\ UNCHANGED <<daemon, connected, requests, wire, displayed, authoritative, mustSync, hasOlder,
                   olderInFlight, history>>

LoadOlder ==
    /\ mayAsk /\ cursor # None /\ hasOlder /\ ~olderInFlight
    /\ olderInFlight' = TRUE
    /\ Sends(<<[op |-> "before", waits |-> FALSE, epoch |-> cursor.epoch, seq |-> cursor.startSeq]>>)
    /\ UNCHANGED <<daemon, connected, wire, displayed, init, authoritative, mustSync, hasOlder,
                   history, happened>>

(* A phone's app goes to the background; when it is resumed it fetches before it says so. *)
AppHidden ==
    /\ mayAsk /\ happens("hide")
    /\ Sends(<<[tailRequest EXCEPT !.op = "hidden"]>>)
    /\ UNCHANGED <<daemon, connected, wire, displayed, sync, history>>

AppResumed ==
    /\ mayAsk
    /\ ~forwarding \/ \E i \in DOMAIN requests : requests[i].op = "hidden"
    /\ \A i \in DOMAIN requests : requests[i].op # "visible"
    /\ Sends(<<tailRequest, [tailRequest EXCEPT !.op = "visible"]>>)
    /\ UNCHANGED <<daemon, connected, wire, displayed, sync, history, happened>>

(* handleReloadAgent: refresh, then fetch the tail with the cursor, which is of an older epoch. *)
(* Timing: a reload takes longer than rows stay in the queue.                                   *)
ReloadRequested ==
    /\ mayAsk /\ happens("reload")
    /\ Sends(<<[tailRequest EXCEPT !.op = "reload"]>>)
    /\ UNCHANGED <<daemon, connected, wire, displayed, sync, history>>

RefreshedReceived ==
    /\ wire # <<>> /\ Head(wire).type = "refreshed" /\ queue = <<>>
    /\ Sends(<<IF cursor = None THEN tailRequest ELSE [after(cursor) EXCEPT !.op = "tail"]>>)
    /\ wire' = Tail(wire)
    /\ UNCHANGED <<daemon, connected, displayed, sync, history, happened>>

(* The connection is lost: requests are rejected, what was on its way never arrives. *)
ConnectionLost ==
    /\ connected' = FALSE /\ requests' = <<>> /\ wire' = <<>>
    /\ init' = "none" /\ olderInFlight' = FALSE
    /\ told' = "no"
    /\ UNCHANGED <<len, kinds, forwarding, displayed, authoritative, mustSync, hasOlder, outdated>>

Disconnects ==
    /\ connected /\ happens("disconnect")
    /\ ConnectionLost
    /\ UNCHANGED loaded

DaemonRestarts ==
    /\ connected /\ epoch < MaxEpochs
    /\ happens("restart")
    /\ ConnectionLost
    /\ loaded' = "no"

(* A heartbeat is the first message of a connection. *)
Reconnects ==
    /\ ~connected
    /\ connected' = TRUE /\ forwarding' = TRUE
    /\ mustSync' = TRUE
    /\ UNCHANGED <<len, kinds, loaded, requests, wire, displayed, init, authoritative, hasOlder,
                   olderInFlight, history, happened>>

AppStep == LiveEventReceived \/ QueueFlushed \/ ResponseReceived \/ ErrorReceived \/ RefreshedReceived
DaemonStep == HistoryRead \/ AgentRegistered \/ ReloadReturns \/ HeartbeatHandled

Next ==
    \/ AppStep \/ DaemonStep
    \/ RowDispatched \/ TurnEnds \/ ReloadBegins
    \/ \E i \in DOMAIN requests : Answers(i) \/ AnswerFails(i)
    \/ HistorySynced \/ PaneFocused \/ InitTimesOut \/ LoadOlder
    \/ AppHidden \/ AppResumed \/ ReloadRequested
    \/ Disconnects \/ DaemonRestarts \/ Reconnects

Spec == Init /\ [][Next]_vars

(* What has been sent arrives, is handled and answered, and effects run; rows, requests of the *)
(* user and faults need not happen.                                                            *)
Progress == AppStep \/ DaemonStep \/ HistorySynced \/ \E i \in DOMAIN requests : Answers(i)
FairSpec == Spec /\ WF_vars(Progress)

-----------------------------------------------------------------------------
(* The rows displayed without those of a head of an earlier list and those before a hole. *)
unkept(s) ==
    LET upTo[i \in 0..Len(s)] ==
          IF i = 0 THEN <<>> ELSE IF s[i].kept THEN upTo[i - 1] ELSE Append(upTo[i - 1], s[i])
    IN upTo
ofCursor(s) == unkept(s)[Len(s)]
current == SubSeq(ofCursor(tail \o head), outdated + 1, Len(ofCursor(tail \o head)))

(* The cursor says what is displayed: the rows startSeq..endSeq of its epoch, each once and in    *)
(* order, whatever pages, live rows and resets were merged in whatever order. (current leaves out *)
(* what the code is known to display besides: an old head, and rows before a hole.)               *)
DisplayedIsCursor ==
    IF cursor = None THEN current = <<>>
    ELSE \E first \in cursor.startSeq..cursor.endSeq :
            /\ current = rows(cursor.epoch, first, cursor.endSeq)
            /\ outdated = 0 => first = cursor.startSeq

(* The app's list implements the view that TimelineView promises. *)
View == INSTANCE TimelineView WITH
    view <- [i \in DOMAIN current |-> [epoch |-> current[i].epoch, seq |-> current[i].seq]]
ImplementsView == View!Spec

(* Catch-up: while the connection lasts and the newest row was sent over it, live or in an answer, *)
(* the app comes to display everything up to that row, unless a page left newer rows out, a        *)
(* request failed or ran out of time, or another client reloaded the agent.                        *)
upToDate ==
    \/ rowCount = 0
    \/ cursor # None /\ cursor.epoch = epoch /\ cursor.endSeq = rowCount
CatchesUp ==
    [](happened \cap {"timeout", "error", "reloadElsewhere"} = {})
        => (<>[](connected /\ told = "yes") => <>[]upToDate)
=============================================================================
