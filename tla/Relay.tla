--------------------------------- MODULE Relay ---------------------------------
(***************************************************************************)
(* Clients of one daemon that come through the relay: RelayDurableObject   *)
(* (protocol v2), the daemon's relay transport, and the handshake of the   *)
(* encrypted channel on top of them.                                       *)
(*                                                                         *)
(* The relay gives every client socket a connection id.  It tells the      *)
(* daemon over the control socket, and the daemon opens a data socket for  *)
(* that id; frames are forwarded between the two.  The client repeats its  *)
(* hello until the daemon answers "ready", and only then sends data.       *)
(*                                                                         *)
(* A WebSocket is a queue of frames in each direction; "bye" is a close    *)
(* frame or the end of a broken connection.  A socket the relay has closed *)
(* is listed until the other end's "bye" has arrived.  Encryption appears  *)
(* as what a receiver can do with a frame: all frames of a connection are  *)
(* encrypted with the key its hello carries.                               *)
(***************************************************************************)
EXTENDS Integers, Sequences, FiniteSets, SequencesExt

CONSTANTS
    Conn,           \* connection ids, one for each client socket
    MaxPending,     \* frames buffered for a missing data socket (200)
    MaxHandshake,   \* bound: hello and ready frames of a connection on the way
    MaxMessages,    \* bound: data frames of a client
    MaxLeaves,      \* bound: clients that close
    MaxFaults       \* bound: broken sockets and lost memory, together

ASSUME BoundsAssumption ==
    /\ MaxPending \in Nat \ {0} /\ MaxHandshake \in Nat \ {0}
    /\ {MaxMessages, MaxLeaves, MaxFaults} \subseteq Nat

VARIABLES
    client,         \* client[c]: the client's channel
    sent,           \* sent[c]: data frames it has sent
    clientWs,       \* clientWs[c]: the relay's end of its socket
    toRelay, toClient,      \* frames on the client's socket
    pendingFrames,  \* pendingFrames[c]: frames the relay keeps for a data socket
    nudge,          \* nudge[c]: which timer of nudgeOrResetControlForConnection is set
    sock,           \* sock[c]: the data sockets the daemon has opened for c, in order
    dataSockets,    \* dataSockets[c]: the one in the daemon's map, or 0
    control,        \* the control socket
    toDaemon,       \* messages on it
    missed,         \* history: the daemon was not told that a client has gone
    used            \* bounds used up

clientVars == <<client, sent, toClient>>
relayVars == <<clientWs, toRelay, pendingFrames, nudge>>
daemonVars == <<sock, dataSockets>>
controlVars == <<control, toDaemon, missed>>
vars == <<clientVars, relayVars, daemonVars, controlVars, used>>

(* n numbers the data frames of a client. *)
Frame == [kind : {"hello", "ready", "data", "bye"}, n : Nat]
frame(kind) == [kind |-> kind, n |-> 0]

(* A data socket: its two ends, the daemon's channel on it, the frames from and to the relay,     *)
(* and the data frames delivered.                                                                 *)
DataSocket == [daemon : {"connecting", "open", "closing", "closed"},
               channel : {"handshake", "open", "rejected"},
               relay : {"none", "open", "closing", "gone"},
               in : Seq(Frame), out : Seq(Frame), got : Seq(Nat)]

newSocket == [daemon |-> "connecting", channel |-> "handshake", relay |-> "none",
              in |-> <<>>, out |-> <<>>, got |-> <<>>]

ControlMessage == [type : {"sync", "connected", "disconnected", "bye"}, ids : SUBSET Conn]

TypeOK ==
    /\ client \in [Conn -> {"none", "handshaking", "open", "closed"}]
    /\ sent \in [Conn -> Nat]
    /\ clientWs \in [Conn -> {"none", "open", "closing", "gone"}]
    /\ toRelay \in [Conn -> Seq(Frame)] /\ toClient \in [Conn -> Seq(Frame)]
    /\ pendingFrames \in [Conn -> Seq(Frame)]
    /\ \A c \in Conn : Len(pendingFrames[c]) <= MaxPending
    /\ nudge \in [Conn -> {"none", "first", "second"}]
    /\ sock \in [Conn -> Seq(DataSocket)]
    /\ dataSockets \in [Conn -> Nat] /\ \A c \in Conn : dataSockets[c] <= Len(sock[c])
    /\ control \in {"up", "closing", "broken", "down"}
    /\ toDaemon \in Seq(ControlMessage)
    /\ missed \in BOOLEAN
    /\ used \in [{"leaves", "faults"} -> Nat]

Init ==
    /\ client = [c \in Conn |-> "none"]
    /\ sent = [c \in Conn |-> 0]
    /\ clientWs = [c \in Conn |-> "none"]
    /\ toRelay = [c \in Conn |-> <<>>]
    /\ toClient = toRelay /\ pendingFrames = toRelay
    /\ nudge = [c \in Conn |-> "none"]
    /\ sock = [c \in Conn |-> <<>>]
    /\ dataSockets = [c \in Conn |-> 0]
    /\ control = "up" /\ toDaemon = <<>>
    /\ missed = FALSE
    /\ used = [b \in {"leaves", "faults"} |-> 0]

spend(b, limit) == used[b] < limit /\ used' = [used EXCEPT ![b] = @ + 1]
add(q, c, f) == [q EXCEPT ![c] = Append(@, f)]
drop(q, c) == [q EXCEPT ![c] = Tail(@)]

(* getWebSockets *)
listed == {c \in Conn : clientWs[c] \in {"open", "closing"}}
hasServerDataSocket(c) == \E k \in DOMAIN sock[c] : sock[c][k].relay \in {"open", "closing"}

notifyControls(type, ids) ==
    /\ toDaemon' = IF control = "up" THEN Append(toDaemon, [type |-> type, ids |-> ids])
                   ELSE toDaemon
    /\ missed' = (missed \/ (type = "disconnected" /\ control # "up"))
    /\ UNCHANGED control

(* What a client that is closed does not read is left out. *)
toClientOf(c, f) == IF client[c] = "closed" THEN toClient ELSE add(toClient, c, f)

-----------------------------------------------------------------------------
(* The client. *)
inFlight(q) == Cardinality({i \in DOMAIN q : q[i].kind \in {"hello", "ready"}})
handshakes(c) ==
    inFlight(toRelay[c]) + inFlight(toClient[c])
      + FoldSeq(LAMBDA s, n : n + inFlight(s.in) + inFlight(s.out), 0, sock[c])

(* fetchV2 of a client socket, and the first hello. *)
ClientConnects(c) ==
    /\ client[c] = "none"
    /\ client' = [client EXCEPT ![c] = "handshaking"]
    /\ clientWs' = [clientWs EXCEPT ![c] = "open"]
    /\ toRelay' = add(toRelay, c, frame("hello"))
    /\ notifyControls("connected", {c})
    /\ nudge' = [nudge EXCEPT ![c] = "first"]
    /\ UNCHANGED <<sent, toClient, pendingFrames, daemonVars, used>>

(* Variant: the interval goes on once the channel is open. *)
HelloRepeatedForEver(c) ==
    /\ client[c] \in {"handshaking", "open"} /\ handshakes(c) < MaxHandshake
    /\ toRelay' = add(toRelay, c, frame("hello"))
    /\ UNCHANGED <<clientVars, clientWs, pendingFrames, nudge, daemonVars, controlVars, used>>

HelloRepeated(c) ==
    /\ client[c] = "handshaking" /\ handshakes(c) < MaxHandshake
    /\ toRelay' = add(toRelay, c, frame("hello"))
    /\ UNCHANGED <<clientVars, clientWs, pendingFrames, nudge, daemonVars, controlVars, used>>

ClientSends(c) ==
    /\ client[c] = "open" /\ sent[c] < MaxMessages
    /\ sent' = [sent EXCEPT ![c] = @ + 1]
    /\ toRelay' = add(toRelay, c, [kind |-> "data", n |-> sent[c] + 1])
    /\ UNCHANGED <<client, toClient, clientWs, pendingFrames, nudge, daemonVars, controlVars, used>>

Closed(c) ==
    /\ client' = [client EXCEPT ![c] = "closed"]
    /\ toRelay' = add(toRelay, c, frame("bye"))
    /\ toClient' = [toClient EXCEPT ![c] = <<>>]

(* It closes, or gives up after its connect timeout. *)
ClientLeaves(c) ==
    /\ client[c] \in {"handshaking", "open"}
    /\ spend("leaves", MaxLeaves)
    /\ Closed(c)
    /\ UNCHANGED <<sent, clientWs, pendingFrames, nudge, daemonVars, controlVars>>

ClientReceives(c) ==
    /\ toClient[c] # <<>>
    /\ IF Head(toClient[c]).kind = "bye" THEN Closed(c)
       ELSE /\ client' = [client EXCEPT ![c] = "open"]
            /\ toClient' = drop(toClient, c)
            /\ UNCHANGED toRelay
    /\ UNCHANGED <<sent, clientWs, pendingFrames, nudge, daemonVars, controlVars, used>>

-----------------------------------------------------------------------------
(* The relay. *)
(* Variant: the buffer is trimmed before the frame is added. *)
trimmedFirst(c, f) ==
    LET q == pendingFrames[c] IN
    [pendingFrames EXCEPT ![c] = Append(IF Len(q) > MaxPending THEN Tail(q) ELSE q, f)]

bufferFrame(c, f) ==
    LET q == Append(pendingFrames[c], f) IN
    [pendingFrames EXCEPT ![c] = IF Len(q) > MaxPending THEN Tail(q) ELSE q]

(* A frame to a socket that is closing is lost. *)
forwarded(c, f) ==
    [k \in DOMAIN sock[c] |-> IF sock[c][k].relay = "open" THEN [sock[c][k] EXCEPT !.in = Append(@, f)]
                              ELSE sock[c][k]]

relayCloses(s) ==
    IF s.relay = "open" THEN [s EXCEPT !.relay = "closing", !.in = Append(@, frame("bye"))] ELSE s

FrameFromClient(c) ==
    /\ toRelay[c] # <<>> /\ Head(toRelay[c]).kind # "bye"
    /\ toRelay' = drop(toRelay, c)
    /\ IF hasServerDataSocket(c)
       THEN sock' = [sock EXCEPT ![c] = forwarded(c, Head(toRelay[c]))] /\ UNCHANGED pendingFrames
       ELSE pendingFrames' = bufferFrame(c, Head(toRelay[c])) /\ UNCHANGED sock
    /\ UNCHANGED <<clientVars, clientWs, nudge, dataSockets, controlVars, used>>

(* webSocketClose of a client socket, the last one of its id. *)
ByeFromClient(c) ==
    /\ toRelay[c] # <<>> /\ Head(toRelay[c]).kind = "bye"
    /\ toRelay' = drop(toRelay, c)
    /\ clientWs' = [clientWs EXCEPT ![c] = "gone"]
    /\ pendingFrames' = [pendingFrames EXCEPT ![c] = <<>>]
    /\ sock' = [sock EXCEPT ![c] = [k \in DOMAIN @ |-> relayCloses(@[k])]]
    /\ notifyControls("disconnected", {c})
    /\ UNCHANGED <<clientVars, nudge, dataSockets, used>>

(* A frame of the daemon, or the end of a data socket, which also ends its client's. *)
FrameFromDaemon(c, k) ==
    /\ sock[c][k].out # <<>>
    /\ LET f == Head(sock[c][k].out)
           s == [sock[c][k] EXCEPT !.out = Tail(@)] IN
       IF f.kind # "bye"
       THEN /\ toClient' = IF clientWs[c] = "open" THEN toClientOf(c, f) ELSE toClient
            /\ sock' = [sock EXCEPT ![c][k] = s]
            /\ UNCHANGED clientWs
       ELSE /\ sock' = [sock EXCEPT ![c][k] =
                          [s EXCEPT !.relay = "gone",
                                    !.in = IF s.relay = "open" THEN Append(@, frame("bye")) ELSE @]]
            /\ clientWs' = [clientWs EXCEPT ![c] = IF @ = "open" /\ s.relay # "gone" THEN "closing" ELSE @]
            /\ toClient' = IF clientWs[c] = "open" /\ s.relay # "gone" THEN toClientOf(c, f) ELSE toClient
    /\ UNCHANGED <<client, sent, toRelay, pendingFrames, nudge, dataSockets, controlVars, used>>

(* nudgeOrResetControlForConnection, 10 s after the client has connected.  A message on a control *)
(* socket that is up takes less than the delays, so none of them is still on the way.             *)
NudgeSync(c) ==
    /\ nudge[c] = "first" /\ toDaemon = <<>>
    /\ IF c \in listed /\ ~hasServerDataSocket(c)
       THEN nudge' = [nudge EXCEPT ![c] = "second"] /\ notifyControls("sync", listed)
       ELSE nudge' = [nudge EXCEPT ![c] = "none"] /\ UNCHANGED controlVars
    /\ UNCHANGED <<clientVars, clientWs, toRelay, pendingFrames, daemonVars, used>>

(* Variant: the control socket is left alone. *)
NudgeWithoutReset(c) ==
    /\ nudge[c] = "second" /\ toDaemon = <<>>
    /\ nudge' = [nudge EXCEPT ![c] = "none"]
    /\ UNCHANGED <<clientVars, clientWs, toRelay, pendingFrames, daemonVars, controlVars, used>>

(* 5 s later.  An attempt to open a data socket lasts 10 s at most, so none is under way that     *)
(* began when the client connected.                                                               *)
NudgeReset(c) ==
    /\ nudge[c] = "second" /\ toDaemon = <<>>
    /\ \A k \in DOMAIN sock[c] : sock[c][k].daemon # "connecting"
    /\ nudge' = [nudge EXCEPT ![c] = "none"]
    /\ IF c \in listed /\ ~hasServerDataSocket(c) /\ control = "up"
       THEN control' = "closing" /\ toDaemon' = Append(toDaemon, [type |-> "bye", ids |-> {}])
       ELSE UNCHANGED <<control, toDaemon>>
    /\ UNCHANGED <<clientVars, clientWs, toRelay, pendingFrames, daemonVars, missed, used>>

-----------------------------------------------------------------------------
(* The daemon's control socket. *)
ensureClientDataSocket(ids) ==
    LET new == {c \in ids : dataSockets[c] = 0} IN
    /\ sock' = [c \in Conn |-> IF c \in new THEN Append(sock[c], newSocket) ELSE sock[c]]
    /\ dataSockets' = [c \in Conn |-> IF c \in new THEN Len(sock[c]) + 1 ELSE dataSockets[c]]

(* Variant: only a data socket that is open is closed. *)
closesOpenOnly(s) ==
    IF s.daemon = "open"
    THEN [s EXCEPT !.daemon = "closing", !.out = Append(@, frame("bye"))] ELSE s

(* close() of the daemon: an attempt to connect is given up. *)
daemonCloses(s) ==
    IF s.daemon = "connecting" THEN [s EXCEPT !.daemon = "closed"]
    ELSE IF s.daemon = "open"
    THEN [s EXCEPT !.daemon = "closing", !.out = Append(@, frame("bye"))] ELSE s

ControlReceives ==
    /\ control \in {"up", "closing"} /\ toDaemon # <<>>
    /\ toDaemon' = Tail(toDaemon)
    /\ LET m == Head(toDaemon) IN
       \/ m.type \in {"sync", "connected"} /\ ensureClientDataSocket(m.ids) /\ UNCHANGED control
       \/ /\ m.type = "disconnected"
          /\ sock' = [c \in Conn |->
                        IF c \in m.ids /\ dataSockets[c] # 0
                        THEN [sock[c] EXCEPT ![dataSockets[c]] = daemonCloses(@)] ELSE sock[c]]
          /\ dataSockets' = [c \in Conn |-> IF c \in m.ids THEN 0 ELSE dataSockets[c]]
          /\ UNCHANGED control
       \/ m.type = "bye" /\ control' = "down" /\ UNCHANGED daemonVars
    /\ UNCHANGED <<clientVars, relayVars, missed, used>>

(* Its keepalive finds the connection broken. *)
ControlStale ==
    /\ control = "broken"
    /\ control' = "down"
    /\ UNCHANGED <<clientVars, relayVars, daemonVars, toDaemon, missed, used>>

(* After the delay of scheduleReconnect; the relay tells which clients are there. *)
ControlConnects ==
    /\ control = "down"
    /\ control' = "up"
    /\ toDaemon' = <<[type |-> "sync", ids |-> listed]>>
    /\ UNCHANGED <<clientVars, relayVars, daemonVars, missed, used>>

-----------------------------------------------------------------------------
(* The daemon's data sockets. *)

(* fetchV2 of a data socket: an older one is closed, and the buffered frames are sent. *)
DataConnects(c, k) ==
    /\ sock[c][k].daemon = "connecting"
    /\ sock' = [sock EXCEPT ![c] =
                  [i \in DOMAIN @ |-> IF i = k
                     THEN [@[i] EXCEPT !.daemon = "open", !.relay = "open", !.in = pendingFrames[c]]
                     ELSE relayCloses(@[i])]]
    /\ pendingFrames' = [pendingFrames EXCEPT ![c] = <<>>]
    /\ UNCHANGED <<clientVars, clientWs, toRelay, nudge, dataSockets, controlVars, used>>

forgets(c, k) == [dataSockets EXCEPT ![c] = IF @ = k THEN 0 ELSE @]

(* The first frame must be a hello; another hello of the same key is answered again.  A socket    *)
(* that is closing still receives, and what is sent on it is dropped.                             *)
DataReceives(c, k) ==
    /\ sock[c][k].in # <<>>
    /\ LET f == Head(sock[c][k].in)
           s == [sock[c][k] EXCEPT !.in = Tail(@)]
           becomes(t) == sock' = [sock EXCEPT ![c][k] = t] IN
       \/ /\ f.kind = "hello" /\ s.daemon # "closed" /\ s.channel # "rejected"
          /\ becomes([s EXCEPT !.channel = "open",
                               !.out = IF s.daemon = "open" THEN Append(@, frame("ready")) ELSE @])
          /\ UNCHANGED dataSockets
       \/ /\ f.kind = "data" /\ s.daemon # "closed" /\ s.channel = "open"
          /\ becomes([s EXCEPT !.got = Append(@, f.n)])
          /\ UNCHANGED dataSockets
       \/ /\ f.kind = "data" /\ s.daemon # "closed" /\ s.channel = "handshake"
          /\ becomes([daemonCloses(s) EXCEPT !.channel = "rejected"])
          /\ UNCHANGED dataSockets
       \/ /\ f.kind # "bye" /\ (s.daemon = "closed" \/ s.channel = "rejected")
          /\ becomes(s)
          /\ UNCHANGED dataSockets
       \/ /\ f.kind = "bye"
          /\ becomes([daemonCloses(s) EXCEPT !.daemon = "closed"])
          /\ dataSockets' = forgets(c, k)
    /\ UNCHANGED <<clientVars, relayVars, controlVars, used>>

-----------------------------------------------------------------------------
(* Faults. *)
DataFails(c, k) ==
    /\ sock[c][k].daemon = "connecting"
    /\ spend("faults", MaxFaults)
    /\ sock' = [sock EXCEPT ![c][k].daemon = "closed"]
    /\ dataSockets' = forgets(c, k)
    /\ UNCHANGED <<clientVars, relayVars, controlVars>>

(* Both ends see the connection end; what was on the way is lost. *)
DataBreaks(c, k) ==
    /\ sock[c][k].relay = "open" /\ sock[c][k].daemon = "open"
    /\ spend("faults", MaxFaults)
    /\ sock' = [sock EXCEPT ![c][k].in = <<frame("bye")>>, ![c][k].out = <<frame("bye")>>]
    /\ UNCHANGED <<clientVars, relayVars, dataSockets, controlVars>>

ControlBreaks ==
    /\ control \in {"up", "closing"}
    /\ spend("faults", MaxFaults)
    /\ control' = "broken"
    /\ toDaemon' = <<>>
    /\ missed' = (missed \/ \E i \in DOMAIN toDaemon : toDaemon[i].type = "disconnected")
    /\ UNCHANGED <<clientVars, relayVars, daemonVars>>

(* The object is evicted from memory while its sockets stay; a timer that is set prevents it. *)
Hibernates ==
    /\ \A c \in Conn : nudge[c] = "none"
    /\ spend("faults", MaxFaults)
    /\ pendingFrames' = [c \in Conn |-> <<>>]
    /\ UNCHANGED <<clientVars, clientWs, toRelay, nudge, daemonVars, controlVars>>

-----------------------------------------------------------------------------
ControlStep == ControlReceives \/ ControlStale \/ ControlConnects

FromClient(c) == FrameFromClient(c) \/ ByeFromClient(c)
FromDaemon(c) == \E k \in DOMAIN sock[c] : FrameFromDaemon(c, k)
ToDaemon(c) == \E k \in DOMAIN sock[c] : DataReceives(c, k)
DataOpens(c) == \E k \in DOMAIN sock[c] : DataConnects(c, k)
Nudge(c) == NudgeSync(c) \/ NudgeReset(c)

Next ==
    \/ ControlStep \/ ControlBreaks \/ Hibernates
    \/ \E c \in Conn :
         \/ ClientConnects(c) \/ HelloRepeated(c) \/ ClientSends(c) \/ ClientLeaves(c)
         \/ ClientReceives(c) \/ FromClient(c) \/ FromDaemon(c) \/ ToDaemon(c)
         \/ DataOpens(c) \/ Nudge(c)
         \/ \E k \in DOMAIN sock[c] : DataFails(c, k) \/ DataBreaks(c, k)

Spec == Init /\ [][Next]_vars

(* Frames arrive, timers fire and sockets connect; clients and faults are free. *)
FairSpec ==
    /\ Spec
    /\ WF_vars(ControlStep)
    /\ \A c \in Conn :
         /\ WF_vars(HelloRepeated(c)) /\ WF_vars(ClientReceives(c))
         /\ WF_vars(FromClient(c)) /\ WF_vars(FromDaemon(c)) /\ WF_vars(ToDaemon(c))
         /\ WF_vars(DataOpens(c)) /\ WF_vars(Nudge(c))

-----------------------------------------------------------------------------
(* Properties. *)

(* What a data socket delivers is a prefix of what its client has sent, through the relay's       *)
(* buffer, repeated hellos and replaced data sockets: a frame is never lost in the middle.  A     *)
(* frame carries no number (encrypted-channel.ts:391), so a gap would go unnoticed.               *)
InOrder ==
    \A c \in Conn : \A k \in DOMAIN sock[c] :
        \A i \in DOMAIN sock[c][k].got : sock[c][k].got[i] = i

(* A client that has connected ends up with an open channel or a closed socket, although a        *)
(* control socket, a data socket or the relay's memory is lost on the way                         *)
(* (cloudflare-adapter.ts:216-252, encrypted-channel.ts:158-164).                                 *)
ClientServed == \A c \in Conn : client[c] = "handshaking" ~> client[c] \in {"open", "closed"}

(* The daemon keeps no data socket for a client that has gone, unless the message that said so    *)
(* was lost with a control socket (relay-transport.ts:321-331).                                   *)
DataReleased ==
    \A c \in Conn :
        client[c] = "closed" ~>
            missed \/ (dataSockets[c] = 0 /\ \A k \in DOMAIN sock[c] : sock[c][k].daemon = "closed")
=============================================================================
