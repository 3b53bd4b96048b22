----------------------------- MODULE Relay_proofs -----------------------------
(***************************************************************************)
(* Theorems about Relay for any number of clients, data sockets, frames    *)
(* and faults, and for any size of the relay's buffer.                     *)
(***************************************************************************)
EXTENDS Relay, SequenceTheorems, TLAPS

-----------------------------------------------------------------------------
(* The inductive invariant: at every place a frame can be, the next one is  *)
(* one that its client has sent right after it.                             *)
Follows(f, g) ==
    \/ f.kind = "bye"
    \/ g.kind = "bye"
    \/ f.kind = "hello" /\ g.kind = "hello"
    \/ f.kind = "hello" /\ g.kind = "data" /\ g.n = 1
    \/ f.kind = "data" /\ g.kind = "data" /\ g.n = f.n + 1

(* What a client that has sent n data frames may have sent last. *)
Latest(n, f) ==
    \/ f.kind = "bye"
    \/ f.kind = "hello" /\ n = 0
    \/ f.kind = "data" /\ f.n = n /\ n > 0

(* The next frame to come, from q or from the client, may come after f. *)
Joined(q, n, f) == IF q = <<>> THEN Latest(n, f) ELSE Follows(f, q[1])

Chain(q) == \A i \in 1..(Len(q) - 1) : Follows(q[i], q[i + 1])

(* The last frame that the daemon's channel has read: its hello, or a data frame. *)
lastRead(s) == IF s.got = <<>> THEN frame("hello") ELSE [kind |-> "data", n |-> Len(s.got)]

(* Nothing has happened on a socket that connects; on one that is read, what *)
(* has been delivered, what is on the way and, while the relay forwards to   *)
(* it, what is to come, are consecutive.                                     *)
Fresh(s) ==
    /\ s.daemon = "connecting" =>
         s.channel = "handshake" /\ s.relay = "none" /\ s.in = <<>> /\ s.out = <<>>
    /\ s.channel = "handshake" => s.got = <<>>
    /\ \A i \in DOMAIN s.got : s.got[i] = i

Consecutive(q, n, s) ==
    s.daemon # "closed" /\ s.channel # "rejected" =>
        /\ Chain(s.in)
        /\ s.relay = "open" /\ s.in # <<>> => Joined(q, n, s.in[Len(s.in)])
        /\ s.channel = "open" /\ s.in # <<>> => Follows(lastRead(s), s.in[1])
        /\ s.channel = "open" /\ s.in = <<>> /\ s.relay = "open" => Joined(q, n, lastRead(s))

Ordered(q, n, s) == Fresh(s) /\ Consecutive(q, n, s)

(* A client sends no data before its channel is open. *)
Unsent == \A c \in Conn : client[c] \in {"none", "handshaking"} => sent[c] = 0

SentInOrder(q, n) == Chain(q) /\ (q # <<>> => Latest(n, q[Len(q)]))

Upstream == \A c \in Conn : SentInOrder(toRelay[c], sent[c])

(* The relay buffers only while it lists no data socket, and forwards at once otherwise. *)
BufferJoined(p, q, n) == Chain(p) /\ (p # <<>> => Joined(q, n, p[Len(p)]))

Buffered ==
    \A c \in Conn : /\ BufferJoined(pendingFrames[c], toRelay[c], sent[c])
                    /\ pendingFrames[c] # <<>> => ~hasServerDataSocket(c)

Delivered == \A c \in Conn : \A k \in DOMAIN sock[c] : Ordered(toRelay[c], sent[c], sock[c][k])

Kept == Unsent /\ Upstream /\ Buffered /\ Delivered

IInv == TypeOK /\ Kept

-----------------------------------------------------------------------------
(* Sequences of frames. *)
LEMMA ChainAppend ==
    ASSUME NEW q \in Seq(Frame), NEW f \in Frame, Chain(q), q # <<>> => Follows(q[Len(q)], f)
    PROVE  /\ Append(q, f) \in Seq(Frame) /\ Append(q, f) # <<>>
           /\ Chain(Append(q, f))
           /\ Append(q, f)[Len(Append(q, f))] = f
           /\ Append(q, f)[1] = IF q = <<>> THEN f ELSE q[1]
<1>1. /\ Append(q, f) \in Seq(Frame) /\ Len(Append(q, f)) = Len(q) + 1 /\ Len(q) \in Nat
      /\ \A i \in 1..Len(q) : Append(q, f)[i] = q[i]
      /\ Append(q, f)[Len(q) + 1] = f
    OBVIOUS
<1>2. q = <<>> <=> Len(q) = 0
    OBVIOUS
<1>3. ASSUME NEW i \in 1..Len(q) PROVE Follows(Append(q, f)[i], Append(q, f)[i + 1])
    <2>1. CASE i < Len(q)
        BY <1>1, <2>1 DEF Chain
    <2>2. CASE i = Len(q)
        BY <1>1, <1>2, <2>2
    <2>3. QED
        BY <1>1, <2>1, <2>2
<1>4. QED
    BY <1>1, <1>2, <1>3 DEF Chain

LEMMA ChainTail ==
    ASSUME NEW q \in Seq(Frame), q # <<>>, Chain(q)
    PROVE  /\ Tail(q) \in Seq(Frame) /\ Chain(Tail(q))
           /\ Head(q) = q[1] /\ q[1] \in Frame
           /\ Tail(q) = <<>> => q[1] = q[Len(q)]
           /\ Tail(q) # <<>> => /\ Tail(q)[Len(Tail(q))] = q[Len(q)]
                                /\ Follows(q[1], Tail(q)[1])
<1>1. /\ Tail(q) \in Seq(Frame) /\ Len(Tail(q)) = Len(q) - 1 /\ Len(q) \in Nat \ {0}
      /\ \A i \in 1..(Len(q) - 1) : Tail(q)[i] = q[i + 1]
      /\ Head(q) = q[1] /\ q[1] \in Frame
    OBVIOUS
<1>2. Tail(q) = <<>> <=> Len(q) = 1
    BY <1>1
<1>3. Chain(Tail(q))
    BY <1>1 DEF Chain
<1>4. QED
    BY <1>1, <1>2, <1>3 DEF Chain

LEMMA LastType ==
    ASSUME NEW q \in Seq(Frame), q # <<>>
    PROVE  q[Len(q)] \in Frame /\ q[1] \in Frame /\ Len(q) \in Nat \ {0}
OBVIOUS

LEMMA EmptyChain == Chain(<<>>) /\ <<>> \in Seq(Frame)
BY DEF Chain

LEMMA ByeFrame == frame("bye") \in Frame /\ frame("hello") \in Frame /\ frame("ready") \in Frame
                  /\ frame("bye").kind = "bye" /\ frame("hello").kind = "hello"
BY DEF frame, Frame

LEMMA ByeFits ==
    ASSUME NEW f
    PROVE  Follows(f, frame("bye")) /\ Follows(frame("bye"), f)
BY ByeFrame DEF Follows

LEMMA LastReadType ==
    ASSUME NEW s \in DataSocket
    PROVE  lastRead(s) \in Frame /\ s.in \in Seq(Frame) /\ s.out \in Seq(Frame) /\ s.got \in Seq(Nat)
<1>1. s.got \in Seq(Nat) /\ s.in \in Seq(Frame) /\ s.out \in Seq(Frame) /\ Len(s.got) \in Nat
    BY DEF DataSocket
<1>2. QED
    BY <1>1, ByeFrame DEF lastRead, Frame

-----------------------------------------------------------------------------
(* What the client sends. *)
LEMMA UpstreamAppend ==
    ASSUME NEW q \in Seq(Frame), NEW n \in Nat, NEW m \in Nat, NEW f \in Frame, SentInOrder(q, n),
           \A g \in Frame : Latest(n, g) => Follows(g, f), Latest(m, f)
    PROVE  /\ Append(q, f) \in Seq(Frame)
           /\ SentInOrder(Append(q, f), m)
           /\ \A g \in Frame : Joined(q, n, g) => Joined(Append(q, f), m, g)
<1>1. q # <<>> => Follows(q[Len(q)], f)
    BY LastType DEF SentInOrder
<1>2. /\ Append(q, f) \in Seq(Frame) /\ Append(q, f) # <<>>
      /\ Chain(Append(q, f))
      /\ Append(q, f)[Len(Append(q, f))] = f
      /\ Append(q, f)[1] = IF q = <<>> THEN f ELSE q[1]
    BY <1>1, ChainAppend DEF SentInOrder
<1>3. QED
    BY <1>2 DEF SentInOrder, Joined

LEMMA UpstreamTail ==
    ASSUME NEW q \in Seq(Frame), NEW n \in Nat, SentInOrder(q, n), q # <<>>
    PROVE  /\ Tail(q) \in Seq(Frame) /\ Head(q) \in Frame
           /\ SentInOrder(Tail(q), n)
           /\ Joined(Tail(q), n, Head(q))
           /\ \A g : Joined(q, n, g) => Follows(g, Head(q))
<1>1. /\ Tail(q) \in Seq(Frame) /\ Chain(Tail(q))
      /\ Head(q) = q[1] /\ q[1] \in Frame
      /\ Tail(q) = <<>> => q[1] = q[Len(q)]
      /\ Tail(q) # <<>> => /\ Tail(q)[Len(Tail(q))] = q[Len(q)]
                           /\ Follows(q[1], Tail(q)[1])
    BY ChainTail DEF SentInOrder
<1>2. QED
    BY <1>1 DEF SentInOrder, Joined

(* The two frames a client appends. *)
LEMMA HelloFits ==
    ASSUME NEW g \in Frame
    PROVE  /\ Latest(0, g) => Follows(g, frame("hello"))
           /\ Latest(0, frame("hello"))
BY ByeFrame DEF Latest, Follows, Frame

LEMMA DataFits ==
    ASSUME NEW n \in Nat, NEW g \in Frame, NEW f, f = [kind |-> "data", n |-> n + 1]
    PROVE  /\ f \in Frame
           /\ Latest(n, g) => Follows(g, f)
           /\ Latest(n + 1, f)
<1>1. f \in Frame /\ f.kind = "data" /\ f.n = n + 1
    BY DEF Frame
<1>2. QED
    BY <1>1 DEF Latest, Follows, Frame

-----------------------------------------------------------------------------
(* What happens to a data socket. *)
LEMMA SocketJoined ==
    ASSUME NEW s \in DataSocket, NEW q, NEW n, NEW p, NEW m,
           \A g \in Frame : Joined(q, n, g) => Joined(p, m, g), Ordered(q, n, s)
    PROVE  Ordered(p, m, s)
<1>1. s.in # <<>> => s.in[Len(s.in)] \in Frame
    BY LastType, LastReadType
<1>2. lastRead(s) \in Frame
    BY LastReadType
<1>3. QED
    BY <1>1, <1>2 DEF Ordered, Consecutive

(* The relay forwards the client's next frame f. *)
Forwards(s, t, f) == t = IF s.relay = "open" THEN [s EXCEPT !.in = Append(@, f)] ELSE s

LEMMA SocketForward ==
    ASSUME NEW s \in DataSocket, NEW q \in Seq(Frame), NEW n \in Nat, SentInOrder(q, n), q # <<>>,
           Ordered(q, n, s), NEW t, Forwards(s, t, Head(q))
    PROVE  t \in DataSocket /\ Ordered(Tail(q), n, t) /\ t.relay = s.relay
<1>1. /\ Head(q) \in Frame /\ Joined(Tail(q), n, Head(q))
      /\ \A g : Joined(q, n, g) => Follows(g, Head(q))
    BY UpstreamTail
<1>2. CASE s.relay # "open"
    BY <1>2 DEF Ordered, Consecutive, Forwards
<1>3. CASE s.relay = "open"
    <2>1. /\ t = [s EXCEPT !.in = Append(s.in, Head(q))] /\ s.in \in Seq(Frame)
        BY <1>3, LastReadType DEF Forwards
    <2>2. Append(s.in, Head(q)) \in Seq(Frame)
        BY <1>1, <2>1
    <2>3. /\ t \in DataSocket /\ t.in = Append(s.in, Head(q)) /\ t.out = s.out /\ t.got = s.got
          /\ t.daemon = s.daemon /\ t.channel = s.channel /\ t.relay = s.relay
        BY <2>1, <2>2 DEF DataSocket
    <2>4. Fresh(t)
        BY <1>3, <2>3 DEF Ordered, Fresh
    <2>5. lastRead(t) = lastRead(s)
        BY <2>3 DEF lastRead
    <2>6. Consecutive(Tail(q), n, t)
        <3> SUFFICES ASSUME s.daemon # "closed", s.channel # "rejected"
                     PROVE  /\ Chain(t.in)
                            /\ t.in # <<>> => Joined(Tail(q), n, t.in[Len(t.in)])
                            /\ t.channel = "open" /\ t.in # <<>> => Follows(lastRead(t), t.in[1])
                            /\ t.in # <<>>
            BY <2>3 DEF Consecutive
        <3>1. Chain(s.in) /\ (s.in # <<>> => Follows(s.in[Len(s.in)], Head(q)))
            BY <1>1, <1>3 DEF Ordered, Consecutive
        <3>2. /\ t.in # <<>> /\ Chain(t.in) /\ t.in[Len(t.in)] = Head(q)
              /\ t.in[1] = IF s.in = <<>> THEN Head(q) ELSE s.in[1]
            BY <1>1, <2>1, <2>3, <3>1, ChainAppend
        <3>3. s.channel = "open" => Follows(lastRead(s), t.in[1])
            BY <1>1, <1>3, <3>2 DEF Ordered, Consecutive
        <3>4. QED
            BY <1>1, <2>3, <2>5, <3>2, <3>3
    <2>7. QED
        BY <2>3, <2>4, <2>6 DEF Ordered
<1>4. QED
    BY <1>2, <1>3

(* A socket that the relay ends, whatever the client sends from now on. *)
Ends(s, t, r) ==
    t = IF s.relay = "open" THEN [s EXCEPT !.relay = r, !.in = Append(@, frame("bye"))]
        ELSE IF r = "gone" /\ s.daemon # "connecting" THEN [s EXCEPT !.relay = r] ELSE s

LEMMA SocketEnds ==
    ASSUME NEW s \in DataSocket, NEW q, NEW n, NEW p, NEW m, Ordered(q, n, s),
           NEW r \in {"closing", "gone"}, NEW t, Ends(s, t, r)
    PROVE  t \in DataSocket /\ Ordered(p, m, t)
<1>1. CASE s.relay = "open"
    <2>1. /\ t = [s EXCEPT !.relay = r, !.in = Append(s.in, frame("bye"))] /\ s.in \in Seq(Frame)
        BY <1>1, LastReadType DEF Ends
    <2>2. Append(s.in, frame("bye")) \in Seq(Frame)
        BY <2>1, ByeFrame
    <2>3. /\ t \in DataSocket /\ t.in = Append(s.in, frame("bye")) /\ t.out = s.out /\ t.got = s.got
          /\ t.daemon = s.daemon /\ t.channel = s.channel /\ t.relay = r
        BY <2>1, <2>2 DEF DataSocket
    <2>4. Fresh(t)
        BY <1>1, <2>3 DEF Ordered, Fresh
    <2>5. lastRead(t) = lastRead(s)
        BY <2>3 DEF lastRead
    <2>6. Consecutive(p, m, t)
        <3> SUFFICES ASSUME s.daemon # "closed", s.channel # "rejected"
                     PROVE  /\ Chain(t.in)
                            /\ t.channel = "open" /\ t.in # <<>> => Follows(lastRead(t), t.in[1])
                            /\ t.in # <<>>
            BY <2>3 DEF Consecutive
        <3>1. Chain(s.in)
            BY DEF Ordered, Consecutive
        <3>2. /\ t.in # <<>> /\ Chain(t.in)
              /\ t.in[1] = IF s.in = <<>> THEN frame("bye") ELSE s.in[1]
            BY <2>1, <2>3, <3>1, ByeFrame, ByeFits, ChainAppend
        <3>3. s.channel = "open" => Follows(lastRead(s), t.in[1])
            BY <3>2, ByeFits DEF Ordered, Consecutive
        <3>4. QED
            BY <2>3, <2>5, <3>2, <3>3
    <2>7. QED
        BY <2>3, <2>4, <2>6 DEF Ordered
<1>2. CASE s.relay # "open" /\ r = "gone" /\ s.daemon # "connecting"
    <2>1. t = [s EXCEPT !.relay = r]
        BY <1>2 DEF Ends
    <2>2. /\ t \in DataSocket /\ t.in = s.in /\ t.out = s.out /\ t.got = s.got
          /\ t.daemon = s.daemon /\ t.channel = s.channel /\ t.relay = r
        BY <2>1 DEF DataSocket
    <2>3. QED
        BY <1>2, <2>2 DEF Ordered, Fresh, Consecutive, lastRead
<1>3. CASE s.relay # "open" /\ ~(r = "gone" /\ s.daemon # "connecting")
    BY <1>3 DEF Ordered, Consecutive, Ends
<1>4. QED
    BY <1>1, <1>2, <1>3

LEMMA NewSocketOrdered ==
    ASSUME NEW q, NEW n
    PROVE  newSocket \in DataSocket /\ Ordered(q, n, newSocket)
<1>1. /\ newSocket \in DataSocket /\ newSocket.in = <<>> /\ newSocket.out = <<>>
      /\ newSocket.got = <<>> /\ newSocket.daemon = "connecting"
      /\ newSocket.channel = "handshake" /\ newSocket.relay = "none"
    BY EmptyChain DEF newSocket, DataSocket
<1>2. DOMAIN newSocket.got = {}
    BY <1>1
<1>3. Fresh(newSocket)
    BY <1>1, <1>2 DEF Fresh
<1>4. QED
    BY <1>1, <1>3, EmptyChain DEF Ordered, Consecutive

(* It takes over what the relay has buffered. *)
TakesOver(s, t, p) ==
    s.daemon = "connecting" /\ t = [s EXCEPT !.daemon = "open", !.relay = "open", !.in = p]

LEMMA SocketConnects ==
    ASSUME NEW s \in DataSocket, NEW q, NEW n, Ordered(q, n, s),
           NEW p \in Seq(Frame), BufferJoined(p, q, n), NEW t, TakesOver(s, t, p)
    PROVE  t \in DataSocket /\ Ordered(q, n, t)
<1>1. /\ t \in DataSocket /\ t.in = p /\ t.out = s.out /\ t.got = s.got
      /\ t.daemon = "open" /\ t.channel = s.channel /\ t.relay = "open"
    BY DEF DataSocket, TakesOver
<1>2. s.channel = "handshake"
    BY DEF Ordered, Fresh, TakesOver
<1>3. Fresh(t)
    BY <1>1 DEF Ordered, Fresh
<1>4. Consecutive(q, n, t)
    BY <1>1, <1>2 DEF Consecutive, BufferJoined
<1>5. QED
    BY <1>1, <1>3, <1>4 DEF Ordered

(* The daemon closes it, or its attempt to connect fails. *)
LEMMA SocketCloses ==
    ASSUME NEW s \in DataSocket, NEW q, NEW n, Ordered(q, n, s),
           NEW t, t = daemonCloses(s) \/ t = [s EXCEPT !.daemon = "closed"]
    PROVE  /\ t \in DataSocket /\ Ordered(q, n, t) /\ t.relay = s.relay
           /\ t.in = s.in /\ t.got = s.got /\ t.channel = s.channel
<1>1. s.out \in Seq(Frame) /\ Append(s.out, frame("bye")) \in Seq(Frame)
    BY LastReadType, ByeFrame
<1>2. /\ t \in DataSocket /\ t.in = s.in /\ t.got = s.got /\ t.channel = s.channel
      /\ t.relay = s.relay /\ t.daemon \in {s.daemon, "closing", "closed"}
      /\ s.daemon = "closed" => t.daemon = "closed"
    <2>1. CASE t = [s EXCEPT !.daemon = "closed"]
        BY <2>1 DEF DataSocket
    <2>2. CASE s.daemon = "connecting" /\ t = daemonCloses(s)
        BY <2>2 DEF DataSocket, daemonCloses
    <2>3. CASE s.daemon = "open" /\ t = daemonCloses(s)
        <3>1. t = [s EXCEPT !.daemon = "closing", !.out = Append(s.out, frame("bye"))]
            BY <2>3 DEF daemonCloses
        <3>2. QED
            BY <1>1, <2>3, <3>1 DEF DataSocket
    <2>4. CASE s.daemon \notin {"connecting", "open"} /\ t = daemonCloses(s)
        BY <2>4 DEF DataSocket, daemonCloses
    <2>5. QED
        BY <2>1, <2>2, <2>3, <2>4
<1>3. t.daemon = "connecting" => t = s
    BY DEF daemonCloses, DataSocket
<1>4. Fresh(t)
    BY <1>2, <1>3 DEF Ordered, Fresh
<1>5. lastRead(t) = lastRead(s)
    BY <1>2 DEF lastRead
<1>6. Consecutive(q, n, t)
    BY <1>2, <1>5 DEF Ordered, Consecutive
<1>7. QED
    BY <1>2, <1>4, <1>6 DEF Ordered

(* A frame of the daemon is taken off it. *)
LEMMA SocketSent ==
    ASSUME NEW s \in DataSocket, NEW q, NEW n, Ordered(q, n, s), s.out # <<>>,
           NEW t, t = [s EXCEPT !.out = Tail(@)]
    PROVE  /\ t \in DataSocket /\ Ordered(q, n, t) /\ t.relay = s.relay /\ t.in = s.in
           /\ s.daemon # "connecting" /\ t.daemon = s.daemon /\ Head(s.out) \in Frame
<1>1. s.out \in Seq(Frame) /\ Tail(s.out) \in Seq(Frame) /\ Head(s.out) \in Frame
    BY LastReadType
<1>2. /\ t \in DataSocket /\ t.in = s.in /\ t.got = s.got /\ t.channel = s.channel
      /\ t.relay = s.relay /\ t.daemon = s.daemon
    BY <1>1 DEF DataSocket
<1>3. s.daemon # "connecting"
    BY DEF Ordered, Fresh
<1>4. QED
    BY <1>1, <1>2, <1>3 DEF Ordered, Fresh, Consecutive, lastRead

(* Both ends see it break. *)
Broken(s, t) ==
    s.daemon = "open" /\ t = [s EXCEPT !.in = <<frame("bye")>>, !.out = <<frame("bye")>>]

LEMMA SocketBreaks ==
    ASSUME NEW s \in DataSocket, NEW q, NEW n, Ordered(q, n, s), NEW t, Broken(s, t)
    PROVE  t \in DataSocket /\ Ordered(q, n, t) /\ t.relay = s.relay
<1> DEFINE q1 == <<frame("bye")>>
<1>1. q1 \in Seq(Frame) /\ Len(q1) = 1 /\ q1[1] = frame("bye") /\ q1 # <<>>
    BY ByeFrame
<1>2. t = [s EXCEPT !.in = q1, !.out = q1] /\ s.daemon = "open"
    BY DEF Broken
<1> HIDE DEF q1
<1>3. /\ t \in DataSocket /\ t.in = q1 /\ t.got = s.got /\ t.channel = s.channel
      /\ t.relay = s.relay /\ t.daemon = "open"
    BY <1>1, <1>2 DEF DataSocket
<1>4. Chain(q1) /\ Joined(q, n, q1[Len(q1)])
    BY <1>1, ByeFits, ByeFrame DEF Chain, Joined, Latest, Follows
<1>5. QED
    BY <1>1, <1>3, <1>4, ByeFits DEF Ordered, Fresh, Consecutive

(* The steps of DataReceives: u is the socket with its first frame taken off, and t what the       *)
(* socket becomes.                                                                                 *)
Taken(s, u) == s.in # <<>> /\ u = [s EXCEPT !.in = Tail(@)]

HelloRead(s, u, t) ==
    /\ Head(s.in).kind = "hello" /\ u.daemon # "closed" /\ u.channel # "rejected"
    /\ t = [u EXCEPT !.channel = "open",
                     !.out = IF u.daemon = "open" THEN Append(@, frame("ready")) ELSE @]

DataRead(s, u, t) ==
    /\ Head(s.in).kind = "data" /\ u.daemon # "closed" /\ u.channel = "open"
    /\ t = [u EXCEPT !.got = Append(@, Head(s.in).n)]

Dropped(u, t) ==
    \/ t = u /\ (u.daemon = "closed" \/ u.channel = "rejected")
    \/ t = [daemonCloses(u) EXCEPT !.channel = "rejected"]
    \/ t = [daemonCloses(u) EXCEPT !.daemon = "closed"]

(* What is known of the frame that is taken off. *)
LEMMA FrameTaken ==
    ASSUME NEW s \in DataSocket, NEW q, NEW n, Ordered(q, n, s), NEW u, Taken(s, u)
    PROVE  /\ u \in DataSocket /\ u.relay = s.relay /\ u.daemon = s.daemon /\ u.out = s.out
           /\ u.channel = s.channel /\ u.got = s.got /\ lastRead(u) = lastRead(s)
           /\ Head(s.in) \in Frame /\ s.daemon # "connecting"
           /\ s.daemon # "closed" /\ s.channel # "rejected" =>
                /\ Chain(u.in)
                /\ s.relay = "open" /\ u.in # <<>> => Joined(q, n, u.in[Len(u.in)])
                /\ u.in # <<>> => Follows(Head(s.in), u.in[1])
                /\ u.in = <<>> /\ s.relay = "open" => Joined(q, n, Head(s.in))
                /\ s.channel = "open" => Follows(lastRead(s), Head(s.in))
<1>1. s.in \in Seq(Frame) /\ Tail(s.in) \in Seq(Frame) /\ Head(s.in) \in Frame /\ Head(s.in) = s.in[1]
    BY LastReadType DEF Taken
<1>2. /\ u \in DataSocket /\ u.in = Tail(s.in) /\ u.relay = s.relay /\ u.daemon = s.daemon
      /\ u.out = s.out /\ u.channel = s.channel /\ u.got = s.got
    BY <1>1 DEF DataSocket, Taken
<1>3. lastRead(u) = lastRead(s) /\ s.daemon # "connecting"
    BY <1>2 DEF lastRead, Ordered, Fresh, Taken
<1>4. ASSUME s.daemon # "closed", s.channel # "rejected"
      PROVE  /\ Chain(u.in)
             /\ s.relay = "open" /\ u.in # <<>> => Joined(q, n, u.in[Len(u.in)])
             /\ u.in # <<>> => Follows(Head(s.in), u.in[1])
             /\ u.in = <<>> /\ s.relay = "open" => Joined(q, n, Head(s.in))
             /\ s.channel = "open" => Follows(lastRead(s), Head(s.in))
    <2>1. /\ Chain(s.in)
          /\ s.relay = "open" => Joined(q, n, s.in[Len(s.in)])
          /\ s.channel = "open" => Follows(lastRead(s), s.in[1])
        BY <1>4 DEF Ordered, Consecutive, Taken
    <2>2. /\ Chain(u.in)
          /\ u.in = <<>> => s.in[1] = s.in[Len(s.in)]
          /\ u.in # <<>> => u.in[Len(u.in)] = s.in[Len(s.in)] /\ Follows(s.in[1], u.in[1])
        BY <1>1, <1>2, <2>1, ChainTail
    <2>3. QED
        BY <1>1, <2>1, <2>2
<1>5. QED
    BY <1>1, <1>2, <1>3, <1>4

LEMMA HelloTaken ==
    ASSUME NEW s \in DataSocket, NEW q, NEW n, Ordered(q, n, s),
           NEW u, Taken(s, u), NEW t, HelloRead(s, u, t)
    PROVE  t \in DataSocket /\ Ordered(q, n, t) /\ t.relay = s.relay
<1> DEFINE f == Head(s.in)
           out == IF u.daemon = "open" THEN Append(u.out, frame("ready")) ELSE u.out
<1>1. /\ u \in DataSocket /\ u.relay = s.relay /\ u.daemon = s.daemon /\ u.out = s.out
      /\ u.channel = s.channel /\ u.got = s.got /\ lastRead(u) = lastRead(s)
      /\ f \in Frame /\ s.daemon # "connecting"
      /\ Chain(u.in)
      /\ s.relay = "open" /\ u.in # <<>> => Joined(q, n, u.in[Len(u.in)])
      /\ u.in # <<>> => Follows(f, u.in[1])
      /\ u.in = <<>> /\ s.relay = "open" => Joined(q, n, f)
      /\ s.channel = "open" => Follows(lastRead(s), f)
    BY FrameTaken DEF HelloRead
<1>2. out \in Seq(Frame)
    BY <1>1, LastReadType, ByeFrame
<1>3. t = [u EXCEPT !.channel = "open", !.out = out]
    BY DEF HelloRead
<1> HIDE DEF out
<1>4. /\ t \in DataSocket /\ t.in = u.in /\ t.got = s.got /\ t.channel = "open"
      /\ t.relay = s.relay /\ t.daemon = s.daemon
    BY <1>1, <1>2, <1>3 DEF DataSocket
<1>5. s.got = <<>>
    <2>1. CASE s.channel = "handshake"
        BY <2>1 DEF Ordered, Fresh
    <2>2. CASE s.channel = "open"
        <3>1. Follows(lastRead(s), f) /\ f.kind = "hello"
            BY <1>1, <2>2 DEF HelloRead
        <3>2. lastRead(s).kind # "data"
            BY <3>1 DEF Follows
        <3>3. QED
            BY <3>2 DEF lastRead
    <2>3. QED
        BY <1>1, <2>1, <2>2 DEF DataSocket, HelloRead
<1>6. lastRead(t).kind = "hello"
    BY <1>4, <1>5, ByeFrame DEF lastRead
<1>7. f.kind = "hello"
    BY DEF HelloRead
<1> HIDE DEF f
<1>8. /\ \A g : Follows(f, g) => Follows(lastRead(t), g)
      /\ Latest(n, f) => Latest(n, lastRead(t))
    BY <1>6, <1>7 DEF Follows, Latest
<1>9. Joined(q, n, f) => Joined(q, n, lastRead(t))
    BY <1>8 DEF Joined
<1>10. Fresh(t)
    BY <1>1, <1>4 DEF Ordered, Fresh
<1>11. Consecutive(q, n, t)
    BY <1>1, <1>4, <1>8, <1>9 DEF Consecutive
<1>12. QED
    BY <1>4, <1>10, <1>11 DEF Ordered

LEMMA DataTaken ==
    ASSUME NEW s \in DataSocket, NEW q, NEW n, Ordered(q, n, s),
           NEW u, Taken(s, u), NEW t, DataRead(s, u, t)
    PROVE  t \in DataSocket /\ Ordered(q, n, t) /\ t.relay = s.relay
<1> DEFINE f == Head(s.in)
           got == Append(s.got, f.n)
<1>1. /\ u \in DataSocket /\ u.relay = s.relay /\ u.daemon = s.daemon /\ u.out = s.out
      /\ u.channel = s.channel /\ u.got = s.got /\ lastRead(u) = lastRead(s)
      /\ f \in Frame /\ s.daemon # "connecting" /\ s.channel = "open"
      /\ Chain(u.in)
      /\ s.relay = "open" /\ u.in # <<>> => Joined(q, n, u.in[Len(u.in)])
      /\ u.in # <<>> => Follows(f, u.in[1])
      /\ u.in = <<>> /\ s.relay = "open" => Joined(q, n, f)
      /\ Follows(lastRead(s), f)
    BY FrameTaken DEF DataRead
<1>2. f.kind = "data" /\ f.n \in Nat /\ f = [kind |-> "data", n |-> f.n]
    BY <1>1 DEF DataRead, Frame
<1>3. s.got \in Seq(Nat) /\ Len(s.got) \in Nat /\ (s.got = <<>> <=> Len(s.got) = 0)
    BY LastReadType
<1>4. f.n = Len(s.got) + 1
    <2>1. CASE s.got = <<>>
        <3>1. lastRead(s).kind = "hello"
            BY <2>1, ByeFrame DEF lastRead
        <3>2. QED
            BY <1>1, <1>2, <1>3, <2>1, <3>1 DEF Follows
    <2>2. CASE s.got # <<>>
        <3>1. lastRead(s).kind = "data" /\ lastRead(s).n = Len(s.got)
            BY <2>2 DEF lastRead
        <3>2. QED
            BY <1>1, <1>2, <3>1 DEF Follows
    <2>3. QED
        BY <2>1, <2>2
<1>5. /\ got \in Seq(Nat) /\ Len(got) = f.n /\ got # <<>> /\ DOMAIN got = 1..(Len(s.got) + 1)
      /\ got[Len(s.got) + 1] = f.n /\ \A i \in 1..Len(s.got) : got[i] = s.got[i]
    BY <1>2, <1>3, <1>4
<1>6. t = [u EXCEPT !.got = got]
    BY <1>1 DEF DataRead
<1> HIDE DEF got
<1>7. /\ t \in DataSocket /\ t.in = u.in /\ t.got = got /\ t.channel = "open"
      /\ t.relay = s.relay /\ t.daemon = s.daemon
    BY <1>1, <1>5, <1>6 DEF DataSocket
<1>8. lastRead(t) = f
    BY <1>2, <1>5, <1>7 DEF lastRead
<1>9. \A i \in DOMAIN got : got[i] = i
    <2>1. \A i \in 1..Len(s.got) : s.got[i] = i
        BY <1>3 DEF Ordered, Fresh
    <2>2. QED
        BY <1>3, <1>4, <1>5, <2>1, SMTT(20)
<1>10. Fresh(t)
    BY <1>1, <1>7, <1>9 DEF Fresh
<1>11. Consecutive(q, n, t)
    BY <1>1, <1>7, <1>8 DEF Consecutive
<1>12. QED
    BY <1>7, <1>10, <1>11 DEF Ordered

(* A frame that is dropped, one that ends the handshake, and the end of the socket. *)
LEMMA FrameDropped ==
    ASSUME NEW s \in DataSocket, NEW q, NEW n, Ordered(q, n, s),
           NEW u, Taken(s, u), NEW t, Dropped(u, t)
    PROVE  t \in DataSocket /\ Ordered(q, n, t) /\ t.relay = s.relay
<1>1. /\ u \in DataSocket /\ u.relay = s.relay /\ u.daemon = s.daemon /\ u.out = s.out
      /\ u.channel = s.channel /\ u.got = s.got /\ s.daemon # "connecting"
    BY FrameTaken
<1> DEFINE d == daemonCloses(u)
<1>2. /\ d \in DataSocket /\ d.relay = s.relay /\ d.got = s.got /\ d.channel = s.channel
      /\ d.daemon # "connecting"
    <2>1. CASE u.daemon = "open"
        <3>1. Append(u.out, frame("bye")) \in Seq(Frame)
            BY <1>1, LastReadType, ByeFrame
        <3>2. d = [u EXCEPT !.daemon = "closing", !.out = Append(u.out, frame("bye"))]
            BY <2>1 DEF daemonCloses
        <3>3. QED
            BY <1>1, <3>1, <3>2 DEF DataSocket
    <2>2. CASE u.daemon # "open"
        BY <1>1, <2>2 DEF daemonCloses
    <2>3. QED
        BY <2>1, <2>2
<1> HIDE DEF d
<1>3. /\ t \in DataSocket /\ t.relay = s.relay /\ t.got = s.got
      /\ t.daemon # "connecting" /\ t.channel \in {s.channel, "rejected"}
      /\ t.daemon = "closed" \/ t.channel = "rejected"
    <2>1. CASE t = u /\ (u.daemon = "closed" \/ u.channel = "rejected")
        BY <1>1, <2>1
    <2>2. CASE t = [d EXCEPT !.channel = "rejected"]
        BY <1>2, <2>2 DEF DataSocket
    <2>3. CASE t = [d EXCEPT !.daemon = "closed"]
        BY <1>2, <2>3 DEF DataSocket
    <2>4. QED
        BY <2>1, <2>2, <2>3 DEF d, Dropped
<1>4. QED
    BY <1>3 DEF Ordered, Fresh, Consecutive

-----------------------------------------------------------------------------
(* What the actions have in common. *)

(* The relay lists no data socket that it did not list before. *)
NoneListed ==
    \A c \in Conn : \A k \in DOMAIN sock'[c] :
        sock'[c][k].relay \in {"open", "closing"} =>
            k \in DOMAIN sock[c] /\ sock[c][k].relay \in {"open", "closing"}

LEMMA NothingListed ==
    ASSUME NoneListed, NEW c \in Conn, ~hasServerDataSocket(c)
    PROVE  ~hasServerDataSocket(c)'
BY DEF NoneListed, hasServerDataSocket

LEMMA SocketsOnly ==
    ASSUME Kept, UNCHANGED <<client, sent, toRelay, pendingFrames>>, NoneListed,
           \A c \in Conn : \A k \in DOMAIN sock'[c] : Ordered(toRelay[c], sent[c], sock'[c][k])
    PROVE  Kept'
<1>1. Unsent' /\ Upstream'
    BY DEF Kept, Unsent, Upstream
<1>2. Buffered'
    BY NothingListed DEF Kept, Buffered
<1>3. Delivered'
    BY DEF Delivered
<1>4. QED
    BY <1>1, <1>2, <1>3 DEF Kept

(* One socket is replaced. *)
LEMMA OneSocket ==
    ASSUME TypeOK, NEW c \in Conn, NEW k \in DOMAIN sock[c], NEW t \in DataSocket,
           sock' = [sock EXCEPT ![c][k] = t]
    PROVE  /\ sock' \in [Conn -> Seq(DataSocket)]
           /\ \A d \in Conn : DOMAIN sock'[d] = DOMAIN sock[d] /\ Len(sock'[d]) = Len(sock[d])
           /\ sock'[c][k] = t
           /\ \A i \in DOMAIN sock[c] : i # k => sock'[c][i] = sock[c][i]
           /\ \A d \in Conn : d # c => sock'[d] = sock[d]
<1> DEFINE q == [sock[c] EXCEPT ![k] = t]
<1>1. sock[c] \in Seq(DataSocket)
    BY DEF TypeOK
<1>2. /\ q \in Seq(DataSocket) /\ DOMAIN q = DOMAIN sock[c] /\ Len(q) = Len(sock[c])
      /\ q[k] = t /\ \A i \in DOMAIN sock[c] : i # k => q[i] = sock[c][i]
    BY <1>1
<1>3. sock' = [sock EXCEPT ![c] = q]
    OBVIOUS
<1> HIDE DEF q
<1>4. QED
    BY <1>2, <1>3 DEF TypeOK

LEMMA OneSocketKept ==
    ASSUME IInv, NEW c \in Conn, NEW k \in DOMAIN sock[c], NEW t \in DataSocket,
           sock' = [sock EXCEPT ![c][k] = t], UNCHANGED <<client, sent, toRelay, pendingFrames>>,
           Ordered(toRelay[c], sent[c], t),
           t.relay = sock[c][k].relay \/ t.relay = "gone"
    PROVE  Kept'
<1>0. TypeOK /\ Kept
    BY DEF IInv
<1>1. /\ \A d \in Conn : DOMAIN sock'[d] = DOMAIN sock[d]
      /\ sock'[c][k] = t
      /\ \A i \in DOMAIN sock[c] : i # k => sock'[c][i] = sock[c][i]
      /\ \A d \in Conn : d # c => sock'[d] = sock[d]
    BY <1>0, OneSocket
<1>2. NoneListed
    BY <1>1 DEF NoneListed
<1>3. \A d \in Conn : \A i \in DOMAIN sock[d] : Ordered(toRelay[d], sent[d], sock[d][i])
    BY <1>0 DEF Kept, Delivered
<1>4. \A d \in Conn : \A i \in DOMAIN sock'[d] : Ordered(toRelay[d], sent[d], sock'[d][i])
    BY <1>1, <1>3
<1>5. QED
    BY <1>0, <1>2, <1>4, SocketsOnly

LEMMA Notified ==
    ASSUME TypeOK, NEW type \in {"sync", "connected", "disconnected"}, NEW ids \in SUBSET Conn,
           notifyControls(type, ids)
    PROVE  toDaemon' \in Seq(ControlMessage) /\ missed' \in BOOLEAN /\ control' = control
<1>1. [type |-> type, ids |-> ids] \in ControlMessage
    BY DEF ControlMessage
<1>2. toDaemon \in Seq(ControlMessage)
    BY DEF TypeOK
<1>3. Append(toDaemon, [type |-> type, ids |-> ids]) \in Seq(ControlMessage)
    BY <1>1, <1>2
<1>4. toDaemon' \in Seq(ControlMessage)
    BY <1>2, <1>3 DEF notifyControls
<1>5. missed' \in BOOLEAN
    BY DEF notifyControls
<1>6. QED
    BY <1>4, <1>5 DEF notifyControls

LEMMA Spent ==
    ASSUME TypeOK, NEW b \in {"leaves", "faults"}, NEW limit, spend(b, limit)
    PROVE  used' \in [{"leaves", "faults"} -> Nat]
<1>1. used[b] + 1 \in Nat
    BY DEF TypeOK
<1>2. QED
    BY <1>1 DEF TypeOK, spend

(* The client appends a frame. *)
LEMMA UpstreamGrows ==
    ASSUME TypeOK, Kept, NEW c \in Conn, NEW f \in Frame, NEW m \in Nat,
           toRelay' = add(toRelay, c, f), sent' = [sent EXCEPT ![c] = m],
           UNCHANGED <<pendingFrames, sock>>,
           \A g \in Frame : Latest(sent[c], g) => Follows(g, f), Latest(m, f)
    PROVE  toRelay' \in [Conn -> Seq(Frame)] /\ Upstream' /\ Buffered' /\ Delivered'
<1> DEFINE q == toRelay[c]
           p == Append(q, f)
<1>1. q \in Seq(Frame) /\ sent[c] \in Nat /\ SentInOrder(q, sent[c])
    BY DEF TypeOK, Kept, Upstream
<1>2. /\ p \in Seq(Frame) /\ SentInOrder(p, m)
      /\ \A g \in Frame : Joined(q, sent[c], g) => Joined(p, m, g)
    BY <1>1, UpstreamAppend
<1>3. toRelay' = [toRelay EXCEPT ![c] = p]
    BY DEF add
<1>4. BufferJoined(pendingFrames[c], q, sent[c]) /\ pendingFrames[c] \in Seq(Frame)
    BY DEF Kept, Buffered, TypeOK
<1>5. \A k \in DOMAIN sock[c] : sock[c][k] \in DataSocket /\ Ordered(q, sent[c], sock[c][k])
    BY DEF Kept, Delivered, TypeOK
<1> HIDE DEF p, q
<1>6. /\ toRelay' \in [Conn -> Seq(Frame)] /\ toRelay'[c] = p /\ sent'[c] = m
      /\ \A d \in Conn : d # c => toRelay'[d] = toRelay[d] /\ sent'[d] = sent[d]
    BY <1>2, <1>3 DEF TypeOK
<1>7. Upstream'
    BY <1>2, <1>6 DEF Kept, Upstream
<1>8. BufferJoined(pendingFrames[c], p, m)
    BY <1>2, <1>4, LastType DEF BufferJoined
<1>9. Buffered'
    BY <1>6, <1>8 DEF Kept, Buffered, hasServerDataSocket
<1>10. \A k \in DOMAIN sock[c] : Ordered(p, m, sock[c][k])
    BY <1>2, <1>5, SocketJoined
<1>11. Delivered'
    BY <1>6, <1>10 DEF Kept, Delivered
<1>12. QED
    BY <1>6, <1>7, <1>9, <1>11

-----------------------------------------------------------------------------
(* The client's steps. *)
LEMMA ClientConnectsKeeps ==
    ASSUME IInv, NEW c \in Conn, ClientConnects(c)
    PROVE  IInv'
<1>0. TypeOK /\ Kept
    BY DEF IInv
<1>1. /\ client' = [client EXCEPT ![c] = "handshaking"]
      /\ clientWs' = [clientWs EXCEPT ![c] = "open"]
      /\ toRelay' = add(toRelay, c, frame("hello"))
      /\ notifyControls("connected", {c})
      /\ nudge' = [nudge EXCEPT ![c] = "first"]
      /\ UNCHANGED <<sent, toClient, pendingFrames, sock, dataSockets, used>>
      /\ client[c] = "none"
    BY DEF ClientConnects, daemonVars
<1>2. sent[c] = 0 /\ sent' = [sent EXCEPT ![c] = 0]
    BY <1>0, <1>1 DEF Kept, Unsent, TypeOK
<1>a. /\ frame("hello") \in Frame /\ Latest(0, frame("hello")) /\ 0 \in Nat
      /\ \A g \in Frame : Latest(sent[c], g) => Follows(g, frame("hello"))
    BY <1>2, ByeFrame, HelloFits
<1>3. toRelay' \in [Conn -> Seq(Frame)] /\ Upstream' /\ Buffered' /\ Delivered'
    BY <1>0, <1>1, <1>2, <1>a, UpstreamGrows
<1>4. Unsent'
    BY <1>0, <1>1, <1>2 DEF Kept, Unsent, TypeOK
<1>5. toDaemon' \in Seq(ControlMessage) /\ missed' \in BOOLEAN /\ control' = control
    BY <1>0, <1>1, Notified
<1>6. TypeOK'
    BY <1>0, <1>1, <1>3, <1>5 DEF TypeOK
<1>7. QED
    BY <1>3, <1>4, <1>6 DEF IInv, Kept

LEMMA HelloRepeatedKeeps ==
    ASSUME IInv, NEW c \in Conn, HelloRepeated(c)
    PROVE  IInv'
<1>0. TypeOK /\ Kept
    BY DEF IInv
<1>1. /\ toRelay' = add(toRelay, c, frame("hello")) /\ client[c] = "handshaking"
      /\ UNCHANGED <<client, sent, toClient, clientWs, pendingFrames, nudge, sock, dataSockets,
                     control, toDaemon, missed, used>>
    BY DEF HelloRepeated, clientVars, daemonVars, controlVars
<1>2. sent[c] = 0 /\ sent' = [sent EXCEPT ![c] = 0]
    BY <1>0, <1>1 DEF Kept, Unsent, TypeOK
<1>a. /\ frame("hello") \in Frame /\ Latest(0, frame("hello")) /\ 0 \in Nat
      /\ \A g \in Frame : Latest(sent[c], g) => Follows(g, frame("hello"))
    BY <1>2, ByeFrame, HelloFits
<1>3. toRelay' \in [Conn -> Seq(Frame)] /\ Upstream' /\ Buffered' /\ Delivered'
    BY <1>0, <1>1, <1>2, <1>a, UpstreamGrows
<1>4. Unsent'
    BY <1>0, <1>1 DEF Kept, Unsent
<1>5. TypeOK'
    BY <1>0, <1>1, <1>3 DEF TypeOK
<1>6. QED
    BY <1>3, <1>4, <1>5 DEF IInv, Kept

LEMMA ClientSendsKeeps ==
    ASSUME IInv, NEW c \in Conn, ClientSends(c)
    PROVE  IInv'
<1> DEFINE f == [kind |-> "data", n |-> sent[c] + 1]
           m == sent[c] + 1
<1>0. TypeOK /\ Kept /\ sent[c] \in Nat
    BY DEF IInv, TypeOK
<1>1. /\ toRelay' = add(toRelay, c, f) /\ client[c] = "open"
      /\ sent' = [sent EXCEPT ![c] = m]
      /\ UNCHANGED <<client, toClient, clientWs, pendingFrames, nudge, sock, dataSockets,
                     control, toDaemon, missed, used>>
    BY DEF ClientSends, daemonVars, controlVars
<1>2. f \in Frame /\ m \in Nat /\ Latest(m, f) /\ \A g \in Frame : Latest(sent[c], g) => Follows(g, f)
    BY <1>0, DataFits DEF Frame
<1> HIDE DEF f, m
<1>3. toRelay' \in [Conn -> Seq(Frame)] /\ Upstream' /\ Buffered' /\ Delivered'
    BY <1>0, <1>1, <1>2, UpstreamGrows
<1>4. Unsent'
    BY <1>0, <1>1 DEF Kept, Unsent, TypeOK
<1>5. TypeOK'
    BY <1>0, <1>1, <1>2, <1>3 DEF TypeOK
<1>6. QED
    BY <1>3, <1>4, <1>5 DEF IInv, Kept

LEMMA ClosedKeeps ==
    ASSUME IInv, NEW c \in Conn, Closed(c), used' \in [{"leaves", "faults"} -> Nat],
           UNCHANGED <<sent, clientWs, pendingFrames, nudge, sock, dataSockets,
                       control, toDaemon, missed>>
    PROVE  IInv'
<1>0. TypeOK /\ Kept /\ sent[c] \in Nat /\ sent' = [sent EXCEPT ![c] = sent[c]]
    BY DEF IInv, TypeOK
<1>1. /\ client' = [client EXCEPT ![c] = "closed"]
      /\ toRelay' = add(toRelay, c, frame("bye"))
      /\ toClient' = [toClient EXCEPT ![c] = <<>>]
    BY DEF Closed
<1>2. Latest(sent[c], frame("bye")) /\ \A g \in Frame : Follows(g, frame("bye"))
    BY ByeFrame, ByeFits DEF Latest
<1>3. toRelay' \in [Conn -> Seq(Frame)] /\ Upstream' /\ Buffered' /\ Delivered'
    BY <1>0, <1>1, <1>2, ByeFrame, UpstreamGrows
<1>4. Unsent'
    BY <1>0, <1>1 DEF Kept, Unsent, TypeOK
<1>5. TypeOK'
    BY <1>0, <1>1, <1>3, EmptyChain DEF TypeOK
<1>6. QED
    BY <1>3, <1>4, <1>5 DEF IInv, Kept

LEMMA ClientLeavesKeeps ==
    ASSUME IInv, NEW c \in Conn, ClientLeaves(c)
    PROVE  IInv'
<1>1. used' \in [{"leaves", "faults"} -> Nat]
    BY Spent DEF IInv, ClientLeaves
<1>2. QED
    BY <1>1, ClosedKeeps DEF ClientLeaves, daemonVars, controlVars

LEMMA ClientReceivesKeeps ==
    ASSUME IInv, NEW c \in Conn, ClientReceives(c)
    PROVE  IInv'
<1>0. TypeOK /\ Kept
    BY DEF IInv
<1>1. UNCHANGED <<sent, clientWs, pendingFrames, nudge, sock, dataSockets,
                  control, toDaemon, missed, used>>
    BY DEF ClientReceives, daemonVars, controlVars
<1>2. CASE Head(toClient[c]).kind = "bye"
    BY <1>0, <1>1, <1>2, ClosedKeeps DEF ClientReceives, TypeOK
<1>3. CASE Head(toClient[c]).kind # "bye"
    <2>1. /\ client' = [client EXCEPT ![c] = "open"]
          /\ toClient' = [toClient EXCEPT ![c] = Tail(toClient[c])] /\ toClient[c] # <<>>
          /\ UNCHANGED toRelay
        BY <1>3 DEF ClientReceives, drop
    <2>2. Tail(toClient[c]) \in Seq(Frame)
        BY <1>0, <2>1 DEF TypeOK
    <2>3. TypeOK'
        BY <1>0, <1>1, <2>1, <2>2 DEF TypeOK
    <2>4. Unsent'
        BY <1>0, <1>1, <2>1 DEF Kept, Unsent, TypeOK
    <2>5. Upstream' /\ Buffered' /\ Delivered'
        BY <1>0, <1>1, <2>1 DEF Kept, Upstream, Buffered, Delivered, hasServerDataSocket
    <2>6. QED
        BY <2>3, <2>4, <2>5 DEF IInv, Kept
<1>4. QED
    BY <1>2, <1>3

-----------------------------------------------------------------------------
(* The relay's steps. *)

(* All sockets of a client are replaced. *)
LEMMA AllSockets ==
    ASSUME TypeOK, NEW c \in Conn, NEW F \in [DOMAIN sock[c] -> DataSocket],
           sock' = [sock EXCEPT ![c] = F]
    PROVE  /\ sock' \in [Conn -> Seq(DataSocket)]
           /\ \A d \in Conn : DOMAIN sock'[d] = DOMAIN sock[d] /\ Len(sock'[d]) = Len(sock[d])
           /\ \A k \in DOMAIN sock[c] : sock'[c][k] = F[k]
           /\ \A d \in Conn : d # c => sock'[d] = sock[d]
<1>1. sock[c] \in Seq(DataSocket) /\ Len(sock[c]) \in Nat /\ DOMAIN sock[c] = 1..Len(sock[c])
    BY DEF TypeOK
<1>2. F \in Seq(DataSocket)
    BY <1>1, SeqDef
<1>3. Len(F) = Len(sock[c]) /\ DOMAIN F = DOMAIN sock[c]
    BY <1>1, <1>2
<1>4. QED
    BY <1>2, <1>3 DEF TypeOK

(* The client's next frame leaves its queue. *)
LEMMA UpstreamShrinks ==
    ASSUME TypeOK, Kept, NEW c \in Conn, toRelay[c] # <<>>, toRelay' = drop(toRelay, c), sent' = sent
    PROVE  /\ toRelay' \in [Conn -> Seq(Frame)] /\ Upstream'
           /\ toRelay'[c] = Tail(toRelay[c])
           /\ \A d \in Conn : d # c => toRelay'[d] = toRelay[d]
           /\ Head(toRelay[c]) \in Frame
           /\ Joined(toRelay'[c], sent[c], Head(toRelay[c]))
           /\ \A g : Joined(toRelay[c], sent[c], g) => Follows(g, Head(toRelay[c]))
<1>1. toRelay[c] \in Seq(Frame) /\ sent[c] \in Nat /\ SentInOrder(toRelay[c], sent[c])
    BY DEF TypeOK, Kept, Upstream
<1> DEFINE p == Tail(toRelay[c])
<1>2. /\ p \in Seq(Frame) /\ Head(toRelay[c]) \in Frame
      /\ SentInOrder(p, sent[c])
      /\ Joined(p, sent[c], Head(toRelay[c]))
      /\ \A g : Joined(toRelay[c], sent[c], g) => Follows(g, Head(toRelay[c]))
    BY <1>1, UpstreamTail
<1>3. toRelay' = [toRelay EXCEPT ![c] = p]
    BY DEF drop
<1> HIDE DEF p
<1>4. /\ toRelay' \in [Conn -> Seq(Frame)] /\ toRelay'[c] = p
      /\ \A d \in Conn : d # c => toRelay'[d] = toRelay[d]
    BY <1>2, <1>3 DEF TypeOK
<1>5. Upstream'
    BY <1>2, <1>4 DEF Kept, Upstream
<1>6. QED
    BY <1>2, <1>4, <1>5 DEF p

LEMMA BufferType ==
    ASSUME TypeOK, NEW c \in Conn, NEW f \in Frame, pendingFrames' = bufferFrame(c, f),
           BufferJoined(pendingFrames[c], <<f>>, 0), NEW q, NEW n, Joined(q, n, f)
    PROVE  /\ pendingFrames' \in [Conn -> Seq(Frame)]
           /\ \A d \in Conn : Len(pendingFrames'[d]) <= MaxPending
           /\ BufferJoined(pendingFrames'[c], q, n)
           /\ \A d \in Conn : d # c => pendingFrames'[d] = pendingFrames[d]
<1> DEFINE p == pendingFrames[c]
           r == Append(p, f)
           v == IF Len(r) > MaxPending THEN Tail(r) ELSE r
<1>1. p \in Seq(Frame) /\ Len(p) <= MaxPending /\ Len(p) \in Nat /\ MaxPending \in Nat \ {0}
    BY BoundsAssumption DEF TypeOK
<1>2. p # <<>> => Follows(p[Len(p)], f)
    <2>1. <<f>> # <<>> /\ <<f>>[1] = f
        OBVIOUS
    <2>2. QED
        BY <2>1 DEF BufferJoined, Joined
<1>3. Chain(p)
    BY DEF BufferJoined
<1>4. /\ r \in Seq(Frame) /\ r # <<>> /\ Chain(r) /\ r[Len(r)] = f /\ Len(r) = Len(p) + 1
    BY <1>1, <1>2, <1>3, ChainAppend
<1> HIDE DEF r
<1>5. v \in Seq(Frame) /\ Chain(v) /\ (v # <<>> => v[Len(v)] = f) /\ Len(v) <= MaxPending
    <2>1. CASE Len(r) > MaxPending
        <3>1. v = Tail(r) /\ Len(Tail(r)) = Len(r) - 1
            BY <1>4, <2>1
        <3>2. QED
            BY <1>1, <1>4, <3>1, ChainTail
    <2>2. CASE ~(Len(r) > MaxPending)
        BY <1>1, <1>4, <2>2
    <2>3. QED
        BY <2>1, <2>2
<1>6. pendingFrames' = [pendingFrames EXCEPT ![c] = v]
    BY DEF bufferFrame, r
<1> HIDE DEF v
<1>7. /\ pendingFrames' \in [Conn -> Seq(Frame)] /\ pendingFrames'[c] = v
      /\ \A d \in Conn : d # c => pendingFrames'[d] = pendingFrames[d]
    BY <1>5, <1>6 DEF TypeOK
<1>8. QED
    BY <1>5, <1>7 DEF BufferJoined, TypeOK

LEMMA FrameFromClientKeeps ==
    ASSUME IInv, NEW c \in Conn, FrameFromClient(c)
    PROVE  IInv'
<1> DEFINE q == toRelay[c]
           f == Head(q)
<1>0. TypeOK /\ Kept
    BY DEF IInv
<1>1. /\ q # <<>> /\ toRelay' = drop(toRelay, c)
      /\ UNCHANGED <<client, sent, toClient, clientWs, nudge, dataSockets, control, toDaemon, missed,
                     used>>
    BY DEF FrameFromClient, clientVars, controlVars
<1>2. /\ toRelay' \in [Conn -> Seq(Frame)] /\ Upstream'
      /\ toRelay'[c] = Tail(q)
      /\ \A d \in Conn : d # c => toRelay'[d] = toRelay[d]
      /\ f \in Frame
      /\ Joined(toRelay'[c], sent[c], f)
      /\ \A g : Joined(q, sent[c], g) => Follows(g, f)
    BY <1>0, <1>1, UpstreamShrinks
<1>3. Unsent'
    BY <1>0, <1>1 DEF Kept, Unsent
<1> DEFINE F == forwarded(c, f)
<1>4. \A k \in DOMAIN sock[c] : /\ F[k] \in DataSocket /\ Ordered(Tail(q), sent[c], F[k])
                                /\ F[k].relay = sock[c][k].relay
                                /\ sock[c][k].relay # "open" => F[k] = sock[c][k]
    <2> TAKE k \in DOMAIN sock[c]
    <2> DEFINE s == sock[c][k]
               t == F[k]
    <2>1. Forwards(s, t, Head(q))
        BY DEF forwarded, Forwards
    <2>2. /\ s \in DataSocket /\ q \in Seq(Frame) /\ sent[c] \in Nat
          /\ SentInOrder(q, sent[c]) /\ Ordered(q, sent[c], s) /\ q # <<>>
        BY <1>0, <1>1 DEF TypeOK, Kept, Upstream, Delivered
    <2> HIDE DEF F, q, s, t
    <2>3. t \in DataSocket /\ Ordered(Tail(q), sent[c], t) /\ t.relay = s.relay
        BY <2>1, <2>2, SocketForward
    <2>4. s.relay # "open" => t = s
        BY <2>1 DEF Forwards
    <2>5. QED
        BY <2>3, <2>4 DEF s, t
<1>5. CASE hasServerDataSocket(c)
    <2>1. sock' = [sock EXCEPT ![c] = F] /\ UNCHANGED pendingFrames
        BY <1>5 DEF FrameFromClient
    <2>2. F \in [DOMAIN sock[c] -> DataSocket]
        BY <1>4 DEF forwarded
    <2> HIDE DEF F, q, f
    <2>3. /\ sock' \in [Conn -> Seq(DataSocket)]
          /\ \A d \in Conn : DOMAIN sock'[d] = DOMAIN sock[d] /\ Len(sock'[d]) = Len(sock[d])
          /\ \A k \in DOMAIN sock[c] : sock'[c][k] = F[k]
          /\ \A d \in Conn : d # c => sock'[d] = sock[d]
        BY <1>0, <2>1, <2>2, AllSockets
    <2>4. NoneListed
        BY <1>4, <2>3 DEF NoneListed
    <2>5. pendingFrames[c] = <<>>
        BY <1>0, <1>5 DEF Kept, Buffered
    <2>6. Buffered'
        BY <1>0, <1>1, <1>2, <2>1, <2>4, <2>5, NothingListed, EmptyChain
           DEF Kept, Buffered, BufferJoined
    <2>7. Delivered'
        <3> SUFFICES ASSUME NEW d \in Conn, NEW k \in DOMAIN sock'[d]
                     PROVE  Ordered(toRelay'[d], sent'[d], sock'[d][k])
            BY DEF Delivered
        <3>1. k \in DOMAIN sock[d] /\ sent'[d] = sent[d]
            BY <1>1, <2>3
        <3>2. CASE d = c
            BY <1>2, <1>4, <2>3, <3>1, <3>2
        <3>3. CASE d # c
            BY <1>0, <1>2, <2>3, <3>1, <3>3 DEF Kept, Delivered
        <3>4. QED
            BY <3>2, <3>3
    <2>8. TypeOK'
        BY <1>0, <1>1, <1>2, <2>1, <2>3 DEF TypeOK
    <2>9. QED
        BY <1>2, <1>3, <2>6, <2>7, <2>8 DEF IInv, Kept
<1>6. CASE ~hasServerDataSocket(c)
    <2>1. pendingFrames' = bufferFrame(c, f) /\ UNCHANGED sock
        BY <1>6 DEF FrameFromClient
    <2>2. \A k \in DOMAIN sock[c] : Ordered(Tail(q), sent[c], sock[c][k])
        BY <1>4, <1>6 DEF hasServerDataSocket
    <2> HIDE DEF F, q, f
    <2>3. BufferJoined(pendingFrames[c], <<f>>, 0)
        <3>1. /\ Chain(pendingFrames[c])
              /\ pendingFrames[c] # <<>> => Follows(pendingFrames[c][Len(pendingFrames[c])], f)
            BY <1>0, <1>2 DEF Kept, Buffered, BufferJoined, q
        <3>2. <<f>> # <<>> /\ <<f>>[1] = f
            OBVIOUS
        <3>3. QED
            BY <3>1, <3>2 DEF BufferJoined, Joined
    <2>4. /\ pendingFrames' \in [Conn -> Seq(Frame)]
          /\ \A d \in Conn : Len(pendingFrames'[d]) <= MaxPending
          /\ BufferJoined(pendingFrames'[c], toRelay'[c], sent[c])
          /\ \A d \in Conn : d # c => pendingFrames'[d] = pendingFrames[d]
        BY <1>0, <1>2, <2>1, <2>3, BufferType
    <2>5. Buffered'
        BY <1>0, <1>1, <1>2, <1>6, <2>1, <2>4 DEF Kept, Buffered, hasServerDataSocket
    <2>6. Delivered'
        BY <1>0, <1>1, <1>2, <2>1, <2>2 DEF Kept, Delivered
    <2>7. TypeOK'
        BY <1>0, <1>1, <1>2, <2>1, <2>4 DEF TypeOK
    <2>8. QED
        BY <1>2, <1>3, <2>5, <2>6, <2>7 DEF IInv, Kept
<1>7. QED
    BY <1>5, <1>6

LEMMA ByeFromClientKeeps ==
    ASSUME IInv, NEW c \in Conn, ByeFromClient(c)
    PROVE  IInv'
<1>0. TypeOK /\ Kept
    BY DEF IInv
<1> DEFINE F == [k \in DOMAIN sock[c] |-> relayCloses(sock[c][k])]
<1>1. /\ toRelay[c] # <<>> /\ toRelay' = drop(toRelay, c)
      /\ clientWs' = [clientWs EXCEPT ![c] = "gone"]
      /\ pendingFrames' = [pendingFrames EXCEPT ![c] = <<>>]
      /\ sock' = [sock EXCEPT ![c] = F]
      /\ notifyControls("disconnected", {c})
      /\ UNCHANGED <<client, sent, toClient, nudge, dataSockets, used>>
    BY DEF ByeFromClient, clientVars
<1>2. /\ toRelay' \in [Conn -> Seq(Frame)] /\ Upstream'
      /\ \A d \in Conn : d # c => toRelay'[d] = toRelay[d]
    BY <1>0, <1>1, UpstreamShrinks
<1>3. \A k \in DOMAIN sock[c] : F[k] \in DataSocket /\ Ordered(toRelay'[c], sent[c], F[k])
    <2> TAKE k \in DOMAIN sock[c]
    <2> DEFINE s == sock[c][k]
               t == F[k]
               r == "closing"
    <2>1. s \in DataSocket /\ Ordered(toRelay[c], sent[c], s)
        BY <1>0 DEF TypeOK, Kept, Delivered
    <2>2. Ends(s, t, r)
        BY DEF relayCloses, Ends
    <2>3. r \in {"closing", "gone"}
        OBVIOUS
    <2> DEFINE q == toRelay[c]
               n == sent[c]
               p == toRelay'[c]
    <2>4. s \in DataSocket /\ Ordered(q, n, s)
        BY <2>1
    <2> HIDE DEF F, s, t, r, q, n, p
    <2>5. t \in DataSocket /\ Ordered(p, n, t)
        BY <2>2, <2>3, <2>4, SocketEnds
    <2>6. QED
        BY <2>5 DEF t, p, n
<1>4. F \in [DOMAIN sock[c] -> DataSocket]
    BY <1>3
<1> HIDE DEF F
<1>5. /\ sock' \in [Conn -> Seq(DataSocket)]
      /\ \A d \in Conn : DOMAIN sock'[d] = DOMAIN sock[d] /\ Len(sock'[d]) = Len(sock[d])
      /\ \A k \in DOMAIN sock[c] : sock'[c][k] = F[k]
      /\ \A d \in Conn : d # c => sock'[d] = sock[d]
    BY <1>0, <1>1, <1>4, AllSockets
<1>6. Delivered'
    <2> SUFFICES ASSUME NEW d \in Conn, NEW k \in DOMAIN sock'[d]
                 PROVE  Ordered(toRelay'[d], sent'[d], sock'[d][k])
        BY DEF Delivered
    <2>1. k \in DOMAIN sock[d] /\ sent'[d] = sent[d]
        BY <1>1, <1>5
    <2>2. CASE d = c
        BY <1>3, <1>5, <2>1, <2>2
    <2>3. CASE d # c
        BY <1>0, <1>2, <1>5, <2>1, <2>3 DEF Kept, Delivered
    <2>4. QED
        BY <2>2, <2>3
<1>7. /\ pendingFrames' \in [Conn -> Seq(Frame)] /\ pendingFrames'[c] = <<>> /\ Len(<<>>) = 0
      /\ \A d \in Conn : d # c => pendingFrames'[d] = pendingFrames[d]
    BY <1>0, <1>1, EmptyChain DEF TypeOK
<1>8. Buffered'
    <2> SUFFICES ASSUME NEW d \in Conn
                 PROVE  /\ BufferJoined(pendingFrames'[d], toRelay'[d], sent'[d])
                        /\ pendingFrames'[d] # <<>> => ~hasServerDataSocket(d)'
        BY DEF Buffered
    <2>1. CASE d = c
        BY <1>7, <2>1, EmptyChain DEF BufferJoined
    <2>2. CASE d # c
        BY <1>0, <1>1, <1>2, <1>5, <1>7, <2>2 DEF Kept, Buffered, hasServerDataSocket
    <2>3. QED
        BY <2>1, <2>2
<1>9. Unsent'
    BY <1>0, <1>1 DEF Kept, Unsent
<1>10. toDaemon' \in Seq(ControlMessage) /\ missed' \in BOOLEAN /\ control' = control
    BY <1>0, <1>1, Notified
<1>11. TypeOK'
    <2>1. \A d \in Conn : Len(pendingFrames'[d]) <= MaxPending
        <3>1. 0 <= MaxPending
            BY BoundsAssumption
        <3>2. \A d \in Conn : d # c => Len(pendingFrames'[d]) <= MaxPending
            BY <1>0, <1>7 DEF TypeOK
        <3>3. QED
            BY <1>7, <3>1, <3>2
    <2>2. QED
        BY <1>0, <1>1, <1>2, <1>5, <1>7, <1>10, <2>1 DEF TypeOK
<1>12. QED
    BY <1>2, <1>6, <1>8, <1>9, <1>11 DEF IInv, Kept

LEMMA FrameFromDaemonKeeps ==
    ASSUME IInv, NEW c \in Conn, NEW k \in DOMAIN sock[c], FrameFromDaemon(c, k)
    PROVE  IInv'
<1> DEFINE s == sock[c][k]
           f == Head(s.out)
           u == [s EXCEPT !.out = Tail(@)]
           q == toRelay[c]
           n == sent[c]
<1>0. TypeOK /\ Kept
    BY DEF IInv
<1>1. /\ s.out # <<>>
      /\ UNCHANGED <<client, sent, toRelay, pendingFrames, nudge, dataSockets, control, toDaemon,
                     missed, used>>
    BY DEF FrameFromDaemon, controlVars
<1>2. s \in DataSocket /\ Ordered(q, n, s)
    BY <1>0 DEF TypeOK, Kept, Delivered
<1>3. /\ u \in DataSocket /\ Ordered(q, n, u) /\ u.relay = s.relay /\ u.in = s.in
      /\ s.daemon # "connecting" /\ u.daemon = s.daemon /\ f \in Frame
    BY <1>1, <1>2, SocketSent
<1>4. toClient[c] \in Seq(Frame) /\ Append(toClient[c], f) \in Seq(Frame)
    BY <1>0, <1>3 DEF TypeOK
<1>5. toClientOf(c, f) \in [Conn -> Seq(Frame)]
    BY <1>0, <1>4 DEF toClientOf, add, TypeOK
<1>6. toClient' \in [Conn -> Seq(Frame)]
    BY <1>0, <1>5 DEF FrameFromDaemon, TypeOK
<1>7. clientWs' \in [Conn -> {"none", "open", "closing", "gone"}]
    <2> DEFINE v == IF clientWs[c] = "open" /\ u.relay # "gone" THEN "closing" ELSE clientWs[c]
    <2>1. clientWs' = clientWs \/ clientWs' = [clientWs EXCEPT ![c] = v]
        BY DEF FrameFromDaemon
    <2>2. v \in {"none", "open", "closing", "gone"}
        BY <1>0 DEF TypeOK
    <2> HIDE DEF v
    <2>3. QED
        BY <1>0, <2>1, <2>2 DEF TypeOK
<1>8. \E t \in DataSocket : /\ sock' = [sock EXCEPT ![c][k] = t] /\ Ordered(q, n, t)
                            /\ t.relay = s.relay \/ t.relay = "gone"
    <2>1. CASE f.kind # "bye"
        <3>1. sock' = [sock EXCEPT ![c][k] = u]
            BY <2>1 DEF FrameFromDaemon
        <3>2. QED
            BY <1>3, <3>1
    <2>2. CASE f.kind = "bye"
        <3> DEFINE t == [u EXCEPT !.relay = "gone",
                                  !.in = IF u.relay = "open" THEN Append(@, frame("bye")) ELSE @]
                   r == "gone"
        <3>1. sock' = [sock EXCEPT ![c][k] = t]
            BY <2>2 DEF FrameFromDaemon
        <3>2. Ends(u, t, r)
            <4>1. CASE u.relay = "open"
                BY <4>1 DEF Ends
            <4>2. CASE u.relay # "open"
                <5>1. t = [u EXCEPT !.relay = "gone", !.in = u.in]
                    BY <4>2
                <5>2. t = [u EXCEPT !.relay = "gone"]
                    BY <1>3, <5>1 DEF DataSocket
                <5>3. QED
                    BY <1>3, <4>2, <5>2 DEF Ends
            <4>3. QED
                BY <4>1, <4>2
        <3>3. r \in {"closing", "gone"}
            OBVIOUS
        <3>4. t.relay = "gone"
            BY <1>3 DEF DataSocket
        <3> HIDE DEF t, r, u, s, f, q, n
        <3>5. t \in DataSocket /\ Ordered(q, n, t)
            BY <1>3, <3>2, <3>3, SocketEnds
        <3>6. QED
            BY <3>1, <3>4, <3>5
    <2>3. QED
        BY <2>1, <2>2
<1>9. PICK t \in DataSocket : /\ sock' = [sock EXCEPT ![c][k] = t] /\ Ordered(q, n, t)
                              /\ t.relay = s.relay \/ t.relay = "gone"
    BY <1>8
<1>10. Kept'
    BY <1>1, <1>9, OneSocketKept
<1>11. /\ sock' \in [Conn -> Seq(DataSocket)]
       /\ \A d \in Conn : Len(sock'[d]) = Len(sock[d])
    BY <1>0, <1>9, OneSocket
<1>12. TypeOK'
    BY <1>0, <1>1, <1>6, <1>7, <1>11 DEF TypeOK
<1>13. QED
    BY <1>10, <1>12 DEF IInv

LEMMA NudgeKeeps ==
    ASSUME IInv, NEW c \in Conn, Nudge(c)
    PROVE  IInv'
<1>0. TypeOK /\ Kept
    BY DEF IInv
<1>1. UNCHANGED <<client, sent, toClient, clientWs, toRelay, pendingFrames, sock, dataSockets, used>>
    BY DEF Nudge, NudgeSync, NudgeReset, clientVars, daemonVars
<1>2. Kept'
    BY <1>0, <1>1 DEF Kept, Unsent, Upstream, Buffered, Delivered, hasServerDataSocket
<1>3. nudge' \in [Conn -> {"none", "first", "second"}]
    <2>1. nudge' = [nudge EXCEPT ![c] = "none"] \/ nudge' = [nudge EXCEPT ![c] = "second"]
        BY DEF Nudge, NudgeSync, NudgeReset
    <2>2. QED
        BY <1>0, <2>1 DEF TypeOK
<1>4. CASE NudgeSync(c)
    <2>1. CASE notifyControls("sync", listed)
        <3>1. listed \in SUBSET Conn
            BY DEF listed
        <3>2. toDaemon' \in Seq(ControlMessage) /\ missed' \in BOOLEAN /\ control' = control
            BY <1>0, <2>1, <3>1, Notified
        <3>3. TypeOK'
            BY <1>0, <1>1, <1>3, <3>2 DEF TypeOK
        <3>4. QED
            BY <1>2, <3>3 DEF IInv
    <2>2. CASE UNCHANGED <<control, toDaemon, missed>>
        BY <1>0, <1>1, <1>2, <1>3, <2>2 DEF TypeOK, IInv
    <2>3. QED
        BY <1>4, <2>1, <2>2 DEF NudgeSync, controlVars
<1>5. CASE NudgeReset(c)
    <2>1. [type |-> "bye", ids |-> {}] \in ControlMessage
        BY DEF ControlMessage
    <2>2. Append(toDaemon, [type |-> "bye", ids |-> {}]) \in Seq(ControlMessage)
        BY <1>0, <2>1 DEF TypeOK
    <2>3. /\ missed' = missed /\ control' \in {"up", "closing", "broken", "down"}
          /\ toDaemon' \in Seq(ControlMessage)
        BY <1>0, <1>5, <2>2 DEF NudgeReset, TypeOK
    <2>4. TypeOK'
        BY <1>0, <1>1, <1>3, <2>3 DEF TypeOK
    <2>5. QED
        BY <1>2, <2>4 DEF IInv
<1>6. QED
    BY <1>4, <1>5 DEF Nudge

-----------------------------------------------------------------------------
(* The daemon's steps. *)
LEMMA ControlReceivesKeeps ==
    ASSUME IInv, ControlReceives
    PROVE  IInv'
<1> DEFINE m == Head(toDaemon)
           new == {c \in m.ids : dataSockets[c] = 0}
<1>0. TypeOK /\ Kept
    BY DEF IInv
<1>1. /\ UNCHANGED <<client, sent, toClient, clientWs, toRelay, pendingFrames, nudge, missed, used>>
      /\ toDaemon' = Tail(toDaemon) /\ toDaemon # <<>>
    BY DEF ControlReceives, clientVars, relayVars
<1>2. toDaemon' \in Seq(ControlMessage) /\ m \in ControlMessage /\ m.ids \subseteq Conn
    <2>1. toDaemon \in Seq(ControlMessage)
        BY <1>0 DEF TypeOK
    <2>2. toDaemon' \in Seq(ControlMessage) /\ m \in ControlMessage
        BY <1>1, <2>1
    <2>3. QED
        BY <2>2 DEF ControlMessage
<1>3. \A c \in Conn : \A k \in DOMAIN sock[c] : Ordered(toRelay[c], sent[c], sock[c][k])
    BY <1>0 DEF Kept, Delivered
<1>4. \A c \in Conn : /\ sock[c] \in Seq(DataSocket) /\ Len(sock[c]) \in Nat
                      /\ DOMAIN sock[c] = 1..Len(sock[c])
                      /\ dataSockets[c] \in Nat /\ dataSockets[c] <= Len(sock[c])
    BY <1>0 DEF TypeOK
<1>5. CASE ensureClientDataSocket(m.ids) /\ UNCHANGED control
    <2>1. /\ sock' = [c \in Conn |-> IF c \in new THEN Append(sock[c], newSocket) ELSE sock[c]]
          /\ dataSockets' = [c \in Conn |-> IF c \in new THEN Len(sock[c]) + 1 ELSE dataSockets[c]]
        BY <1>5 DEF ensureClientDataSocket
    <2> HIDE DEF new
    <2>2. \A c \in Conn : /\ newSocket \in DataSocket
                          /\ Ordered(toRelay[c], sent[c], newSocket)
                          /\ newSocket.relay = "none"
        BY NewSocketOrdered DEF newSocket
    <2>3. ASSUME NEW c \in Conn
          PROVE  /\ sock'[c] \in Seq(DataSocket)
                 /\ dataSockets'[c] \in Nat /\ dataSockets'[c] <= Len(sock'[c])
                 /\ \A k \in DOMAIN sock'[c] :
                      \/ k \in DOMAIN sock[c] /\ sock'[c][k] = sock[c][k]
                      \/ sock'[c][k] = newSocket
        <3>1. CASE c \in new
            <4>1. sock'[c] = Append(sock[c], newSocket) /\ dataSockets'[c] = Len(sock[c]) + 1
                BY <2>1, <3>1
            <4>2. /\ Append(sock[c], newSocket) \in Seq(DataSocket)
                  /\ Len(Append(sock[c], newSocket)) = Len(sock[c]) + 1
                  /\ \A k \in 1..Len(sock[c]) : Append(sock[c], newSocket)[k] = sock[c][k]
                  /\ Append(sock[c], newSocket)[Len(sock[c]) + 1] = newSocket
                BY <1>4, <2>2
            <4>3. QED
                BY <1>4, <4>1, <4>2
        <3>2. CASE c \notin new
            BY <1>4, <2>1, <3>2
        <3>3. QED
            BY <3>1, <3>2
    <2>4. NoneListed
        BY <2>2, <2>3 DEF NoneListed
    <2>5. \A c \in Conn : \A k \in DOMAIN sock'[c] : Ordered(toRelay[c], sent[c], sock'[c][k])
        BY <1>3, <2>2, <2>3
    <2>6. Kept'
        BY <1>0, <1>1, <2>4, <2>5, SocketsOnly
    <2>7. sock' \in [Conn -> Seq(DataSocket)] /\ dataSockets' \in [Conn -> Nat]
        BY <2>1, <2>3
    <2>8. TypeOK'
        BY <1>0, <1>1, <1>2, <1>5, <2>3, <2>7 DEF TypeOK
    <2>9. QED
        BY <2>6, <2>8 DEF IInv
<1>6. CASE m.type = "disconnected" /\ UNCHANGED control
    <2>1. /\ sock' = [c \in Conn |->
                        IF c \in m.ids /\ dataSockets[c] # 0
                        THEN [sock[c] EXCEPT ![dataSockets[c]] = daemonCloses(@)] ELSE sock[c]]
          /\ dataSockets' = [c \in Conn |-> IF c \in m.ids THEN 0 ELSE dataSockets[c]]
        BY <1>6 DEF ControlReceives
    <2> HIDE DEF m
    <2>2. ASSUME NEW c \in Conn
          PROVE  /\ sock'[c] \in Seq(DataSocket) /\ Len(sock'[c]) = Len(sock[c])
                 /\ DOMAIN sock'[c] = DOMAIN sock[c]
                 /\ dataSockets'[c] \in Nat /\ dataSockets'[c] <= Len(sock'[c])
                 /\ \A k \in DOMAIN sock[c] : Ordered(toRelay[c], sent[c], sock'[c][k])
                                              /\ sock'[c][k].relay = sock[c][k].relay
        <3>1. CASE c \in m.ids /\ dataSockets[c] # 0
            <4> DEFINE i == dataSockets[c]
                       t == daemonCloses(sock[c][i])
            <4>1. i \in DOMAIN sock[c]
                BY <1>4, <3>1
            <4>2. sock[c][i] \in DataSocket /\ Ordered(toRelay[c], sent[c], sock[c][i])
                BY <1>3, <1>4, <4>1
            <4>3. /\ t \in DataSocket /\ Ordered(toRelay[c], sent[c], t)
                  /\ t.relay = sock[c][i].relay
                BY <4>2, SocketCloses
            <4>4. sock'[c] = [sock[c] EXCEPT ![i] = t] /\ dataSockets'[c] = 0
                BY <2>1, <3>1
            <4> HIDE DEF t, i
            <4>5. /\ sock'[c] \in Seq(DataSocket) /\ Len(sock'[c]) = Len(sock[c])
                  /\ DOMAIN sock'[c] = DOMAIN sock[c] /\ sock'[c][i] = t
                  /\ \A k \in DOMAIN sock[c] : k # i => sock'[c][k] = sock[c][k]
                BY <1>4, <4>1, <4>3, <4>4
            <4>6. QED
                BY <1>3, <1>4, <4>3, <4>4, <4>5
        <3>2. CASE ~(c \in m.ids /\ dataSockets[c] # 0)
            <4>1. sock'[c] = sock[c] /\ dataSockets'[c] = dataSockets[c]
                BY <2>1, <3>2
            <4>2. QED
                BY <1>3, <1>4, <4>1
        <3>3. QED
            BY <3>1, <3>2
    <2>3. NoneListed
        BY <2>2 DEF NoneListed
    <2>4. Kept'
        BY <1>0, <1>1, <2>2, <2>3, SocketsOnly
    <2>5. sock' \in [Conn -> Seq(DataSocket)] /\ dataSockets' \in [Conn -> Nat]
        BY <2>1, <2>2
    <2>6. TypeOK'
        BY <1>0, <1>1, <1>2, <1>6, <2>2, <2>5 DEF TypeOK
    <2>7. QED
        BY <2>4, <2>6 DEF IInv
<1>7. CASE control' = "down" /\ UNCHANGED daemonVars
    <2>1. UNCHANGED <<sock, dataSockets>>
        BY <1>7 DEF daemonVars
    <2>2. Kept'
        BY <1>0, <1>1, <2>1 DEF Kept, Unsent, Upstream, Buffered, Delivered, hasServerDataSocket
    <2>3. TypeOK'
        BY <1>0, <1>1, <1>2, <1>7, <2>1 DEF TypeOK
    <2>4. QED
        BY <2>2, <2>3 DEF IInv
<1>8. QED
    BY <1>5, <1>6, <1>7 DEF ControlReceives

LEMMA ControlStaleKeeps ==
    ASSUME IInv, ControlStale \/ ControlConnects
    PROVE  IInv'
<1>0. TypeOK /\ Kept
    BY DEF IInv
<1>1. UNCHANGED <<client, sent, toClient, clientWs, toRelay, pendingFrames, nudge, sock, dataSockets,
                  missed, used>>
    BY DEF ControlStale, ControlConnects, clientVars, relayVars, daemonVars
<1>2. Kept'
    BY <1>0, <1>1 DEF Kept, Unsent, Upstream, Buffered, Delivered, hasServerDataSocket
<1>3. [type |-> "sync", ids |-> listed] \in ControlMessage
    BY DEF ControlMessage, listed
<1>4. <<[type |-> "sync", ids |-> listed]>> \in Seq(ControlMessage)
    BY <1>3
<1>5. toDaemon \in Seq(ControlMessage)
    BY <1>0 DEF TypeOK
<1>6. toDaemon' \in Seq(ControlMessage) /\ control' \in {"up", "closing", "broken", "down"}
    BY <1>4, <1>5 DEF ControlStale, ControlConnects
<1>7. TypeOK'
    BY <1>0, <1>1, <1>6 DEF TypeOK
<1>8. QED
    BY <1>2, <1>7 DEF IInv

LEMMA ControlBreaksKeeps ==
    ASSUME IInv, ControlBreaks
    PROVE  IInv'
<1>0. TypeOK /\ Kept
    BY DEF IInv
<1>1. /\ UNCHANGED <<client, sent, toClient, clientWs, toRelay, pendingFrames, nudge, sock,
                     dataSockets>>
      /\ control' = "broken" /\ toDaemon' = <<>> /\ spend("faults", MaxFaults)
    BY DEF ControlBreaks, clientVars, relayVars, daemonVars
<1>2. Kept'
    BY <1>0, <1>1 DEF Kept, Unsent, Upstream, Buffered, Delivered, hasServerDataSocket
<1>3. used' \in [{"leaves", "faults"} -> Nat]
    BY <1>0, <1>1, Spent
<1>4. missed' \in BOOLEAN
    BY DEF ControlBreaks
<1>5. toDaemon' \in Seq(ControlMessage)
    BY <1>1
<1>6. TypeOK'
    BY <1>0, <1>1, <1>3, <1>4, <1>5 DEF TypeOK
<1>7. QED
    BY <1>2, <1>6 DEF IInv

(* The relay's buffers are lost. *)
LEMMA HibernatesKeeps ==
    ASSUME IInv, Hibernates
    PROVE  IInv'
<1>0. TypeOK /\ Kept
    BY DEF IInv
<1>1. /\ UNCHANGED <<client, sent, toClient, clientWs, toRelay, nudge, sock, dataSockets, control,
                     toDaemon, missed>>
      /\ pendingFrames' = [c \in Conn |-> <<>>] /\ spend("faults", MaxFaults)
    BY DEF Hibernates, clientVars, daemonVars, controlVars
<1>2. pendingFrames' \in [Conn -> Seq(Frame)] /\ \A c \in Conn : pendingFrames'[c] = <<>>
    BY <1>1, EmptyChain
<1>3. Buffered'
    BY <1>2, EmptyChain DEF Buffered, BufferJoined
<1>4. Unsent' /\ Upstream' /\ Delivered'
    BY <1>0, <1>1 DEF Kept, Unsent, Upstream, Delivered
<1>5. used' \in [{"leaves", "faults"} -> Nat]
    BY <1>0, <1>1, Spent
<1>6. \A c \in Conn : Len(pendingFrames'[c]) <= MaxPending
    <2>1. Len(<<>>) = 0 /\ 0 <= MaxPending
        BY BoundsAssumption
    <2>2. QED
        BY <1>2, <2>1
<1>7. TypeOK'
    BY <1>0, <1>1, <1>2, <1>5, <1>6 DEF TypeOK
<1>8. QED
    BY <1>3, <1>4, <1>7 DEF IInv, Kept

(* The new data socket takes over the buffer, and the older ones are ended. *)
LEMMA DataConnectsKeeps ==
    ASSUME IInv, NEW c \in Conn, NEW k \in DOMAIN sock[c], DataConnects(c, k)
    PROVE  IInv'
<1> DEFINE q == toRelay[c]
           n == sent[c]
           p == pendingFrames[c]
           F == [i \in DOMAIN sock[c] |->
                   IF i = k THEN [sock[c][i] EXCEPT !.daemon = "open", !.relay = "open", !.in = p]
                   ELSE relayCloses(sock[c][i])]
<1>0. TypeOK /\ Kept
    BY DEF IInv
<1>1. /\ UNCHANGED <<client, sent, toClient, clientWs, toRelay, nudge, dataSockets, control,
                     toDaemon, missed, used>>
      /\ sock[c][k].daemon = "connecting"
      /\ pendingFrames' = [pendingFrames EXCEPT ![c] = <<>>]
      /\ sock' = [sock EXCEPT ![c] = F]
    BY DEF DataConnects, clientVars, controlVars
<1>2. \A i \in DOMAIN sock[c] : sock[c][i] \in DataSocket /\ Ordered(q, n, sock[c][i])
    BY <1>0 DEF TypeOK, Kept, Delivered
<1>3. p \in Seq(Frame) /\ BufferJoined(p, q, n)
    BY <1>0 DEF TypeOK, Kept, Buffered
<1>4. ASSUME NEW i \in DOMAIN sock[c]
      PROVE  F[i] \in DataSocket /\ Ordered(q, n, F[i])
    <2> DEFINE s == sock[c][i]
               t == F[i]
               r == "closing"
    <2>1. s \in DataSocket /\ Ordered(q, n, s)
        BY <1>2
    <2>2. CASE i = k
        <3>1. TakesOver(s, t, p)
            BY <1>1, <2>2 DEF TakesOver
        <3> HIDE DEF F, s, t, q, n, p
        <3>2. t \in DataSocket /\ Ordered(q, n, t)
            BY <1>3, <2>1, <3>1, SocketConnects
        <3>3. QED
            BY <3>2 DEF t
    <2>3. CASE i # k
        <3>1. Ends(s, t, r)
            BY <2>3 DEF relayCloses, Ends
        <3>2. r \in {"closing", "gone"}
            OBVIOUS
        <3> HIDE DEF F, s, t, r, q, n, p
        <3>3. t \in DataSocket /\ Ordered(q, n, t)
            BY <2>1, <3>1, <3>2, SocketEnds, SMTT(20)
        <3>4. QED
            BY <3>3 DEF t
    <2>4. QED
        BY <2>2, <2>3
<1>5. F \in [DOMAIN sock[c] -> DataSocket]
    BY <1>4
<1> HIDE DEF F
<1>6. /\ sock' \in [Conn -> Seq(DataSocket)]
      /\ \A d \in Conn : DOMAIN sock'[d] = DOMAIN sock[d] /\ Len(sock'[d]) = Len(sock[d])
      /\ \A i \in DOMAIN sock[c] : sock'[c][i] = F[i]
      /\ \A d \in Conn : d # c => sock'[d] = sock[d]
    BY <1>0, <1>1, <1>5, AllSockets
<1>7. /\ pendingFrames' \in [Conn -> Seq(Frame)] /\ pendingFrames'[c] = <<>> /\ Len(<<>>) = 0
      /\ \A d \in Conn : d # c => pendingFrames'[d] = pendingFrames[d]
    BY <1>0, <1>1, EmptyChain DEF TypeOK
<1>8. Delivered'
    <2> SUFFICES ASSUME NEW d \in Conn, NEW i \in DOMAIN sock'[d]
                 PROVE  Ordered(toRelay'[d], sent'[d], sock'[d][i])
        BY DEF Delivered
    <2>1. i \in DOMAIN sock[d] /\ sent'[d] = sent[d] /\ toRelay'[d] = toRelay[d]
        BY <1>1, <1>6
    <2>2. CASE d = c
        BY <1>4, <1>6, <2>1, <2>2
    <2>3. CASE d # c
        BY <1>0, <1>6, <2>1, <2>3 DEF Kept, Delivered
    <2>4. QED
        BY <2>2, <2>3
<1>9. Buffered'
    <2> SUFFICES ASSUME NEW d \in Conn
                 PROVE  /\ BufferJoined(pendingFrames'[d], toRelay'[d], sent'[d])
                        /\ pendingFrames'[d] # <<>> => ~hasServerDataSocket(d)'
        BY DEF Buffered
    <2>1. CASE d = c
        BY <1>7, <2>1, EmptyChain DEF BufferJoined
    <2>2. CASE d # c
        BY <1>0, <1>1, <1>6, <1>7, <2>2 DEF Kept, Buffered, hasServerDataSocket
    <2>3. QED
        BY <2>1, <2>2
<1>10. Unsent' /\ Upstream'
    BY <1>0, <1>1 DEF Kept, Unsent, Upstream
<1>11. \A d \in Conn : Len(pendingFrames'[d]) <= MaxPending
    <2>1. 0 <= MaxPending
        BY BoundsAssumption
    <2>2. \A d \in Conn : d # c => Len(pendingFrames'[d]) <= MaxPending
        BY <1>0, <1>7 DEF TypeOK
    <2>3. QED
        BY <1>7, <2>1, <2>2
<1>12. TypeOK'
    BY <1>0, <1>1, <1>6, <1>7, <1>11 DEF TypeOK
<1>13. QED
    BY <1>8, <1>9, <1>10, <1>12 DEF IInv, Kept

(* A step of the daemon on one data socket, which may leave its map. *)
LEMMA DaemonStepKeeps ==
    ASSUME IInv, NEW c \in Conn, NEW k \in DOMAIN sock[c], NEW t \in DataSocket,
           sock' = [sock EXCEPT ![c][k] = t], Ordered(toRelay[c], sent[c], t),
           t.relay = sock[c][k].relay,
           dataSockets' = dataSockets \/ dataSockets' = forgets(c, k),
           used' \in [{"leaves", "faults"} -> Nat],
           UNCHANGED <<clientVars, relayVars, controlVars>>
    PROVE  IInv'
<1>0. TypeOK /\ Kept
    BY DEF IInv
<1>1. UNCHANGED <<client, sent, toClient, clientWs, toRelay, pendingFrames, nudge, control, toDaemon,
                  missed>>
    BY DEF clientVars, relayVars, controlVars
<1>2. Kept'
    BY <1>1, OneSocketKept
<1>3. /\ sock' \in [Conn -> Seq(DataSocket)]
      /\ \A d \in Conn : Len(sock'[d]) = Len(sock[d])
    BY <1>0, OneSocket
<1>4. /\ dataSockets' \in [Conn -> Nat]
      /\ \A d \in Conn : dataSockets'[d] <= Len(sock'[d])
    <2> DEFINE v == IF dataSockets[c] = k THEN 0 ELSE dataSockets[c]
    <2>1. dataSockets' = dataSockets \/ dataSockets' = [dataSockets EXCEPT ![c] = v]
        BY DEF forgets
    <2>2. v \in {0, dataSockets[c]}
        OBVIOUS
    <2>3. \A d \in Conn : /\ dataSockets[d] \in Nat /\ dataSockets[d] <= Len(sock'[d])
                          /\ sock'[d] \in Seq(DataSocket)
        BY <1>0, <1>3 DEF TypeOK
    <2>4. \A d \in Conn : Len(sock'[d]) \in Nat
        BY <2>3
    <2>5. dataSockets \in [Conn -> Nat]
        BY <1>0 DEF TypeOK
    <2> HIDE DEF v
    <2>6. QED
        BY <2>1, <2>2, <2>3, <2>4, <2>5
<1>5. TypeOK'
    BY <1>0, <1>1, <1>3, <1>4 DEF TypeOK
<1>6. QED
    BY <1>2, <1>5 DEF IInv

LEMMA DataReceivesKeeps ==
    ASSUME IInv, NEW c \in Conn, NEW k \in DOMAIN sock[c], DataReceives(c, k)
    PROVE  IInv'
<1> DEFINE s == sock[c][k]
           u == [s EXCEPT !.in = Tail(@)]
<1>1. TypeOK /\ Kept
    BY DEF IInv
<1>2. /\ UNCHANGED <<clientVars, relayVars, controlVars>>
      /\ used' \in [{"leaves", "faults"} -> Nat]
    BY <1>1 DEF DataReceives, TypeOK
<1>3. s \in DataSocket /\ Ordered(toRelay[c], sent[c], s)
    BY <1>1 DEF TypeOK, Kept, Delivered
<1>4. dataSockets' = dataSockets \/ dataSockets' = forgets(c, k)
    BY DEF DataReceives
<1>5. Taken(s, u)
    BY DEF DataReceives, Taken
<1>6. PICK t : /\ sock' = [sock EXCEPT ![c][k] = t]
               /\ HelloRead(s, u, t) \/ DataRead(s, u, t) \/ Dropped(u, t)
    <2> DEFINE hello == [u EXCEPT !.channel = "open",
                                  !.out = IF u.daemon = "open" THEN Append(@, frame("ready")) ELSE @]
               data == [u EXCEPT !.got = Append(@, Head(s.in).n)]
               rejected == [daemonCloses(u) EXCEPT !.channel = "rejected"]
               closed == [daemonCloses(u) EXCEPT !.daemon = "closed"]
    <2>1. \/ sock' = [sock EXCEPT ![c][k] = hello] /\ HelloRead(s, u, hello)
          \/ sock' = [sock EXCEPT ![c][k] = data] /\ DataRead(s, u, data)
          \/ sock' = [sock EXCEPT ![c][k] = rejected] /\ Dropped(u, rejected)
          \/ sock' = [sock EXCEPT ![c][k] = u] /\ Dropped(u, u)
          \/ sock' = [sock EXCEPT ![c][k] = closed] /\ Dropped(u, closed)
        BY DEF DataReceives, HelloRead, DataRead, Dropped
    <2> HIDE DEF hello, data, rejected, closed, u
    <2>2. QED
        BY <2>1, SMTT(30)
<1> HIDE DEF u
<1>7. t \in DataSocket /\ Ordered(toRelay[c], sent[c], t) /\ t.relay = s.relay
    BY <1>3, <1>5, <1>6, HelloTaken, DataTaken, FrameDropped
<1>8. QED
    BY <1>2, <1>4, <1>6, <1>7, DaemonStepKeeps

LEMMA DataFailsKeeps ==
    ASSUME IInv, NEW c \in Conn, NEW k \in DOMAIN sock[c], DataFails(c, k)
    PROVE  IInv'
<1> DEFINE s == sock[c][k]
           t == [s EXCEPT !.daemon = "closed"]
<1>0. TypeOK /\ Kept
    BY DEF IInv
<1>1. /\ sock' = [sock EXCEPT ![c][k] = t] /\ dataSockets' = forgets(c, k)
      /\ UNCHANGED <<clientVars, relayVars, controlVars>> /\ spend("faults", MaxFaults)
    BY DEF DataFails
<1>2. used' \in [{"leaves", "faults"} -> Nat]
    BY <1>0, <1>1, Spent
<1>3. s \in DataSocket /\ Ordered(toRelay[c], sent[c], s)
    BY <1>0 DEF TypeOK, Kept, Delivered
<1>4. t \in DataSocket /\ Ordered(toRelay[c], sent[c], t) /\ t.relay = s.relay
    BY <1>3, SocketCloses
<1>5. QED
    BY <1>1, <1>2, <1>4, DaemonStepKeeps

LEMMA DataBreaksKeeps ==
    ASSUME IInv, NEW c \in Conn, NEW k \in DOMAIN sock[c], DataBreaks(c, k)
    PROVE  IInv'
<1> DEFINE s == sock[c][k]
           t == [s EXCEPT !.in = <<frame("bye")>>, !.out = <<frame("bye")>>]
<1>0. TypeOK /\ Kept
    BY DEF IInv
<1>1. /\ sock' = [sock EXCEPT ![c][k] = t] /\ dataSockets' = dataSockets /\ s.daemon = "open"
      /\ UNCHANGED <<clientVars, relayVars, controlVars>> /\ spend("faults", MaxFaults)
    BY DEF DataBreaks
<1>2. used' \in [{"leaves", "faults"} -> Nat]
    BY <1>0, <1>1, Spent
<1>3. s \in DataSocket /\ Ordered(toRelay[c], sent[c], s)
    BY <1>0 DEF TypeOK, Kept, Delivered
<1>4. Broken(s, t)
    BY <1>1 DEF Broken
<1> HIDE DEF s, t
<1>5. t \in DataSocket /\ Ordered(toRelay[c], sent[c], t) /\ t.relay = s.relay
    BY <1>3, <1>4, SocketBreaks
<1> USE DEF s
<1>6. QED
    BY <1>1, <1>2, <1>5, DaemonStepKeeps

-----------------------------------------------------------------------------
LEMMA InitEstablishes == Init => IInv
<1> SUFFICES ASSUME Init PROVE IInv
    OBVIOUS
<1>1. \A c \in Conn : /\ toRelay[c] = <<>> /\ pendingFrames[c] = <<>> /\ sock[c] = <<>>
                      /\ sent[c] = 0 /\ dataSockets[c] = 0
    BY DEF Init
<1>2. <<>> \in Seq(DataSocket) /\ <<>> \in Seq(ControlMessage) /\ Len(<<>>) = 0
    OBVIOUS
<1>3. DOMAIN <<>> = {}
    OBVIOUS
<1>4. 0 <= MaxPending
    BY BoundsAssumption
<1>5. TypeOK
    <2>1. /\ toRelay \in [Conn -> Seq(Frame)] /\ toClient \in [Conn -> Seq(Frame)]
          /\ pendingFrames \in [Conn -> Seq(Frame)]
        BY EmptyChain DEF Init
    <2>2. sock \in [Conn -> Seq(DataSocket)] /\ toDaemon \in Seq(ControlMessage)
        BY <1>2 DEF Init
    <2>3. \A c \in Conn : Len(pendingFrames[c]) <= MaxPending /\ dataSockets[c] <= Len(sock[c])
        BY <1>1, <1>2, <1>4
    <2>4. QED
        BY <2>1, <2>2, <2>3 DEF Init, TypeOK
<1>6. Unsent /\ Upstream /\ Buffered
    BY <1>1, EmptyChain DEF Unsent, Upstream, SentInOrder, Buffered, BufferJoined
<1>7. Delivered
    BY <1>1, <1>3 DEF Delivered
<1>8. QED
    BY <1>5, <1>6, <1>7 DEF IInv, Kept

LEMMA NextKeeps == IInv /\ [Next]_vars => IInv'
<1> SUFFICES ASSUME IInv, [Next]_vars PROVE IInv'
    OBVIOUS
<1>1. CASE UNCHANGED vars
    BY <1>1 DEF vars, clientVars, relayVars, daemonVars, controlVars, IInv, TypeOK, Kept, Unsent,
                Upstream, Buffered, Delivered, hasServerDataSocket
<1>2. CASE ControlStep
    BY <1>2, ControlReceivesKeeps, ControlStaleKeeps DEF ControlStep
<1>3. CASE ControlBreaks \/ Hibernates
    BY <1>3, ControlBreaksKeeps, HibernatesKeeps
<1>4. ASSUME NEW c \in Conn,
             \/ ClientConnects(c) \/ HelloRepeated(c) \/ ClientSends(c) \/ ClientLeaves(c)
             \/ ClientReceives(c)
      PROVE  IInv'
    BY <1>4, ClientConnectsKeeps, HelloRepeatedKeeps, ClientSendsKeeps, ClientLeavesKeeps,
       ClientReceivesKeeps
<1>5. ASSUME NEW c \in Conn, FromClient(c) \/ FromDaemon(c) \/ Nudge(c)
      PROVE  IInv'
    BY <1>5, FrameFromClientKeeps, ByeFromClientKeeps, FrameFromDaemonKeeps, NudgeKeeps
       DEF FromClient, FromDaemon
<1>6. ASSUME NEW c \in Conn, ToDaemon(c) \/ DataOpens(c)
      PROVE  IInv'
    BY <1>6, DataReceivesKeeps, DataConnectsKeeps DEF ToDaemon, DataOpens
<1>7. ASSUME NEW c \in Conn, NEW k \in DOMAIN sock[c], DataFails(c, k) \/ DataBreaks(c, k)
      PROVE  IInv'
    BY <1>7, DataFailsKeeps, DataBreaksKeeps
<1>8. QED
    BY <1>1, <1>2, <1>3, <1>4, <1>5, <1>6, <1>7 DEF Next

(* The invariant holds at all times, for any clients, buffer, leaves and faults: along the way of *)
(* a client's frames (its socket, the relay's buffer, the data socket, the daemon's channel) the  *)
(* next frame is always the one the client has sent next.                                         *)
THEOREM RelayInvariant == Spec => []IInv
<1>1. QED
    BY InitEstablishes, NextKeeps, PTL DEF Spec

(* The variables keep their types; the buffer of a client never holds more frames than the relay  *)
(* allows (bufferFrame), and the daemon's map only names data sockets that were opened.           *)
THEOREM RelayType == Spec => []TypeOK
<1>1. IInv => TypeOK
    BY DEF IInv
<1>2. QED
    BY <1>1, RelayInvariant, PTL

(* What a data socket delivers is a prefix of what its client has sent, whatever is buffered,     *)
(* repeated, replaced, broken or forgotten on the way.                                            *)
THEOREM RelayDeliversInOrder == Spec => []InOrder
<1>1. IInv => InOrder
    BY DEF IInv, Kept, Delivered, Ordered, Fresh, InOrder
<1>2. QED
    BY <1>1, RelayInvariant, PTL

=============================================================================
