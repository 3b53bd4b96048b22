-------------------------- MODULE AgentStorage_proofs --------------------------
(***************************************************************************)
(* Theorems about AgentStorage for any number of places and client calls,  *)
(* any lifecycle changes, failing writes and unlinks, and crashes.         *)
(***************************************************************************)
EXTENDS AgentStorage, SequenceTheorems, WellFoundedInduction, TLAPS

-----------------------------------------------------------------------------
(* The inductive invariant. *)
NoFlush(q) == \A i \in 1..Len(q) : q[i].next # "flush"

(* No unlink has failed in this run of the daemon or an earlier one. *)
Whole == used["unlinks"] = 0

Running == phase # "queued" => chain # <<>>

Quiet ==
    /\ chain = <<>> /\ waitq = <<>> /\ live = 0 /\ born = 0 /\ cache = None
    /\ \A r \in Request : req[r].at = "idle"

Down == ~up => Quiet /\ pathById = None /\ pathsById = {} /\ ~deleting

(* beginDelete comes before everything a delete call does, and its fence stays. *)
Fence ==
    deleting \/ /\ \A r \in Request : /\ req[r].op # "delete"
                                      /\ req[r].at \notin {"flush", "drain", "unlink"}
                /\ NoFlush(chain) /\ NoFlush(waitq)

(* remove() waits for the write that was past the fence; none is running while it unlinks. *)
Draining ==
    \A r \in Request :
        /\ req[r].at = "drain" /\ phase # "queued" => req[r].ahead >= 1
        /\ req[r].at = "unlink" => /\ phase = "queued" /\ durable = {}
                                   /\ Whole => filesOn(disk) \subseteq req[r].todo

Indexed == up /\ Whole => filesOn(disk) \subseteq pathsById

(* After removal the fence stands or, once restarted, nothing is left that could write. *)
Gone == removed /\ Whole => filesOn(disk) = {} /\ phase = "queued" /\ (deleting \/ Quiet)

(* When the file at pathById goes, the one at Home is the last of the scan. *)
OneAbove == Whole => \A p, q \in filesOn(disk) : p > Home /\ q > Home => p = q

(* Nothing is acknowledged: the agent was never stored, or its removal has started. *)
Unstored ==
    up /\ Whole /\ durable = {} =>
        \/ deleting /\ phase = "queued"
        \/ filesOn(disk) = {} /\ pathById = None /\ phase # "renamed"

(* The record at pathById counts, and its file is the last of the scan but for a new one at Home. *)
Current ==
    /\ pathById \in filesOn(disk) /\ disk[pathById] \in durable
    /\ \A p \in filesOn(disk) : p <= pathById \/ (phase = "renamed" /\ p <= Home)
    /\ phase = "renamed" => pathById # Home /\ disk[Home] = Head(chain).rec /\ Head(chain).rec \in durable

Stored == Whole /\ durable # {} => loadedRecord(disk) \in durable /\ (up => Current)

Kept == Running /\ Down /\ Fence /\ Draining /\ Indexed /\ Gone /\ OneAbove /\ Unstored /\ Stored

IInv == TypeOK /\ Kept

-----------------------------------------------------------------------------
(* Lemmas on the scan of the directories. *)

LessThan == OpToRel(<, Nat)

LEMMA LessThanPairs == LessThan = {x \in Nat \X Nat : x[1] < x[2]}
BY SMT DEF LessThan, OpToRel

LEMMA LessThanWellFounded == IsWellFoundedOn(LessThan, Nat)
BY NatLessThanWellFounded DEF LessThan

LEMMA LeastNatural ==
    ASSUME NEW T, T \subseteq Nat, T # {}
    PROVE  \E n \in T : \A m \in T : n <= m
<1>1. PICK n \in T : \A m \in T : ~ (<<m, n>> \in LessThan)
    BY LessThanWellFounded, WFMin
<1>2. ASSUME NEW m \in T
      PROVE  n <= m
    <2>1. ~ (m < n)
        BY <1>1, LessThanPairs
    <2>2. QED
        BY <2>1
<1>3. QED
    BY <1>2

LEMMA LastOfScan ==
    ASSUME NEW F, F \subseteq Path, F # {}
    PROVE  Max(F) \in F /\ \A p \in F : p <= Max(F)
<1> DEFINE below == {NumPaths - p : p \in F}
<1>1. NumPaths \in Nat /\ \A p \in F : p \in Nat /\ p <= NumPaths
    BY PathAssumption DEF Path
<1>2. below \subseteq Nat /\ below # {}
    BY <1>1
<1>3. PICK n \in below : \A m \in below : n <= m
    <2> HIDE DEF below
    <2> QED
        BY <1>2, LeastNatural
<1>4. PICK last \in F : n = NumPaths - last
    OBVIOUS
<1>5. ASSUME NEW p \in F
      PROVE  last >= p
    <2>1. NumPaths - p \in below
        OBVIOUS
    <2>2. n <= NumPaths - p
        BY <1>3, <2>1
    <2>3. QED
        BY <1>1, <1>4, <2>2
<1>6. \E x \in F : \A y \in F : x >= y
    BY <1>5
<1>7. Max(F) \in F /\ \A y \in F : Max(F) >= y
    BY <1>6 DEF Max
<1>8. QED
    BY <1>1, <1>7

LEMMA Loading ==
    ASSUME NEW d \in [Path -> Record \cup {NoFile}]
    PROVE  /\ filesOn(d) \subseteq Path
           /\ filesOn(d) = {} => lastFile(d) = None /\ loadedRecord(d) = None
           /\ filesOn(d) # {} => /\ lastFile(d) \in filesOn(d)
                                 /\ loadedRecord(d) = d[lastFile(d)]
                                 /\ loadedRecord(d) \in Record
                                 /\ \A p \in filesOn(d) : p <= lastFile(d)
<1>1. filesOn(d) \subseteq Path /\ \A p \in filesOn(d) : d[p] \in Record
    BY DEF filesOn
<1>2. CASE filesOn(d) = {}
    BY <1>1, <1>2 DEF lastFile, loadedRecord
<1>3. CASE filesOn(d) # {}
    <2>1. Max(filesOn(d)) \in filesOn(d) /\ \A p \in filesOn(d) : p <= Max(filesOn(d))
        BY <1>1, <1>3, LastOfScan
    <2>2. lastFile(d) = Max(filesOn(d)) /\ loadedRecord(d) = d[lastFile(d)]
        BY <1>3 DEF lastFile, loadedRecord
    <2>3. QED
        BY <1>1, <1>3, <2>1, <2>2
<1>4. QED
    BY <1>2, <1>3

(* The file the scan reads last is the one a restart loads. *)
LEMMA LoadsLast ==
    ASSUME NEW d \in [Path -> Record \cup {NoFile}], NEW p \in filesOn(d),
           \A q \in filesOn(d) : q <= p
    PROVE  loadedRecord(d) = d[p]
<1>1. /\ filesOn(d) \subseteq Path /\ lastFile(d) \in filesOn(d)
      /\ loadedRecord(d) = d[lastFile(d)] /\ p <= lastFile(d)
    BY Loading
<1>2. lastFile(d) <= p
    BY <1>1
<1>3. p \in Int /\ lastFile(d) \in Int
    BY <1>1, PathAssumption DEF Path
<1>4. lastFile(d) = p
    BY <1>1, <1>2, <1>3
<1>5. QED
    BY <1>1, <1>4

-----------------------------------------------------------------------------
(* Lemmas on the queues. *)
AfterWrite == {"first", "second", "flush", "idle"}

LEMMA AppendFine ==
    ASSUME NEW S, NEW q \in Seq(S), NEW e \in S
    PROVE  /\ Append(q, e) \in Seq(S) /\ Append(q, e) # <<>>
           /\ NoFlush(q) /\ e.next # "flush" => NoFlush(Append(q, e))
           /\ q # <<>> => Head(Append(q, e)) = Head(q)
<1>1. /\ Append(q, e) \in Seq(S) /\ Append(q, e) # <<>> /\ Len(Append(q, e)) = Len(q) + 1
      /\ \A i \in 1..Len(q) : Append(q, e)[i] = q[i]
      /\ Append(q, e)[Len(q) + 1] = e
    BY AppendProperties
<1>2. q # <<>> => Head(Append(q, e)) = Head(q)
    BY <1>1
<1>3. \A i \in 1..(Len(q) + 1) : i \in 1..Len(q) \/ i = Len(q) + 1
    OBVIOUS
<1>4. QED
    BY <1>1, <1>2, <1>3 DEF NoFlush

LEMMA JoinFine ==
    ASSUME NEW S, NEW q \in Seq(S), NEW e \in Seq(S)
    PROVE  q \o e \in Seq(S) /\ (NoFlush(q) /\ NoFlush(e) => NoFlush(q \o e))
<1>1. /\ q \o e \in Seq(S) /\ Len(q \o e) = Len(q) + Len(e)
      /\ \A i \in 1..(Len(q) + Len(e)) :
           (q \o e)[i] = IF i <= Len(q) THEN q[i] ELSE e[i - Len(q)]
    BY ConcatProperties
<1>2. \A i \in 1..(Len(q) + Len(e)) :
          IF i <= Len(q) THEN i \in 1..Len(q) ELSE i - Len(q) \in 1..Len(e)
    OBVIOUS
<1>3. QED
    BY <1>1, <1>2 DEF NoFlush

LEMMA TailFine ==
    ASSUME NEW S, NEW q \in Seq(S), q # <<>>
    PROVE  /\ Head(q) \in S /\ Tail(q) \in Seq(S)
           /\ NoFlush(q) => NoFlush(Tail(q)) /\ Head(q).next # "flush"
<1>1. /\ Head(q) \in S /\ Tail(q) \in Seq(S) /\ Len(Tail(q)) = Len(q) - 1
      /\ \A i \in 1..Len(Tail(q)) : Tail(q)[i] = q[i + 1]
      /\ Head(q) = q[1] /\ 1 \in 1..Len(q) /\ Len(q) \in Nat
    BY HeadTailProperties
<1>2. \A i \in 1..Len(Tail(q)) : i + 1 \in 1..Len(q)
    BY <1>1
<1>3. QED
    BY <1>1, <1>2 DEF NoFlush

(* What IInv says of the agent objects. *)
AgentTyped ==
    /\ live \in Object \cup {0} /\ born \in Object \cup {0}
    /\ status \in [Object -> Status \ {"closed"}]
    /\ reporter \in Object \cup {0}

LEMMA OneFine ==
    ASSUME NEW e \in Waiting
    PROVE  <<e>> \in Seq(Waiting) /\ (e.next # "flush" => NoFlush(<<e>>))
BY DEF NoFlush

LEMMA ApplyTyped ==
    ASSUME TypeOK, NEW a \in Object \cup {0}, NEW title \in {"keep", "set", "clear"},
           NEW by \in By, NEW next \in AfterWrite
    PROVE  Apply(a, title, by, next) \in Waiting /\ Apply(a, title, by, next).next = next
<1>1. Len(chain) \in Nat
    BY DEF TypeOK
<1>2. QED
    BY <1>1 DEF Apply, Waiting, AfterWrite, Status

LEMMA CopyTyped ==
    ASSUME TypeOK, NEW state \in Status, NEW by \in By, NEW next \in AfterWrite
    PROVE  ApplyCopy(state, by, next) \in Waiting /\ ApplyCopy(state, by, next).next = next
<1>1. Len(chain) \in Nat
    BY DEF TypeOK
<1>2. QED
    BY <1>1 DEF ApplyCopy, Waiting, AfterWrite

LEMMA EmittedTyped ==
    ASSUME TypeOK, NEW a \in Object, NEW state \in Status, NEW persist \in BOOLEAN
    PROVE  emitted(a, state, persist) \in Seq(Waiting) /\ NoFlush(emitted(a, state, persist))
<1> DEFINE ref == Apply(a, "keep", Task, "idle")
           copy == ApplyCopy(state, Hook, "idle")
<1>1. ref \in Waiting /\ ref.next = "idle"
    BY ApplyTyped DEF By, AfterWrite
<1>2. copy \in Waiting /\ copy.next = "idle"
    BY CopyTyped DEF By, AfterWrite
<1>3. emitted(a, state, persist) = (IF persist THEN <<ref>> ELSE <<>>) \o <<copy>>
    BY DEF emitted
<1> HIDE DEF ref, copy
<1>4. <<ref>> \in Seq(Waiting) /\ <<>> \in Seq(Waiting) /\ <<copy>> \in Seq(Waiting)
    BY <1>1, <1>2
<1>5. NoFlush(<<ref>>) /\ NoFlush(<<>>) /\ NoFlush(<<copy>>)
    BY <1>1, <1>2 DEF NoFlush
<1>6. CASE persist
    BY <1>3, <1>4, <1>5, <1>6, JoinFine
<1>7. CASE ~persist
    BY <1>3, <1>4, <1>5, <1>7, JoinFine
<1>8. QED
    BY <1>6, <1>7

(* A report joins the waiting snapshots. *)
LEMMA ReportFine ==
    ASSUME TypeOK, NEW a, NEW snapshots \in Seq(Waiting), Reports(a, snapshots)
    PROVE  /\ waitq' \in Seq(Waiting) /\ reporter' = a
           /\ NoFlush(waitq) /\ NoFlush(snapshots) => NoFlush(waitq')
BY JoinFine DEF TypeOK, Reports

LEMMA Floor ==
    ASSUME NEW n \in Nat
    PROVE  Max({0, n - 1}) \in Nat
<1> DEFINE m == IF n = 0 THEN 0 ELSE n - 1
<1>1. m \in {0, n - 1} /\ \A y \in {0, n - 1} : m >= y
    OBVIOUS
<1>2. Max({0, n - 1}) \in {0, n - 1} /\ \A y \in {0, n - 1} : Max({0, n - 1}) >= y
    BY <1>1 DEF Max
<1>3. QED
    BY <1>2

LEMMA ReleasedTyped ==
    ASSUME NEW q \in Seq(Waiting)
    PROVE  released(q) \in Seq(Waiting) /\ (NoFlush(q) => NoFlush(released(q)))
<1>1. PICK n \in Nat : q \in [1..n -> Waiting]
    BY SeqDef
<1>2. ASSUME NEW i \in 1..n
      PROVE  /\ [q[i] EXCEPT !.ahead = Max({0, @ - 1})] \in Waiting
             /\ [q[i] EXCEPT !.ahead = Max({0, @ - 1})].next = q[i].next
    <2>1. q[i] \in Waiting /\ q[i].ahead \in Nat
        BY <1>1 DEF Waiting
    <2>2. Max({0, q[i].ahead - 1}) \in Nat
        BY <2>1, Floor
    <2>3. QED
        BY <2>1, <2>2 DEF Waiting
<1>3. released(q) \in [1..n -> Waiting] /\ \A i \in 1..n : released(q)[i].next = q[i].next
    BY <1>1, <1>2 DEF released
<1>4. released(q) \in Seq(Waiting) /\ Len(released(q)) = n /\ Len(q) = n
    BY <1>1, <1>3, SeqDef
<1>5. QED
    BY <1>3, <1>4 DEF NoFlush

-----------------------------------------------------------------------------
(* Lemmas on calls and writes. *)

LEMMA IdleCall ==
    /\ idleReq \in ReqState /\ idleReq.at = "idle" /\ idleReq.op = "none"
    /\ idleReq.ahead = 0 /\ idleReq.todo = {}
BY DEF idleReq, ReqState

LEMMA RejectedCall ==
    ASSUME TypeOK, NEW r \in Request
    PROVE  /\ rejected(r) \in ReqState
           /\ rejected(r).op \in {req[r].op, "none"}
           /\ rejected(r).at \in {"flush", "idle"}
           /\ rejected(r).at = "flush" => req[r].op = "delete"
<1>1. req[r] \in ReqState
    BY DEF TypeOK
<1>2. QED
    BY <1>1, IdleCall DEF rejected, ReqState

LEMMA CallGoes ==
    ASSUME TypeOK, NEW r \in Request, NEW op \in Operation, NEW a \in Object \cup {0}
    PROVE  /\ goesOn(r, op, a) \in [Request -> ReqState]
           /\ \A q \in Request :
                 \/ goesOn(r, op, a)[q] = req[q]
                 \/ q = r /\ goesOn(r, op, a)[q].op = op /\ goesOn(r, op, a)[q].at = "wait"
<1> DEFINE c == [idleReq EXCEPT !.op = op, !.at = "wait", !.of = a]
<1>1. c \in ReqState /\ c.op = op /\ c.at = "wait"
    BY DEF idleReq, ReqState
<1>2. goesOn(r, op, a) = [req EXCEPT ![r] = c]
    BY DEF goesOn
<1> HIDE DEF c
<1>3. QED
    BY <1>1, <1>2 DEF TypeOK

(* A new write goes to the end of the chain, or its caller is told that it is rejected. *)
LEMMA UpsertMoves ==
    ASSUME TypeOK, NEW calls \in [Request -> ReqState], NEW rec \in Record, NEW by \in By,
           NEW next \in AfterWrite, Upsert(calls, rec, by, next)
    PROVE  /\ chain' \in Seq(Write) /\ req' \in [Request -> ReqState]
           /\ chain # <<>> => chain' # <<>> /\ Head(chain') = Head(chain)
           /\ NoFlush(chain) /\ next # "flush" => NoFlush(chain')
           /\ \A r \in Request : \/ req'[r] = calls[r]
                                 \/ /\ req'[r].op \in {req[r].op, "none"}
                                    /\ req'[r].at \in {"flush", "idle"}
                                    /\ req'[r].at = "flush" => req[r].op = "delete"
<1> DEFINE w == [rec |-> rec, by |-> by, next |-> next]
<1>1. CASE broken
    <2>1. chain' = chain
        BY <1>1 DEF Upsert
    <2>2. CASE by \in Request
        <3>1. req' = [calls EXCEPT ![by] = rejected(by)]
            BY <1>1, <2>2 DEF Upsert
        <3>2. QED
            BY <2>1, <2>2, <3>1, RejectedCall DEF TypeOK
    <2>3. CASE by \notin Request
        <3>1. req' = calls
            BY <1>1, <2>3 DEF Upsert
        <3>2. QED
            BY <2>1, <3>1 DEF TypeOK
    <2>4. QED
        BY <2>2, <2>3
<1>2. CASE ~broken
    <2>1. w \in Write /\ w.next = next
        BY DEF Write, AfterWrite
    <2>2. chain' = Append(chain, w) /\ req' = calls
        BY <1>2 DEF Upsert
    <2> HIDE DEF w
    <2>3. chain \in Seq(Write)
        BY DEF TypeOK
    <2>4. QED
        BY <2>1, <2>2, <2>3, AppendFine
<1>3. QED
    BY <1>1, <1>2

(* The running write ends: only its caller moves. *)
LEMMA SettleMoves ==
    ASSUME TypeOK, chain # <<>>, Settle
    PROVE  /\ chain' \in Seq(Write) /\ waitq' \in Seq(Waiting) /\ req' \in [Request -> ReqState]
           /\ phase' = "queued"
           /\ NoFlush(chain) => NoFlush(chain')
           /\ NoFlush(waitq) => NoFlush(waitq')
           /\ \A r \in Request :
                /\ req'[r].op = req[r].op /\ req'[r].todo = req[r].todo
                /\ \/ req'[r].at = req[r].at
                   \/ req'[r].at \in AfterWrite /\ (req'[r].at = "flush" => ~NoFlush(chain))
<1>1. /\ chain \in Seq(Write) /\ waitq \in Seq(Waiting)
      /\ Head(chain) \in Write /\ Tail(chain) \in Seq(Write)
      /\ NoFlush(chain) => NoFlush(Tail(chain)) /\ Head(chain).next # "flush"
    BY TailFine DEF TypeOK
<1>2. Head(chain).next \in AfterWrite
    BY <1>1 DEF Write, AfterWrite
<1>3. chain' = Tail(chain) /\ phase' = "queued" /\ waitq' = released(waitq)
    BY DEF Settle
<1>4. released(waitq) \in Seq(Waiting) /\ (NoFlush(waitq) => NoFlush(released(waitq)))
    BY <1>1, ReleasedTyped
<1>5. ASSUME NEW r \in Request
      PROVE  /\ req'[r] \in ReqState
             /\ req'[r].op = req[r].op /\ req'[r].todo = req[r].todo
             /\ \/ req'[r].at = req[r].at
                \/ req'[r].at = Head(chain).next
    <2>1. req[r] \in ReqState /\ req[r].ahead \in Nat
        BY DEF TypeOK, ReqState
    <2>2. Max({0, req[r].ahead - 1}) \in Nat
        BY <2>1, Floor
    <2>3. req'[r] = [req[r] EXCEPT !.ahead = Max({0, @ - 1}),
                                   !.at = IF Head(chain).by = r THEN Head(chain).next ELSE @]
        BY DEF Settle
    <2>4. QED
        BY <1>2, <2>1, <2>2, <2>3 DEF ReqState, AfterWrite
<1>6. req' = [r \in Request |-> req'[r]]
    BY DEF Settle
<1>7. req' \in [Request -> ReqState]
    BY <1>5, <1>6
<1>8. QED
    BY <1>1, <1>2, <1>3, <1>4, <1>5, <1>7

-----------------------------------------------------------------------------
(* What every call and callback that leaves the files and the maps alone preserves. *)
Bound == {"events", "calls", "writes", "unlinks", "crashes"}

LEMMA Spent ==
    ASSUME TypeOK, NEW b \in Bound, NEW limit, spend(b, limit)
    PROVE  /\ used' \in [Bound -> Nat]
           /\ b # "unlinks" => used'["unlinks"] = used["unlinks"]
           /\ b = "unlinks" => ~Whole'
<1>1. used \in [Bound -> Nat] /\ used' = [used EXCEPT ![b] = used[b] + 1]
    BY DEF TypeOK, Bound, spend
<1>2. used' \in [Bound -> Nat] /\ used'[b] = used[b] + 1 /\ used[b] \in Nat
    BY <1>1
<1>3. "unlinks" \in Bound
    BY DEF Bound
<1>4. b # "unlinks" => used'["unlinks"] = used["unlinks"]
    BY <1>1, <1>3
<1>5. QED
    BY <1>2, <1>4 DEF Whole

LEMMA Awake ==
    ASSUME IInv, waitq # <<>> \/ chain # <<>> \/ live # 0 \/ born # 0 \/ cache # None
                 \/ \E r \in Request : req[r].at # "idle"
    PROVE  ~Quiet /\ up /\ (removed /\ Whole => deleting)
<1>1. ~Quiet
    BY DEF Quiet
<1>2. QED
    BY <1>1 DEF IInv, Kept, Down, Gone

LEMMA Moves ==
    ASSUME IInv, up, UNCHANGED <<disk, cache, pathById, pathsById, up, history>>,
           chain' \in Seq(Write), waitq' \in Seq(Waiting), req' \in [Request -> ReqState],
           AgentTyped', broken' \in BOOLEAN, deleting' \in BOOLEAN, used' \in [Bound -> Nat],
           used'["unlinks"] = used["unlinks"],
           deleting => deleting', removed /\ Whole => deleting',
           phase' = phase \/ (phase' = "queued" /\ phase # "renamed"),
           phase' # "queued" => chain' # <<>> /\ Head(chain') = Head(chain),
           Fence',
           \A r \in Request :
              /\ req'[r].at = "unlink" => req[r].at = "unlink" /\ req'[r].todo = req[r].todo
              /\ req'[r].at = "drain" /\ phase' # "queued" => req'[r].ahead >= 1
    PROVE  IInv'
<1>1. TypeOK'
    BY DEF IInv, TypeOK, AgentTyped, history, Bound
<1>2. Whole' = Whole
    BY DEF Whole
<1>3. Running' /\ Down'
    BY DEF Running, Down
<1>4. Draining'
    BY <1>2 DEF IInv, Kept, Draining, history
<1>5. Indexed' /\ OneAbove'
    BY <1>2 DEF IInv, Kept, Indexed, OneAbove
<1>6. Gone'
    BY <1>2 DEF IInv, Kept, Gone, history
<1>7. Unstored'
    BY <1>2 DEF IInv, Kept, Unstored, history
<1>8. Stored'
    BY <1>2 DEF IInv, Kept, Stored, Current, history
<1>9. QED
    BY <1>1, <1>3, <1>4, <1>5, <1>6, <1>7, <1>8 DEF IInv, Kept

LEMMA CallsMove ==
    ASSUME IInv, up, UNCHANGED <<disk, memory, phase, broken, up, history>>,
           chain' \in Seq(Write), waitq' \in Seq(Waiting), req' \in [Request -> ReqState],
           AgentTyped', used' \in [Bound -> Nat],
           used'["unlinks"] = used["unlinks"],
           removed /\ Whole => deleting,
           chain # <<>> => chain' # <<>> /\ Head(chain') = Head(chain),
           ~deleting => NoFlush(chain') /\ NoFlush(waitq'),
           \A r \in Request :
              \/ req'[r] = req[r]
              \/ /\ req'[r].at \notin {"drain", "unlink"}
                 /\ req'[r].op = "delete" \/ req'[r].at = "flush" => deleting
    PROVE  IInv'
<1>1. Fence'
    BY DEF IInv, Kept, Fence, memory
<1>2. \A r \in Request :
          /\ req'[r].at = "unlink" => req[r].at = "unlink" /\ req'[r].todo = req[r].todo
          /\ req'[r].at = "drain" /\ phase' # "queued" => req'[r].ahead >= 1
    BY DEF IInv, Kept, Draining
<1>3. phase' # "queued" => chain' # <<>> /\ Head(chain') = Head(chain)
    BY DEF IInv, Kept, Running
<1>4. deleting' = deleting /\ broken' = broken /\ deleting \in BOOLEAN /\ broken \in BOOLEAN
    BY DEF IInv, TypeOK, memory
<1>5. UNCHANGED <<disk, cache, pathById, pathsById, up, history>>
    BY DEF memory
<1>6. QED
    BY <1>1, <1>2, <1>3, <1>4, <1>5, Moves

(* What IInv says of a call. *)
LEMMA Known ==
    ASSUME IInv
    PROVE  /\ TypeOK /\ req \in [Request -> ReqState] /\ chain \in Seq(Write)
           /\ waitq \in Seq(Waiting) /\ used \in [Bound -> Nat]
           /\ AgentTyped
           /\ ~deleting => /\ NoFlush(chain) /\ NoFlush(waitq)
                           /\ \A r \in Request : /\ req[r].op # "delete"
                                                 /\ req[r].at \notin {"flush", "drain", "unlink"}
BY DEF IInv, TypeOK, AgentTyped, Kept, Fence, Bound

LEMMA AgentStays ==
    ASSUME IInv, UNCHANGED <<agent, reporter>>
    PROVE  AgentTyped'
BY Known DEF AgentTyped, agent

LEMMA AgentSpeaks ==
    ASSUME IInv, UNCHANGED agent, reporter' \in Object \cup {0}
    PROVE  AgentTyped'
BY Known DEF AgentTyped, agent

-----------------------------------------------------------------------------
(* The actions: snapshots and client calls. *)

LEMMA ApplySnapshotKeeps == IInv /\ ApplySnapshot => IInv'
<1> SUFFICES ASSUME IInv, ApplySnapshot
             PROVE  IInv'
    OBVIOUS
<1> DEFINE e == Head(waitq)
<1>1. /\ waitq # <<>> /\ waitq' = Tail(waitq) /\ Upsert(req, merged(e), e.by, e.next)
      /\ UNCHANGED <<disk, memory, phase, broken, agent, up, history, reporter, used>>
    BY DEF ApplySnapshot
<1>2. up /\ (removed /\ Whole => deleting)
    BY <1>1, Awake
<1>3. /\ e \in Waiting /\ Tail(waitq) \in Seq(Waiting)
      /\ NoFlush(waitq) => NoFlush(Tail(waitq)) /\ e.next # "flush"
    BY <1>1, Known, TailFine
<1>4. e.by \in By /\ e.next \in AfterWrite /\ e.status \in Status /\ e.of \in Object \cup {0}
    BY <1>3 DEF Waiting, AfterWrite
<1>5. merged(e) \in Record
    <2>1. /\ (IF e.of = 0 THEN e.status ELSE status[e.of]) \in Status
          /\ (cache # None /\ cache.archived) \in BOOLEAN
          /\ (e.title = "set" \/ (e.title = "keep" /\ cache # None /\ cache.titled)) \in BOOLEAN
        BY <1>4, Known DEF AgentTyped
    <2>2. QED
        BY <2>1 DEF merged, Record
<1> HIDE DEF e
<1>6. /\ chain' \in Seq(Write) /\ req' \in [Request -> ReqState]
      /\ chain # <<>> => chain' # <<>> /\ Head(chain') = Head(chain)
      /\ NoFlush(chain) /\ e.next # "flush" => NoFlush(chain')
      /\ \A r \in Request : \/ req'[r] = req[r]
                            \/ /\ req'[r].op \in {req[r].op, "none"}
                               /\ req'[r].at \in {"flush", "idle"}
                               /\ req'[r].at = "flush" => req[r].op = "delete"
    BY <1>1, <1>4, <1>5, Known, UpsertMoves
<1>7. ~deleting => NoFlush(chain') /\ NoFlush(waitq')
    BY <1>1, <1>3, <1>6, Known
<1>8. \A r \in Request :
          \/ req'[r] = req[r]
          \/ /\ req'[r].at \notin {"drain", "unlink"}
             /\ req'[r].op = "delete" \/ req'[r].at = "flush" => deleting
    BY <1>6, Known
<1>9. AgentTyped' /\ used' = used
    BY <1>1, AgentStays
<1>10. QED
    BY <1>1, <1>2, <1>3, <1>6, <1>7, <1>8, <1>9, Known, CallsMove

(* A call that waits for a snapshot of the agent: registerSession, setTitle and archive of a live agent. *)
LEMMA SnapshotCallKeeps ==
    ASSUME IInv, NEW r \in Request, NEW op \in Operation \ {"delete"}, Starts(r, op),
           NEW a \in Object, NEW b \in Object \cup {0}, NEW e \in Waiting, e.next = "first",
           Reports(a, <<e>>), req' = goesOn(r, op, b),
           AgentTyped', removed /\ Whole => deleting,
           UNCHANGED <<disk, memory, writes, up, history>>
    PROVE  IInv'
<1>1. up /\ used' \in [Bound -> Nat] /\ used'["unlinks"] = used["unlinks"]
    BY Known, Spent DEF Starts, Bound
<1>2. waitq' \in Seq(Waiting) /\ (NoFlush(waitq) => NoFlush(waitq'))
    <2>1. <<e>> \in Seq(Waiting) /\ NoFlush(<<e>>)
        BY OneFine
    <2>2. QED
        BY <2>1, Known, ReportFine
<1>3. /\ req' \in [Request -> ReqState]
      /\ \A q \in Request : req'[q] = req[q] \/ (req'[q].op = op /\ req'[q].at = "wait")
    BY Known, CallGoes
<1>4. chain' = chain /\ phase' = phase /\ broken' = broken
    BY DEF writes
<1>5. ~deleting => NoFlush(chain') /\ NoFlush(waitq')
    BY <1>2, <1>4, Known
<1>6. \A q \in Request :
          \/ req'[q] = req[q]
          \/ /\ req'[q].at \notin {"drain", "unlink"}
             /\ req'[q].op = "delete" \/ req'[q].at = "flush" => deleting
    BY <1>3
<1>7. QED
    BY <1>1, <1>2, <1>3, <1>4, <1>5, <1>6, Known, CallsMove

(* A call that writes the record itself. *)
LEMMA WritingCallKeeps ==
    ASSUME IInv, up, NEW r \in Request, NEW calls \in [Request -> ReqState], NEW rec \in Record,
           NEW next \in {"first", "second", "idle"}, Upsert(calls, rec, r, next),
           \A q \in Request : calls[q] = req[q]
                              \/ (calls[q].at = "wait" /\ calls[q].op # "delete"),
           used' \in [Bound -> Nat], used'["unlinks"] = used["unlinks"],
           removed /\ Whole => deleting,
           UNCHANGED <<disk, memory, phase, broken, waitq, agent, reporter, up, history>>
    PROVE  IInv'
<1>1. r \in By /\ next \in AfterWrite /\ next # "flush"
    BY DEF By, AfterWrite
<1>2. /\ chain' \in Seq(Write) /\ req' \in [Request -> ReqState]
      /\ chain # <<>> => chain' # <<>> /\ Head(chain') = Head(chain)
      /\ NoFlush(chain) => NoFlush(chain')
      /\ \A q \in Request : \/ req'[q] = calls[q]
                            \/ /\ req'[q].op \in {req[q].op, "none"}
                               /\ req'[q].at \in {"flush", "idle"}
                               /\ req'[q].at = "flush" => req[q].op = "delete"
    BY <1>1, Known, UpsertMoves
<1>3. \A q \in Request :
          \/ req'[q] = req[q]
          \/ /\ req'[q].at \notin {"drain", "unlink"}
             /\ req'[q].op = "delete" \/ req'[q].at = "flush" => deleting
    BY <1>2, Known, ZenonT(30)
<1>4. waitq' = waitq /\ AgentTyped'
    BY AgentStays
<1>5. ~deleting => NoFlush(chain') /\ NoFlush(waitq')
    BY <1>2, <1>4, Known
<1>6. QED
    BY <1>2, <1>3, <1>4, <1>5, Known, CallsMove

(* A call that goes on without writing: it may queue snapshots, and close the agent. *)
LEMMA ResumedCallKeeps ==
    ASSUME IInv, NEW r \in Request, req[r].at # "idle", NEW c \in ReqState,
           req' = [req EXCEPT ![r] = c], c.at \notin {"drain", "unlink"},
           c.op = "delete" \/ c.at = "flush" => deleting,
           waitq' \in Seq(Waiting), ~deleting => NoFlush(waitq'), AgentTyped',
           UNCHANGED <<disk, memory, writes, up, history, used>>
    PROVE  IInv'
<1>1. up /\ (removed /\ Whole => deleting)
    BY Awake
<1>2. chain' = chain /\ phase' = phase /\ broken' = broken
    BY DEF writes
<1>3. req' \in [Request -> ReqState] /\ \A q \in Request : req'[q] = req[q] \/ req'[q] = c
    BY Known
<1>4. ~deleting => NoFlush(chain') /\ NoFlush(waitq')
    BY <1>2, Known
<1>5. QED
    BY <1>1, <1>2, <1>3, <1>4, Known, CallsMove

(* A call that goes on with a report of an object. *)
LEMMA ReportingCallKeeps ==
    ASSUME IInv, NEW r \in Request, req[r].at # "idle", NEW c \in ReqState,
           req' = [req EXCEPT ![r] = c], c.at \notin {"drain", "unlink", "flush"},
           c.op \in {req[r].op, "none"},
           NEW a, NEW snapshots \in Seq(Waiting), NoFlush(snapshots) \/ req[r].op = "delete",
           Reports(a, snapshots), AgentTyped',
           UNCHANGED <<disk, memory, writes, up, history, used>>
    PROVE  IInv'
<1>1. waitq' \in Seq(Waiting) /\ (NoFlush(waitq) /\ NoFlush(snapshots) => NoFlush(waitq'))
    BY Known, ReportFine
<1>2. /\ c.op = "delete" \/ c.at = "flush" => deleting
      /\ ~deleting => NoFlush(waitq')
    BY <1>1, Known
<1>3. QED
    BY <1>1, <1>2, Known, ResumedCallKeeps

LEMMA RegisterStartsKeeps ==
    ASSUME IInv, NEW r \in Request, RegisterStarts(r)
    PROVE  IInv'
<1> DEFINE title == IF cache # None /\ cache.titled THEN "set" ELSE "clear"
           e == Apply(born + 1, title, r, "first")
<1>1. /\ Starts(r, "register") /\ (cache # None \/ ~(deleting \/ removed))
      /\ born < MaxAgents /\ born' = born + 1 /\ live' = born + 1 /\ status' = status
      /\ Reports(born + 1, <<e>>) /\ req' = goesOn(r, "register", born + 1)
      /\ UNCHANGED <<disk, memory, writes, up, history>>
    BY DEF RegisterStarts
<1>2. born + 1 \in Object
    BY <1>1, Known, BoundsAssumption DEF AgentTyped, Object
<1>3. e \in Waiting /\ e.next = "first"
    BY <1>2, Known, ApplyTyped DEF By, AfterWrite
<1>4. removed /\ Whole => deleting
    BY <1>1, Awake
<1> HIDE DEF e
<1>5. AgentTyped'
    BY <1>1, <1>2, Known DEF AgentTyped, Reports
<1>6. "register" \in Operation \ {"delete"}
    BY DEF Operation
<1>7. QED
    BY <1>1, <1>2, <1>3, <1>4, <1>5, <1>6, SnapshotCallKeeps

LEMMA RegisterGoesOnKeeps ==
    ASSUME IInv, NEW r \in Request, RegisterGoesOn(r)
    PROVE  IInv'
<1>1. /\ req[r].op = "register" /\ UNCHANGED <<disk, memory, writes, up, history, used>>
      /\ live' = live /\ born' = born
    BY DEF RegisterGoesOn
<1>2. PICK a \in Object :
        \/ /\ req[r].at = "first"
           /\ Reports(a, emitted(a, status[a], FALSE) \o <<Apply(a, "keep", r, "second")>>)
           /\ status' = [status EXCEPT ![a] = "idle"]
           /\ req' = [req EXCEPT ![r].at = "wait"]
        \/ /\ req[r].at = "second"
           /\ Reports(a, emitted(a, status[a], FALSE))
           /\ Returns(r)
           /\ UNCHANGED status
    BY DEF RegisterGoesOn
<1>3. status[a] \in Status
    BY Known DEF AgentTyped
<1>4. /\ emitted(a, status[a], FALSE) \in Seq(Waiting) /\ NoFlush(emitted(a, status[a], FALSE))
    BY <1>3, Known, EmittedTyped
<1>5. AgentTyped'
    <2>1. reporter' = a
        BY <1>2 DEF Reports
    <2>2. status' \in [Object -> Status \ {"closed"}]
        BY <1>2, Known DEF AgentTyped, Status
    <2>3. QED
        BY <1>1, <2>1, <2>2, Known DEF AgentTyped
<1>6. CASE req[r].at = "first"
    <2> DEFINE e == Apply(a, "keep", r, "second")
               c == [req[r] EXCEPT !.at = "wait"]
    <2>1. /\ Reports(a, emitted(a, status[a], FALSE) \o <<e>>) /\ req' = [req EXCEPT ![r] = c]
        BY <1>2, <1>6
    <2>2. e \in Waiting /\ e.next = "second"
        BY Known, ApplyTyped DEF By, AfterWrite
    <2>3. c \in ReqState /\ c.op = "register" /\ c.at = "wait"
        BY <1>1, Known DEF ReqState
    <2> HIDE DEF e, c
    <2>4. <<e>> \in Seq(Waiting) /\ NoFlush(<<e>>)
        BY <2>2, OneFine
    <2>5. /\ emitted(a, status[a], FALSE) \o <<e>> \in Seq(Waiting)
          /\ NoFlush(emitted(a, status[a], FALSE) \o <<e>>)
        BY <1>4, <2>4, JoinFine
    <2>6. QED
        BY <1>1, <1>5, <1>6, <2>1, <2>3, <2>5, ReportingCallKeeps
<1>7. CASE req[r].at = "second"
    <2>1. Reports(a, emitted(a, status[a], FALSE)) /\ req' = [req EXCEPT ![r] = idleReq]
        BY <1>2, <1>7 DEF Returns
    <2>2. QED
        BY <1>1, <1>4, <1>5, <1>7, <2>1, IdleCall, ReportingCallKeeps
<1>8. QED
    BY <1>2, <1>6, <1>7

LEMMA SetTitleStartsKeeps ==
    ASSUME IInv, NEW r \in Request, SetTitleStarts(r)
    PROVE  IInv'
<1>1. /\ Starts(r, "setTitle") /\ cache # None
      /\ UNCHANGED <<disk, memory, phase, broken, agent, up, history>>
    BY DEF SetTitleStarts
<1>2. "setTitle" \in Operation \ {"delete"} /\ (removed /\ Whole => deleting)
    BY <1>1, Awake DEF Operation
<1>3. CASE live # 0
    <2> DEFINE e == Apply(live, "set", r, "first")
    <2>1. Reports(live, <<e>>) /\ req' = goesOn(r, "setTitle", live) /\ chain' = chain
        BY <1>3 DEF SetTitleStarts
    <2>2. live \in Object
        BY <1>3, Known DEF AgentTyped
    <2>3. e \in Waiting /\ e.next = "first"
        BY <2>2, Known, ApplyTyped DEF By, AfterWrite
    <2> HIDE DEF e
    <2>4. Starts(r, "setTitle") /\ UNCHANGED <<disk, memory, writes, up, history>>
        BY <1>1, <2>1 DEF writes
    <2>5. AgentTyped'
        BY <1>1, <2>1, <2>2, AgentSpeaks DEF Reports
    <2>6. QED
        BY <1>2, <2>1, <2>2, <2>3, <2>4, <2>5, SnapshotCallKeeps
<1>4. CASE live = 0
    <2> DEFINE rec == [cache EXCEPT !.titled = TRUE]
    <2>1. /\ waitq' = waitq /\ reporter' = reporter
          /\ Upsert(goesOn(r, "setTitle", 0), rec, r, "idle")
        BY <1>4 DEF SetTitleStarts
    <2>2. cache \in Record
        BY <1>1, Known DEF TypeOK
    <2>3. rec \in Record
        BY <2>2 DEF Record
    <2> HIDE DEF rec
    <2>4. up /\ used' \in [Bound -> Nat] /\ used'["unlinks"] = used["unlinks"]
        BY <1>1, Known, Spent DEF Starts, Bound
    <2>5. /\ goesOn(r, "setTitle", 0) \in [Request -> ReqState]
          /\ \A q \in Request : goesOn(r, "setTitle", 0)[q] = req[q]
                                \/ (goesOn(r, "setTitle", 0)[q].at = "wait"
                                    /\ goesOn(r, "setTitle", 0)[q].op # "delete")
        BY <1>2, Known, CallGoes
    <2>6. QED
        BY <1>1, <1>2, <2>1, <2>3, <2>4, <2>5, WritingCallKeeps
<1>5. QED
    BY <1>3, <1>4

LEMMA SetTitleGoesOnKeeps ==
    ASSUME IInv, NEW r \in Request, SetTitleGoesOn(r)
    PROVE  IInv'
<1>1. /\ req[r].at = "first" /\ UNCHANGED <<disk, memory, writes, agent, up, history, used>>
      /\ req' = [req EXCEPT ![r] = idleReq]
    BY DEF SetTitleGoesOn, Returns
<1>2. PICK a \in Object : Reports(a, emitted(a, status[a], FALSE))
    BY DEF SetTitleGoesOn
<1>3. status[a] \in Status /\ AgentTyped'
    BY <1>1, <1>2, Known, AgentSpeaks DEF AgentTyped, Reports
<1>4. emitted(a, status[a], FALSE) \in Seq(Waiting) /\ NoFlush(emitted(a, status[a], FALSE))
    BY <1>3, Known, EmittedTyped
<1>5. QED
    BY <1>1, <1>2, <1>3, <1>4, IdleCall, ReportingCallKeeps

LEMMA ArchivedTyped ==
    ASSUME NEW rec \in Record
    PROVE  archivedRecord(rec) \in Record
BY DEF archivedRecord, Record, Status

LEMMA ArchiveStartsKeeps ==
    ASSUME IInv, NEW r \in Request, ArchiveStarts(r)
    PROVE  IInv'
<1>1. /\ Starts(r, "archive")
      /\ UNCHANGED <<disk, memory, phase, broken, agent, up, history>>
      /\ live # 0 \/ cache # None
    BY DEF ArchiveStarts
<1>2. "archive" \in Operation \ {"delete"} /\ (removed /\ Whole => deleting)
    BY <1>1, Awake DEF Operation
<1>3. CASE live # 0
    <2> DEFINE e == Apply(live, "keep", r, "first")
    <2>1. Reports(live, <<e>>) /\ req' = goesOn(r, "archive", 0) /\ chain' = chain
        BY <1>3 DEF ArchiveStarts
    <2>2. live \in Object
        BY <1>3, Known DEF AgentTyped
    <2>3. e \in Waiting /\ e.next = "first"
        BY <2>2, Known, ApplyTyped DEF By, AfterWrite
    <2> HIDE DEF e
    <2>4. Starts(r, "archive") /\ UNCHANGED <<disk, memory, writes, up, history>>
        BY <1>1, <2>1 DEF writes
    <2>5. AgentTyped'
        BY <1>1, <2>1, <2>2, AgentSpeaks DEF Reports
    <2>6. QED
        BY <1>2, <2>1, <2>2, <2>3, <2>4, <2>5, SnapshotCallKeeps
<1>4. CASE live = 0
    <2>1. /\ cache # None /\ waitq' = waitq /\ reporter' = reporter
          /\ Upsert(goesOn(r, "archive", 0), archivedRecord(cache), r, "idle")
        BY <1>4 DEF ArchiveStarts
    <2>2. archivedRecord(cache) \in Record
        BY <2>1, Known, ArchivedTyped DEF TypeOK
    <2>3. up /\ used' \in [Bound -> Nat] /\ used'["unlinks"] = used["unlinks"]
        BY <1>1, Known, Spent DEF Starts, Bound
    <2>4. /\ goesOn(r, "archive", 0) \in [Request -> ReqState]
          /\ \A q \in Request : goesOn(r, "archive", 0)[q] = req[q]
                                \/ (goesOn(r, "archive", 0)[q].at = "wait"
                                    /\ goesOn(r, "archive", 0)[q].op # "delete")
        BY <1>2, Known, CallGoes
    <2>5. QED
        BY <1>1, <1>2, <2>1, <2>2, <2>3, <2>4, WritingCallKeeps
<1>5. QED
    BY <1>3, <1>4

LEMMA ArchiveGoesOnKeeps ==
    ASSUME IInv, NEW r \in Request, ArchiveGoesOn(r)
    PROVE  IInv'
<1>1. /\ req[r].op = "archive" /\ UNCHANGED <<disk, memory, phase, broken, born, status, up, history, used>>
      /\ req[r].at \in {"first", "second"}
    BY DEF ArchiveGoesOn
<1>2. up /\ (removed /\ Whole => deleting)
    BY <1>1, Awake
<1>3. CASE req[r].at = "first"
    <2>1. waitq' = waitq /\ UNCHANGED <<agent, reporter>>
        BY <1>1, <1>3 DEF ArchiveGoesOn, agent
    <2>2. CASE cache = None
        <3>1. req' = [req EXCEPT ![r] = idleReq] /\ chain' = chain
            BY <1>3, <2>2 DEF ArchiveGoesOn, Returns
        <3>2. UNCHANGED writes
            BY <1>1, <3>1 DEF writes
        <3>3. QED
            BY <1>1, <2>1, <3>1, <3>2, IdleCall, Known, AgentStays, ResumedCallKeeps
    <2>3. CASE cache # None
        <3> DEFINE c == [req[r] EXCEPT !.at = "wait"]
                   calls == [req EXCEPT ![r] = c]
        <3>1. Upsert(calls, archivedRecord(cache), r, "second")
            BY <1>3, <2>3 DEF ArchiveGoesOn
        <3>2. c \in ReqState /\ c.op = "archive" /\ c.at = "wait"
            BY <1>1, Known DEF ReqState
        <3> HIDE DEF c
        <3>3. /\ calls \in [Request -> ReqState]
              /\ \A q \in Request : calls[q] = req[q]
                                    \/ (calls[q].at = "wait" /\ calls[q].op # "delete")
            BY <3>2, Known
        <3>4. archivedRecord(cache) \in Record
            BY <2>3, Known, ArchivedTyped DEF TypeOK
        <3> HIDE DEF calls
        <3>5. QED
            BY <1>1, <1>2, <2>1, <3>1, <3>3, <3>4, Known, WritingCallKeeps
    <2>4. QED
        BY <2>2, <2>3
<1>4. CASE req[r].at = "second" /\ live # 0
    <2> DEFINE c == [req[r] EXCEPT !.at = "closing", !.of = live]
               told == emitted(live, status[live], TRUE)
    <2>1. /\ Reports(live, told) /\ live' = 0
          /\ req' = [req EXCEPT ![r] = c] /\ chain' = chain
        BY <1>4, Known DEF ArchiveGoesOn, Closes
    <2>2. live \in Object /\ status[live] \in Status
        BY <1>4, Known DEF AgentTyped
    <2>3. c \in ReqState /\ c.op = "archive" /\ c.at = "closing"
        BY <1>1, <2>2, Known DEF ReqState
    <2>4. told \in Seq(Waiting) /\ NoFlush(told)
        BY <2>2, Known, EmittedTyped
    <2> HIDE DEF c, told
    <2>5. AgentTyped' /\ UNCHANGED writes
        BY <1>1, <2>1, <2>2, Known DEF AgentTyped, Reports, writes
    <2>6. QED
        BY <1>1, <1>4, <2>1, <2>3, <2>4, <2>5, ReportingCallKeeps
<1>5. CASE req[r].at = "second" /\ live = 0
    <2>1. /\ waitq' = waitq /\ UNCHANGED <<agent, reporter>>
          /\ req' = [req EXCEPT ![r] = idleReq] /\ chain' = chain
        BY <1>1, <1>5 DEF ArchiveGoesOn, Closes, Returns, agent
    <2>2. UNCHANGED writes
        BY <1>1, <2>1 DEF writes
    <2>3. QED
        BY <1>1, <2>1, <2>2, IdleCall, Known, AgentStays, ResumedCallKeeps
<1>6. QED
    BY <1>1, <1>3, <1>4, <1>5

LEMMA SessionClosedKeeps ==
    ASSUME IInv, NEW r \in Request, SessionClosed(r)
    PROVE  IInv'
<1> DEFINE e == ApplyCopy("closed", r, IF req[r].op = "delete" THEN "flush" ELSE "idle")
           c == [req[r] EXCEPT !.at = "wait"]
<1>1. /\ req[r].at = "closing" /\ UNCHANGED <<disk, memory, writes, agent, up, history, used>>
      /\ Reports(req[r].of, <<e>>) /\ req' = [req EXCEPT ![r] = c]
    BY DEF SessionClosed
<1>2. e \in Waiting /\ (e.next = "flush" => req[r].op = "delete")
    BY Known, CopyTyped DEF By, AfterWrite, Status
<1>3. c \in ReqState /\ c.op = req[r].op /\ c.at = "wait" /\ req[r].of \in Object \cup {0}
    BY Known DEF ReqState
<1> HIDE DEF e, c
<1>4. <<e>> \in Seq(Waiting) /\ (NoFlush(<<e>>) \/ req[r].op = "delete")
    BY <1>2, OneFine
<1>5. AgentTyped'
    BY <1>1, <1>3, AgentSpeaks DEF Reports
<1>6. QED
    BY <1>1, <1>3, <1>4, <1>5, ReportingCallKeeps

LEMMA UnarchiveStartsKeeps ==
    ASSUME IInv, NEW r \in Request, UnarchiveStarts(r)
    PROVE  IInv'
<1> DEFINE rec == [cache EXCEPT !.archived = FALSE]
<1>1. /\ Starts(r, "unarchive") /\ cache # None
      /\ Upsert(goesOn(r, "unarchive", 0), rec, r, "first")
      /\ UNCHANGED <<disk, memory, phase, broken, waitq, agent, up, history, reporter>>
    BY DEF UnarchiveStarts
<1>2. cache \in Record
    BY <1>1, Known DEF TypeOK
<1>3. rec \in Record
    BY <1>2 DEF Record
<1> HIDE DEF rec
<1>4. up /\ used' \in [Bound -> Nat] /\ used'["unlinks"] = used["unlinks"]
    BY <1>1, Known, Spent DEF Starts, Bound
<1>5. "unarchive" \in Operation \ {"delete"} /\ (removed /\ Whole => deleting)
    BY <1>1, Awake DEF Operation
<1>6. /\ goesOn(r, "unarchive", 0) \in [Request -> ReqState]
      /\ \A q \in Request : goesOn(r, "unarchive", 0)[q] = req[q]
                            \/ (goesOn(r, "unarchive", 0)[q].at = "wait"
                                /\ goesOn(r, "unarchive", 0)[q].op # "delete")
    BY <1>5, Known, CallGoes
<1>7. QED
    BY <1>1, <1>3, <1>4, <1>5, <1>6, WritingCallKeeps

LEMMA UnarchiveGoesOnKeeps ==
    ASSUME IInv, NEW r \in Request, UnarchiveGoesOn(r)
    PROVE  IInv'
<1>1. /\ req[r].at = "first" /\ UNCHANGED <<disk, memory, writes, agent, up, history, used>>
      /\ req' = [req EXCEPT ![r] = idleReq]
    BY DEF UnarchiveGoesOn, Returns
<1>2. CASE live # 0
    <2> DEFINE told == emitted(live, status[live], TRUE)
    <2>1. Reports(live, told)
        BY <1>2 DEF UnarchiveGoesOn
    <2>2. live \in Object /\ status[live] \in Status
        BY <1>2, Known DEF AgentTyped
    <2>3. told \in Seq(Waiting) /\ NoFlush(told)
        BY <2>2, Known, EmittedTyped
    <2> HIDE DEF told
    <2>4. AgentTyped'
        BY <1>1, <2>1, <2>2, AgentSpeaks DEF Reports
    <2>5. QED
        BY <1>1, <2>1, <2>3, <2>4, IdleCall, ReportingCallKeeps
<1>3. CASE live = 0
    <2>1. waitq' = waitq /\ AgentTyped'
        BY <1>1, <1>3, AgentStays DEF UnarchiveGoesOn
    <2>2. QED
        BY <1>1, <2>1, IdleCall, Known, ResumedCallKeeps
<1>4. QED
    BY <1>2, <1>3

(* An object changes and reports: the live one, or one that was closed. *)
LEMMA ChangesKeeps ==
    ASSUME IInv, NEW a \in Object, born # 0 \/ live # 0, Changes(a)
    PROVE  IInv'
<1> DEFINE told == emitted(a, status'[a], TRUE)
<1>1. /\ up /\ spend("events", MaxEvents)
      /\ status' = [status EXCEPT ![a] = IF @ = "idle" THEN "running" ELSE "idle"]
      /\ Reports(a, told)
      /\ UNCHANGED <<disk, memory, writes, live, born, req, up, history>>
    BY DEF Changes
<1>2. /\ used' \in [Bound -> Nat] /\ used'["unlinks"] = used["unlinks"]
      /\ (removed /\ Whole => deleting)
    BY <1>1, Known, Spent, Awake DEF Bound
<1>3. status' \in [Object -> Status \ {"closed"}] /\ status'[a] \in Status
    BY <1>1, Known DEF AgentTyped, Status
<1>4. told \in Seq(Waiting) /\ NoFlush(told)
    BY <1>3, Known, EmittedTyped
<1> HIDE DEF told
<1>5. /\ waitq' \in Seq(Waiting) /\ (NoFlush(waitq) => NoFlush(waitq'))
      /\ AgentTyped'
    BY <1>1, <1>3, <1>4, Known, ReportFine DEF AgentTyped
<1>6. /\ chain' = chain /\ phase' = phase /\ broken' = broken
      /\ UNCHANGED <<disk, memory, phase, broken, up, history>>
    BY <1>1 DEF writes
<1>7. ~deleting => NoFlush(chain') /\ NoFlush(waitq')
    BY <1>5, <1>6, Known
<1>8. QED
    BY <1>1, <1>2, <1>5, <1>6, <1>7, Known, CallsMove

LEMMA LifecycleChangesKeeps == IInv /\ LifecycleChanges => IInv'
<1> SUFFICES ASSUME IInv, LifecycleChanges
             PROVE  IInv'
    OBVIOUS
<1>1. live # 0 /\ live \in Object /\ Changes(live)
    BY Known DEF LifecycleChanges, AgentTyped
<1>2. QED
    BY <1>1, ChangesKeeps

LEMMA LateChangeKeeps == IInv /\ LateChange => IInv'
<1> SUFFICES ASSUME IInv, LateChange
             PROVE  IInv'
    OBVIOUS
<1>1. PICK a \in 1..born : Changes(a)
    BY DEF LateChange
<1>2. a \in Object /\ born # 0
    BY Known, BoundsAssumption DEF AgentTyped, Object
<1>3. QED
    BY <1>1, <1>2, ChangesKeeps

-----------------------------------------------------------------------------
(* The actions: deleting. *)

LEMMA DeleteStartsKeeps ==
    ASSUME IInv, NEW r \in Request, DeleteStarts(r)
    PROVE  IInv'
<1> DEFINE c == [idleReq EXCEPT !.op = "delete", !.of = live,
                                   !.at = IF live # 0 THEN "closing" ELSE "flush"]
<1>1. /\ Starts(r, "delete") /\ (cache # None \/ live # 0) /\ deleting' = TRUE /\ waitq' = waitq
      /\ req' = [req EXCEPT ![r] = c]
      /\ UNCHANGED <<disk, cache, pathById, pathsById, writes, born, status, up, history, reporter>>
    BY DEF DeleteStarts
<1>2. up /\ used' \in [Bound -> Nat] /\ used'["unlinks"] = used["unlinks"]
    BY <1>1, Known, Spent DEF Starts, Bound
<1>3. c \in ReqState /\ c.at \in {"closing", "flush"}
    BY Known DEF idleReq, ReqState, Operation, AgentTyped
<1> HIDE DEF c
<1>4. waitq' \in Seq(Waiting) /\ AgentTyped'
    <2>1. live' \in {0, live}
        BY DEF DeleteStarts, Closes
    <2>2. QED
        BY <1>1, <2>1, Known DEF AgentTyped
<1>5. req' \in [Request -> ReqState] /\ \A q \in Request : req'[q] = req[q] \/ req'[q] = c
    BY <1>1, <1>3, Known
<1>6. Fence'
    BY <1>1 DEF Fence
<1>7. chain' = chain /\ phase' = phase /\ broken' = broken
    BY <1>1 DEF writes
<1>8. \A q \in Request :
          /\ req'[q].at = "unlink" => req[q].at = "unlink" /\ req'[q].todo = req[q].todo
          /\ req'[q].at = "drain" /\ phase' # "queued" => req'[q].ahead >= 1
    BY <1>3, <1>5, <1>7 DEF IInv, Kept, Draining
<1>9. chain' \in Seq(Write) /\ broken' \in BOOLEAN
    BY <1>1, <1>7, Known DEF TypeOK
<1>10. phase' # "queued" => chain' # <<>> /\ Head(chain') = Head(chain)
    BY <1>7 DEF IInv, Kept, Running
<1>11. QED
    BY <1>1, <1>2, <1>4, <1>5, <1>6, <1>7, <1>8, <1>9, <1>10, Moves

(* remove() waits for the last write; the running one, if any, is one of those it waits for. *)
LEMMA FlushedKeeps ==
    ASSUME IInv, NEW r \in Request, Flushed(r)
    PROVE  IInv'
<1> DEFINE c == [req[r] EXCEPT !.at = "drain", !.ahead = Len(chain)]
<1>1. req[r].at = "flush" /\ UNCHANGED <<disk, memory, writes, waitq, agent, up, history, reporter, used>>
    BY DEF Flushed
<1>2. req' = [req EXCEPT ![r] = c]
    BY Known DEF Flushed, ReqState
<1>3. up /\ deleting
    BY <1>1, Known, Awake
<1>4. Len(chain) \in Nat /\ (phase # "queued" => Len(chain) >= 1)
    BY Known DEF IInv, Kept, Running
<1>5. c \in ReqState /\ c.at = "drain" /\ c.ahead = Len(chain)
    BY <1>4, Known DEF ReqState
<1> HIDE DEF c
<1>6. req' \in [Request -> ReqState] /\ \A q \in Request : req'[q] = req[q] \/ req'[q] = c
    BY <1>2, <1>5, Known
<1>7. /\ chain' = chain /\ phase' = phase /\ broken' = broken /\ waitq' = waitq
      /\ AgentTyped' /\ deleting' = deleting /\ used' = used
      /\ UNCHANGED <<disk, cache, pathById, pathsById, up, history>>
    BY <1>1, AgentStays DEF writes, memory
<1>8. Fence'
    BY <1>3, <1>7 DEF Fence
<1>9. \A q \in Request :
          /\ req'[q].at = "unlink" => req[q].at = "unlink" /\ req'[q].todo = req[q].todo
          /\ req'[q].at = "drain" /\ phase' # "queued" => req'[q].ahead >= 1
    BY <1>4, <1>5, <1>6, <1>7 DEF IInv, Kept, Draining
<1>10. /\ broken' \in BOOLEAN /\ deleting' \in BOOLEAN
       /\ phase' # "queued" => chain' # <<>> /\ Head(chain') = Head(chain)
    BY <1>7, Known DEF IInv, Kept, Running, TypeOK
<1>11. QED
    BY <1>3, <1>6, <1>7, <1>8, <1>9, <1>10, Known, Moves

(* No write is past the fence any more: the files listed are all there will be. *)
LEMMA DrainedKeeps ==
    ASSUME IInv, NEW r \in Request, Drained(r)
    PROVE  IInv'
<1>1. /\ req[r].at = "drain" /\ req[r].ahead = 0
      /\ UNCHANGED <<disk, memory, writes, waitq, agent, up, removed, reporter, used>>
    BY DEF Drained
<1>2. up /\ deleting /\ phase = "queued"
    BY <1>1, Known, Awake DEF IInv, Kept, Draining
<1>3. CASE broken
    <2>1. req' = [req EXCEPT ![r] = idleReq] /\ durable' = durable
        BY <1>3 DEF Drained, Returns
    <2>2. waitq' = waitq /\ UNCHANGED <<disk, memory, writes, up, history, used>>
        BY <1>1, <2>1 DEF history
    <2>3. waitq' \in Seq(Waiting) /\ AgentTyped'
        BY <1>1, <2>2, Known, AgentStays
    <2>4. QED
        BY <1>1, <1>2, <2>1, <2>2, <2>3, IdleCall, ResumedCallKeeps
<1>4. CASE ~broken
    <2> DEFINE c == [req[r] EXCEPT !.at = "unlink", !.todo = pathsById]
    <2>1. req' = [req EXCEPT ![r] = c] /\ durable' = {}
        BY <1>4, Known DEF Drained, ReqState
    <2>2. c \in ReqState /\ c.at = "unlink" /\ c.todo = pathsById
        BY Known DEF ReqState, TypeOK
    <2> HIDE DEF c
    <2>3. req' \in [Request -> ReqState] /\ \A q \in Request : req'[q] = req[q] \/ req'[q] = c
        BY <2>1, <2>2, Known
    <2>4. /\ disk' = disk /\ cache' = cache /\ pathById' = pathById /\ pathsById' = pathsById
          /\ deleting' = deleting /\ chain' = chain /\ phase' = phase /\ broken' = broken
          /\ waitq' = waitq /\ live' = live /\ born' = born /\ status' = status /\ reporter' = reporter /\ up' = up
          /\ removed' = removed /\ used' = used /\ Whole' = Whole
        BY <1>1 DEF memory, writes, agent, Whole
    <2>5. TypeOK'
        BY <2>1, <2>3, <2>4 DEF IInv, TypeOK
    <2>6. Draining'
        BY <1>2, <2>1, <2>2, <2>3, <2>4 DEF IInv, Kept, Draining, Indexed
    <2>7. Running' /\ Down' /\ Fence' /\ Gone' /\ Unstored'
        BY <1>2, <2>4 DEF IInv, Kept, Running, Down, Fence, Gone, Unstored
    <2>8. Indexed' /\ OneAbove' /\ Stored'
        BY <2>1, <2>4 DEF IInv, Kept, Indexed, OneAbove, Stored
    <2>9. QED
        BY <2>5, <2>6, <2>7, <2>8 DEF IInv, Kept
<1>5. QED
    BY <1>3, <1>4

LEMMA FileGone ==
    ASSUME TypeOK, NEW p, NEW d, d = [disk EXCEPT ![p] = NoFile]
    PROVE  /\ d \in [Path -> Record \cup {NoFile}]
           /\ p \in Path => filesOn(d) = filesOn(disk) \ {p}
           /\ filesOn(d) \subseteq filesOn(disk)
           /\ \A q \in filesOn(d) : d[q] = disk[q]
<1>1. disk \in [Path -> Record \cup {NoFile}]
    BY DEF TypeOK
<1>2. d \in [Path -> Record \cup {NoFile}]
    BY <1>1
<1>3. \A q \in Path : d[q] = IF q = p THEN NoFile ELSE disk[q]
    BY <1>1
<1>4. QED
    BY <1>2, <1>3 DEF filesOn

LEMMA RecordUnlinkedKeeps ==
    ASSUME IInv, NEW r \in Request, RecordUnlinked(r)
    PROVE  IInv'
<1>1. PICK p \in req[r].todo :
        /\ \/ disk' = [disk EXCEPT ![p] = NoFile] /\ UNCHANGED used
           \/ spend("unlinks", MaxUnlinkFailures) /\ UNCHANGED disk
        /\ req' = [req EXCEPT ![r].todo = @ \ {p}]
    BY DEF RecordUnlinked
<1> DEFINE c == [req[r] EXCEPT !.todo = @ \ {p}]
<1>2. req[r].at = "unlink" /\ UNCHANGED <<memory, writes, waitq, agent, up, history, reporter>>
    BY DEF RecordUnlinked
<1>3. up /\ deleting /\ phase = "queued" /\ durable = {}
      /\ (Whole => filesOn(disk) \subseteq req[r].todo)
    BY <1>2, Known, Awake DEF IInv, Kept, Draining
<1>4. c \in ReqState /\ c.at = "unlink" /\ c.todo = req[r].todo \ {p} /\ p \in Path
    BY <1>2, Known DEF ReqState
<1>5. req' = [req EXCEPT ![r] = c]
    BY <1>1
<1> HIDE DEF c
<1>6. req' \in [Request -> ReqState] /\ req'[r] = c /\ \A q \in Request \ {r} : req'[q] = req[q]
    BY <1>4, <1>5, Known
<1>7. /\ cache' = cache /\ pathById' = pathById /\ pathsById' = pathsById
      /\ deleting' = deleting /\ chain' = chain /\ phase' = phase /\ broken' = broken
      /\ waitq' = waitq /\ live' = live /\ born' = born /\ status' = status /\ reporter' = reporter /\ up' = up
      /\ removed' = removed /\ durable' = durable
    BY <1>2 DEF memory, writes, agent, history
<1>8. /\ disk' \in [Path -> Record \cup {NoFile}] /\ filesOn(disk') \subseteq filesOn(disk)
      /\ used' \in [Bound -> Nat]
      /\ Whole' => Whole /\ filesOn(disk') = filesOn(disk) \ {p}
    <2>1. CASE disk' = [disk EXCEPT ![p] = NoFile] /\ used' = used
        <3>1. /\ disk' \in [Path -> Record \cup {NoFile}] /\ filesOn(disk') \subseteq filesOn(disk)
              /\ filesOn(disk') = filesOn(disk) \ {p}
            BY <1>4, <2>1, Known, FileGone
        <3>2. Whole' = Whole /\ used' \in [Bound -> Nat]
            BY <2>1, Known DEF Whole
        <3>3. QED
            BY <3>1, <3>2
    <2>2. CASE spend("unlinks", MaxUnlinkFailures) /\ disk' = disk
        <3>1. used' \in [Bound -> Nat] /\ ~Whole'
            BY <2>2, Known, Spent DEF Bound
        <3>2. QED
            BY <2>2, <3>1, Known DEF TypeOK
    <2>3. QED
        BY <1>1, <2>1, <2>2
<1>9. TypeOK'
    BY <1>6, <1>7, <1>8 DEF IInv, TypeOK, Bound
<1>10. Running' /\ Down' /\ Fence' /\ Unstored' /\ Stored'
    BY <1>3, <1>7 DEF IInv, Kept, Running, Down, Fence, Unstored, Stored
<1>11. Draining'
    BY <1>3, <1>4, <1>6, <1>7, <1>8 DEF IInv, Kept, Draining
<1>12. Indexed' /\ OneAbove' /\ Gone'
    BY <1>3, <1>7, <1>8 DEF IInv, Kept, Indexed, OneAbove, Gone
<1>13. QED
    BY <1>9, <1>10, <1>11, <1>12 DEF IInv, Kept

LEMMA RemoveReturnsKeeps ==
    ASSUME IInv, NEW r \in Request, RemoveReturns(r)
    PROVE  IInv'
<1>1. /\ req[r].at = "unlink" /\ req[r].todo = {}
      /\ cache' = None /\ pathById' = None /\ pathsById' = {} /\ removed' = TRUE
      /\ req' = [req EXCEPT ![r] = idleReq]
      /\ UNCHANGED <<disk, deleting, writes, waitq, agent, up, durable, reporter, used>>
    BY DEF RemoveReturns, Returns
<1>2. /\ up /\ deleting /\ phase = "queued" /\ durable = {}
      /\ Whole => filesOn(disk) = {}
    BY <1>1, Known, Awake DEF IInv, Kept, Draining
<1>3. req' \in [Request -> ReqState] /\ req'[r] = idleReq /\ \A q \in Request \ {r} : req'[q] = req[q]
    BY <1>1, IdleCall, Known
<1>4. /\ chain' = chain /\ phase' = phase /\ broken' = broken /\ live' = live /\ born' = born /\ status' = status /\ reporter' = reporter
      /\ Whole' = Whole
    BY <1>1 DEF writes, agent, Whole
<1>5. TypeOK'
    BY <1>1, <1>3, <1>4 DEF IInv, TypeOK
<1>6. Running' /\ Down' /\ Fence' /\ Unstored' /\ Stored' /\ OneAbove'
    BY <1>1, <1>2, <1>4 DEF IInv, Kept, Running, Down, Fence, Unstored, Stored, OneAbove
<1>7. Draining'
    BY <1>1, <1>2, <1>3, <1>4, IdleCall DEF IInv, Kept, Draining
<1>8. Indexed' /\ Gone'
    BY <1>1, <1>2, <1>4 DEF Indexed, Gone
<1>9. QED
    BY <1>5, <1>6, <1>7, <1>8 DEF IInv, Kept

-----------------------------------------------------------------------------
(* The actions: the running write, crashes and loading. *)

LEMMA Settled ==
    ASSUME IInv, chain # <<>>, Settle
    PROVE  /\ chain' \in Seq(Write) /\ waitq' \in Seq(Waiting) /\ req' \in [Request -> ReqState]
           /\ phase' = "queued"
           /\ deleting' = deleting => Fence'
           /\ \A r \in Request :
                req'[r].at = "unlink" => req[r].at = "unlink" /\ req'[r].todo = req[r].todo
<1>1. /\ chain' \in Seq(Write) /\ waitq' \in Seq(Waiting) /\ req' \in [Request -> ReqState]
      /\ phase' = "queued"
      /\ NoFlush(chain) => NoFlush(chain')
      /\ NoFlush(waitq) => NoFlush(waitq')
      /\ \A r \in Request :
           /\ req'[r].op = req[r].op /\ req'[r].todo = req[r].todo
           /\ \/ req'[r].at = req[r].at
              \/ req'[r].at \in AfterWrite /\ (req'[r].at = "flush" => ~NoFlush(chain))
    BY Known, SettleMoves
<1>2. ASSUME deleting' = deleting
      PROVE  Fence'
    BY <1>1, <1>2, Known DEF Fence, AfterWrite
<1>3. QED
    BY <1>1, <1>2 DEF AfterWrite

LEMMA WriteStartsKeeps == IInv /\ WriteStarts => IInv'
<1> SUFFICES ASSUME IInv, WriteStarts
             PROVE  IInv'
    OBVIOUS
<1>1. /\ chain # <<>> /\ phase = "queued"
      /\ UNCHANGED <<disk, memory, broken, agent, up, history, reporter, used>>
    BY DEF WriteStarts
<1>2. /\ up /\ (removed /\ Whole => deleting)
      /\ live' = live /\ born' = born /\ status' = status /\ reporter' = reporter
      /\ AgentTyped' /\ deleting' = deleting
      /\ UNCHANGED <<disk, cache, pathById, pathsById, up, history>>
    BY <1>1, Awake, AgentStays DEF agent, memory
<1>3. CASE deleting
    <2>1. Settle
        BY <1>3 DEF WriteStarts
    <2>2. /\ chain' \in Seq(Write) /\ waitq' \in Seq(Waiting) /\ req' \in [Request -> ReqState]
          /\ phase' = "queued" /\ Fence'
          /\ \A r \in Request :
               req'[r].at = "unlink" => req[r].at = "unlink" /\ req'[r].todo = req[r].todo
        BY <1>1, <1>2, <2>1, Settled
    <2>3. broken' = broken /\ broken \in BOOLEAN /\ deleting \in BOOLEAN
        BY <1>1, Known DEF TypeOK
    <2>4. QED
        BY <1>1, <1>2, <2>2, <2>3, Known, Moves
<1>4. CASE ~deleting
    <2>1. phase' = "checked" /\ chain' = chain /\ waitq' = waitq /\ req' = req
        BY <1>4 DEF WriteStarts
    <2>2. /\ disk' = disk /\ cache' = cache /\ pathById' = pathById /\ pathsById' = pathsById
          /\ broken' = broken /\ up' = up /\ durable' = durable /\ removed' = removed
          /\ used' = used /\ Whole' = Whole
        BY <1>1, <1>2 DEF history, Whole
    <2>3. TypeOK'
        BY <1>2, <2>1, <2>2 DEF IInv, TypeOK
    <2>4. Running' /\ Down' /\ Fence' /\ Draining' /\ Indexed' /\ Gone' /\ OneAbove'
        BY <1>1, <1>2, <1>4, <2>1, <2>2, Known
           DEF IInv, Kept, Running, Down, Fence, Draining, Indexed, Gone, OneAbove
    <2>5. Unstored' /\ Stored'
        BY <1>1, <1>2, <1>4, <2>1, <2>2 DEF IInv, Kept, Unstored, Stored, Current
    <2>6. QED
        BY <2>3, <2>4, <2>5 DEF IInv, Kept
<1>5. QED
    BY <1>3, <1>4

LEMMA WriteFailsKeeps == IInv /\ WriteFails => IInv'
<1> SUFFICES ASSUME IInv, WriteFails
             PROVE  IInv'
    OBVIOUS
<1>1. /\ chain # <<>> /\ phase = "checked" /\ spend("writes", MaxWriteFailures)
      /\ chain' = <<>> /\ phase' = "queued" /\ broken' = TRUE
      /\ waitq' = [i \in DOMAIN waitq |-> [waitq[i] EXCEPT !.ahead = 0]]
      /\ req' = [r \in Request |->
                   IF \E i \in DOMAIN chain : chain[i].by = r THEN rejected(r)
                   ELSE [req[r] EXCEPT !.ahead = 0]]
      /\ UNCHANGED <<disk, memory, agent, up, history, reporter>>
    BY DEF WriteFails
<1>2. /\ up /\ (removed /\ Whole => deleting)
      /\ used' \in [Bound -> Nat] /\ used'["unlinks"] = used["unlinks"]
      /\ AgentTyped' /\ deleting' = deleting
      /\ UNCHANGED <<disk, cache, pathById, pathsById, up, history>>
    BY <1>1, Awake, AgentStays, Known, Spent DEF Bound, memory
<1>3. chain' \in Seq(Write) /\ NoFlush(chain')
    BY <1>1 DEF NoFlush
<1>4. waitq' \in Seq(Waiting) /\ (NoFlush(waitq) => NoFlush(waitq'))
    <2>1. PICK n \in Nat : waitq \in [1..n -> Waiting]
        BY Known, SeqDef
    <2>2. \A i \in 1..n : [waitq[i] EXCEPT !.ahead = 0] \in Waiting
                          /\ [waitq[i] EXCEPT !.ahead = 0].next = waitq[i].next
        BY <2>1 DEF Waiting
    <2>3. waitq' \in [1..n -> Waiting] /\ \A i \in 1..n : waitq'[i].next = waitq[i].next
        BY <1>1, <2>1, <2>2
    <2>4. waitq' \in Seq(Waiting) /\ Len(waitq') = n /\ Len(waitq) = n
        BY <2>1, <2>3, SeqDef
    <2>5. QED
        BY <2>3, <2>4 DEF NoFlush
<1>5. ASSUME NEW r \in Request
      PROVE  /\ req'[r] \in ReqState
             /\ \/ /\ req'[r].op = req[r].op /\ req'[r].at = req[r].at /\ req'[r].todo = req[r].todo
                \/ /\ req'[r].op \in {req[r].op, "none"} /\ req'[r].at \in {"flush", "idle"}
                   /\ req'[r].at = "flush" => req[r].op = "delete"
    <2>1. [req[r] EXCEPT !.ahead = 0] \in ReqState
        BY Known DEF ReqState
    <2>2. req'[r] = rejected(r) \/ req'[r] = [req[r] EXCEPT !.ahead = 0]
        BY <1>1
    <2>3. QED
        BY <2>1, <2>2, Known, RejectedCall DEF ReqState
<1>6. req' \in [Request -> ReqState]
    BY <1>1, <1>5
<1>7. Fence'
    BY <1>2, <1>3, <1>4, <1>5, Known DEF Fence
<1>8. \A r \in Request :
          req'[r].at = "unlink" => req[r].at = "unlink" /\ req'[r].todo = req[r].todo
    BY <1>5
<1>9. broken' \in BOOLEAN /\ deleting' \in BOOLEAN
    BY <1>1, <1>2, Known DEF TypeOK
<1>10. QED
    BY <1>1, <1>2, <1>3, <1>4, <1>6, <1>7, <1>8, <1>9, Known, Moves

(* While a write is past the fence nothing is removed, and what is stored is Current. *)
LEMMA Writing ==
    ASSUME IInv, phase # "queued", chain # <<>>
    PROVE  /\ up /\ ~(removed /\ Whole) /\ Head(chain) \in Write /\ Head(chain).rec \in Record
           /\ \A r \in Request : req[r].at # "unlink"
           /\ Whole => \/ /\ durable = {} /\ filesOn(disk) = {} /\ pathById = None
                          /\ phase # "renamed"
                       \/ durable # {} /\ Current /\ pathById \in Path
<1>1. up /\ ~(removed /\ Whole) /\ \A r \in Request : req[r].at # "unlink"
    BY Awake DEF IInv, Kept, Gone, Draining
<1>2. Head(chain) \in Write
    BY Known
<1>3. filesOn(disk) \subseteq Path
    BY DEF filesOn
<1>4. Whole => \/ durable = {} /\ filesOn(disk) = {} /\ pathById = None /\ phase # "renamed"
               \/ durable # {} /\ Current /\ pathById \in Path
    BY <1>1, <1>3 DEF IInv, Kept, Unstored, Stored, Current
<1>5. QED
    BY <1>1, <1>2, <1>4 DEF Write

(* The write is acknowledged: the last file of the scan is the one at Home. *)
LEMMA Commits ==
    ASSUME IInv, phase # "queued", chain # <<>>, NEW paths \in SUBSET Path, CommitRecord(paths),
           disk' \in [Path -> Record \cup {NoFile}], used' \in [Bound -> Nat],
           UNCHANGED <<deleting, broken, agent, up, removed, reporter>>,
           Whole' => /\ Whole /\ filesOn(disk') \subseteq paths
                     /\ Home \in filesOn(disk') /\ disk'[Home] = Head(chain).rec
                     /\ \A p \in filesOn(disk') : p <= Home
    PROVE  IInv'
<1>1. /\ cache' = Head(chain).rec /\ pathById' = Home /\ pathsById' = paths
      /\ durable' = {Head(chain).rec} /\ Settle
    BY DEF CommitRecord
<1>2. /\ up /\ ~(removed /\ Whole) /\ Head(chain).rec \in Record
      /\ \A r \in Request : req[r].at # "unlink"
    BY Writing
<1>3. /\ chain' \in Seq(Write) /\ waitq' \in Seq(Waiting) /\ req' \in [Request -> ReqState]
      /\ phase' = "queued" /\ Fence'
      /\ \A r \in Request : req'[r].at # "unlink"
    BY <1>1, <1>2, Settled
<1>4. live' = live /\ born' = born /\ status' = status /\ reporter' = reporter
    BY DEF agent
<1>5. TypeOK'
    BY <1>1, <1>2, <1>3, <1>4, PathAssumption DEF IInv, TypeOK, Bound
<1>6. Running' /\ Down' /\ Draining' /\ Indexed' /\ Gone'
    BY <1>1, <1>2, <1>3 DEF Running, Down, Draining, Indexed, Gone
<1>7. OneAbove' /\ Unstored'
    <2>1. Whole' => \A p \in filesOn(disk') : p \in Int /\ p <= Home
        BY PathAssumption DEF filesOn, Path
    <2>2. Home \in Int
        BY PathAssumption DEF Path
    <2>3. OneAbove'
        BY <2>1, <2>2 DEF OneAbove
    <2>4. QED
        BY <1>1, <2>3 DEF Unstored
<1>8. Stored'
    <2>1. Whole' => loadedRecord(disk') = Head(chain).rec
        BY LoadsLast
    <2>2. Whole' => Current'
        BY <1>1, <1>3 DEF Current
    <2>3. QED
        BY <1>1, <2>1, <2>2 DEF Stored
<1>9. QED
    BY <1>3, <1>5, <1>6, <1>7, <1>8 DEF IInv, Kept

LEMMA FileReplacedKeeps == IInv /\ FileReplaced => IInv'
<1> SUFFICES ASSUME IInv, FileReplaced
             PROVE  IInv'
    OBVIOUS
<1> DEFINE rec == Head(chain).rec
<1>1. /\ chain # <<>> /\ phase = "checked" /\ disk' = [disk EXCEPT ![Home] = rec]
      /\ UNCHANGED <<deleting, broken, agent, up, removed, reporter, used>>
    BY DEF FileReplaced
<1>2. /\ up /\ ~(removed /\ Whole) /\ rec \in Record /\ Home \in Path
      /\ \A r \in Request : req[r].at # "unlink"
      /\ Whole => \/ durable = {} /\ filesOn(disk) = {} /\ pathById = None
                  \/ durable # {} /\ Current /\ pathById \in Path
    BY <1>1, Writing, PathAssumption
<1> HIDE DEF rec
<1>3. /\ disk' \in [Path -> Record \cup {NoFile}]
      /\ filesOn(disk') = filesOn(disk) \cup {Home} /\ disk'[Home] = rec
      /\ \A q \in filesOn(disk) \ {Home} : disk'[q] = disk[q]
    <2>1. disk \in [Path -> Record \cup {NoFile}] /\ rec # NoFile
        BY <1>2, Known, ValuesAssumption DEF TypeOK
    <2>2. disk' \in [Path -> Record \cup {NoFile}]
        BY <1>1, <1>2, <2>1
    <2>3. \A q \in Path : disk'[q] = IF q = Home THEN rec ELSE disk[q]
        BY <1>1, <2>1
    <2>4. QED
        BY <1>2, <2>1, <2>2, <2>3 DEF filesOn
<1>4. Whole' = Whole /\ used' \in [Bound -> Nat]
    BY <1>1, Known DEF Whole
<1>5. \A p \in filesOn(disk) \cup {Home} : p \in Int
    BY PathAssumption DEF filesOn, Path
<1>6. pathsById \subseteq Path /\ (Whole => filesOn(disk) \subseteq pathsById)
    BY <1>2, Known DEF IInv, Kept, Indexed, TypeOK
<1>7. CASE pathById \in {None, Home}
    <2>1. CommitRecord(pathsById \cup {Home})
        BY <1>7 DEF FileReplaced
    <2>2. pathsById \cup {Home} \in SUBSET Path
        BY <1>2, <1>6
    <2>3. Whole => \A p \in filesOn(disk) : p <= Home
        <3>1. None \notin Path
            BY ValuesAssumption
        <3>2. QED
            BY <1>1, <1>2, <1>7, <3>1 DEF Current
    <2>4. Whole' => /\ Whole /\ filesOn(disk') \subseteq pathsById \cup {Home}
                    /\ Home \in filesOn(disk') /\ disk'[Home] = rec
                    /\ \A p \in filesOn(disk') : p <= Home
        BY <1>3, <1>4, <1>5, <1>6, <2>3
    <2>5. QED
        BY <1>1, <1>3, <1>4, <2>1, <2>2, <2>4, Commits DEF rec
<1>8. CASE pathById \notin {None, Home}
    <2>1. /\ phase' = "renamed" /\ pathsById' = pathsById \cup {Home}
          /\ durable' = durable \cup {rec}
          /\ cache' = cache /\ pathById' = pathById /\ chain' = chain /\ waitq' = waitq /\ req' = req
        BY <1>8 DEF FileReplaced, rec
    <2>2. /\ deleting' = deleting /\ broken' = broken /\ live' = live /\ born' = born /\ status' = status /\ reporter' = reporter
          /\ up' = up /\ removed' = removed /\ used' = used
        BY <1>1 DEF agent
    <2>3. Whole => /\ durable # {} /\ pathById \in filesOn(disk) /\ pathById # Home
                   /\ disk[pathById] \in durable /\ \A p \in filesOn(disk) : p <= pathById
        BY <1>1, <1>2, <1>8 DEF Current
    <2>4. TypeOK'
        <3>1. disk' \in [Path -> Record \cup {NoFile}]
            BY <1>3
        <3>2. pathsById' \subseteq Path /\ durable' \subseteq Record
            BY <1>2, <2>1, Known DEF TypeOK
        <3>3. QED
            BY <2>1, <2>2, <3>1, <3>2 DEF IInv, TypeOK
    <2>5. Running' /\ Down' /\ Fence' /\ Draining' /\ Indexed' /\ Gone'
        <3>1. Running' /\ Down' /\ Fence' /\ Gone'
            BY <1>1, <1>2, <1>4, <2>1, <2>2 DEF IInv, Kept, Running, Down, Fence, Gone
        <3>2. Draining'
            BY <1>1, <1>2, <2>1 DEF IInv, Kept, Draining
        <3>3. Indexed'
            BY <1>3, <1>4, <1>6, <2>1 DEF Indexed
        <3>4. QED
            BY <3>1, <3>2, <3>3
    <2>6. OneAbove' /\ Unstored'
        BY <1>3, <1>4, <1>5, <2>1, <2>2 DEF IInv, Kept, OneAbove, Unstored
    <2>7. Whole => Current'
        BY <1>3, <1>5, <2>1, <2>3 DEF Current, rec
    <2>8. Whole => loadedRecord(disk') \in durable'
        <3>1. CASE Whole /\ Home <= pathById
            <4>1. pathById \in filesOn(disk') /\ \A q \in filesOn(disk') : q <= pathById
                BY <1>3, <2>3, <3>1
            <4>2. loadedRecord(disk') = disk'[pathById]
                BY <1>3, <4>1, LoadsLast
            <4>3. QED
                BY <1>3, <2>1, <2>3, <3>1, <4>2
        <3>2. CASE Whole /\ ~(Home <= pathById)
            <4>1. Home \in filesOn(disk') /\ \A q \in filesOn(disk') : q <= Home
                BY <1>3, <1>5, <2>3, <3>2
            <4>2. loadedRecord(disk') = rec
                BY <1>3, <4>1, LoadsLast
            <4>3. QED
                BY <2>1, <4>2
        <3>3. QED
            BY <3>1, <3>2
    <2>9. Stored'
        BY <1>4, <2>7, <2>8 DEF Stored
    <2>10. QED
        BY <2>4, <2>5, <2>6, <2>9 DEF IInv, Kept
<1>9. QED
    BY <1>7, <1>8

LEMMA PreviousUnlinkedKeeps == IInv /\ PreviousUnlinked => IInv'
<1> SUFFICES ASSUME IInv, PreviousUnlinked
             PROVE  IInv'
    OBVIOUS
<1>1. /\ chain # <<>> /\ phase = "renamed" /\ CommitRecord(pathsById \ {pathById})
      /\ UNCHANGED <<deleting, broken, agent, up, removed, reporter>>
    BY DEF PreviousUnlinked
<1>2. up /\ (Whole => durable # {} /\ Current /\ pathById \in Path)
    BY <1>1, Writing
<1>3. pathsById \ {pathById} \in SUBSET Path /\ (Whole => filesOn(disk) \subseteq pathsById)
    BY <1>2, Known DEF IInv, Kept, Indexed, TypeOK
<1>4. CASE disk' = [disk EXCEPT ![pathById] = NoFile] /\ used' = used
    <2>1. /\ disk' \in [Path -> Record \cup {NoFile}]
          /\ pathById \in Path => filesOn(disk') = filesOn(disk) \ {pathById}
          /\ \A q \in filesOn(disk') : disk'[q] = disk[q]
        BY <1>4, Known, FileGone
    <2>2. Whole' = Whole /\ used' \in [Bound -> Nat]
        BY <1>4, Known DEF Whole
    <2>3. \A p \in filesOn(disk) : p \in Int
        BY DEF filesOn, Path
    <2>4. Home \in Path /\ Home \in Int
        BY PathAssumption DEF Path
    <2>5. Whole => durable # {} /\ Current /\ pathById \in Path
        BY <1>2
    <2>6. Whole => /\ pathById # Home /\ disk[Home] = Head(chain).rec /\ pathById \in filesOn(disk)
                   /\ \A p \in filesOn(disk) : p <= pathById \/ p <= Home
        BY <1>1, <2>5 DEF Current
    <2>7. Whole => Home \in filesOn(disk)
        BY <1>1, <2>4, <2>6, Writing, ValuesAssumption DEF filesOn
    <2>8. ASSUME Whole, NEW p \in filesOn(disk')
          PROVE  p <= Home
        <3>1. p \in filesOn(disk) /\ p # pathById
            BY <2>1, <2>5, <2>8
        <3>2. CASE pathById > Home
            BY <2>3, <2>4, <2>6, <2>8, <3>1, <3>2 DEF IInv, Kept, OneAbove
        <3>3. CASE ~(pathById > Home)
            BY <2>3, <2>4, <2>6, <2>8, <3>1, <3>3
        <3>4. QED
            BY <3>2, <3>3
    <2>9. Whole' => /\ Whole /\ filesOn(disk') \subseteq pathsById \ {pathById}
                    /\ Home \in filesOn(disk') /\ disk'[Home] = Head(chain).rec
                    /\ \A p \in filesOn(disk') : p <= Home
        BY <1>3, <2>1, <2>2, <2>5, <2>6, <2>7, <2>8
    <2>10. QED
        BY <1>1, <1>3, <2>1, <2>2, <2>9, Commits
<1>5. CASE spend("unlinks", MaxUnlinkFailures) /\ disk' = disk
    <2>1. used' \in [Bound -> Nat] /\ ~Whole'
        BY <1>5, Known, Spent DEF Bound
    <2>2. disk' \in [Path -> Record \cup {NoFile}]
        BY <1>5, Known DEF TypeOK
    <2>3. QED
        BY <1>1, <1>3, <2>1, <2>2, Commits
<1>6. QED
    BY <1>4, <1>5 DEF PreviousUnlinked

LEMMA CrashKeeps == IInv /\ Crash => IInv'
<1> SUFFICES ASSUME IInv, Crash
             PROVE  IInv'
    OBVIOUS
<1>1. /\ spend("crashes", MaxCrashes) /\ up' = FALSE
      /\ cache' = None /\ pathById' = None /\ pathsById' = {} /\ deleting' = FALSE
      /\ chain' = <<>> /\ phase' = "queued" /\ broken' = FALSE /\ waitq' = <<>>
      /\ live' = 0 /\ born' = 0 /\ status' = [a \in Object |-> "idle"] /\ reporter' = 0
      /\ req' = [r \in Request |-> idleReq]
      /\ disk' = disk /\ durable' = durable /\ removed' = removed
    BY DEF Crash, history
<1>2. used' \in [Bound -> Nat] /\ Whole' = Whole
    BY <1>1, Known, Spent DEF Bound, Whole
<1>3. /\ req' \in [Request -> ReqState]
      /\ \A r \in Request : req'[r].at = "idle" /\ req'[r].op = "none"
    BY <1>1, IdleCall
<1>4. Quiet'
    BY <1>1, <1>3 DEF Quiet
<1>5. TypeOK'
    <2>1. /\ chain' \in Seq(Write) /\ waitq' \in Seq(Waiting)
          /\ status' \in [Object -> Status \ {"closed"}] /\ pathsById' \subseteq Path
        BY <1>1 DEF Status
    <2>2. /\ disk' \in [Path -> Record \cup {NoFile}] /\ durable' \subseteq Record
          /\ removed' \in BOOLEAN
        BY <1>1, Known DEF TypeOK
    <2>3. QED
        BY <1>1, <1>2, <1>3, <2>1, <2>2 DEF TypeOK, Bound
<1>6. Running' /\ Down' /\ Draining' /\ Indexed' /\ Unstored'
    BY <1>1, <1>3, <1>4 DEF Running, Down, Draining, Indexed, Unstored
<1>7. Fence'
    BY <1>1, <1>3 DEF Fence, NoFlush
<1>8. Gone' /\ OneAbove' /\ Stored'
    BY <1>1, <1>2, <1>4 DEF IInv, Kept, Gone, OneAbove, Stored
<1>9. QED
    BY <1>5, <1>6, <1>7, <1>8 DEF IInv, Kept

(* What the scan finds is in the index, and its last file is the record. *)
LEMMA Scanned ==
    ASSUME NEW d \in [Path -> Record \cup {NoFile}],
           NEW c, NEW p, NEW kept, c = loadedRecord(d), p = lastFile(d), kept = {c} \ {None}
    PROVE  /\ c \in Record \cup {None} /\ p \in Path \cup {None} /\ kept \subseteq Record
           /\ filesOn(d) \subseteq Path
           /\ filesOn(d) = {} => c = None /\ p = None
           /\ kept = {} => filesOn(d) = {} /\ p = None
           /\ kept # {} => /\ c \in kept /\ p \in filesOn(d) /\ d[p] \in kept
                           /\ \A q \in filesOn(d) : q <= p
<1>1. None \notin Record
    BY ValuesAssumption
<1>2. CASE filesOn(d) = {}
    BY <1>1, <1>2, Loading
<1>3. CASE filesOn(d) # {}
    BY <1>1, <1>3, Loading
<1>4. QED
    BY <1>2, <1>3

LEMMA LoadsKeeps == IInv /\ Loads => IInv'
<1> SUFFICES ASSUME IInv, Loads
             PROVE  IInv'
    OBVIOUS
<1>1. /\ ~up /\ up' = TRUE
      /\ cache' = loadedRecord(disk) /\ pathById' = lastFile(disk) /\ pathsById' = filesOn(disk)
      /\ durable' = {cache'} \ {None}
      /\ UNCHANGED <<disk, deleting, writes, waitq, agent, req, removed, reporter, used>>
    BY DEF Loads
<1>2. /\ chain' = chain /\ phase' = phase /\ broken' = broken /\ live' = live /\ born' = born /\ status' = status /\ reporter' = reporter
      /\ Whole' = Whole
    BY <1>1 DEF writes, agent, Whole
<1>3. Quiet /\ ~deleting /\ phase = "queued"
    BY <1>1 DEF IInv, Kept, Down, Running, Quiet
<1>4. /\ cache' \in Record \cup {None} /\ pathById' \in Path \cup {None}
      /\ durable' \subseteq Record /\ filesOn(disk) \subseteq Path
      /\ filesOn(disk) = {} => cache' = None /\ pathById' = None
      /\ durable' = {} => filesOn(disk) = {} /\ pathById' = None
      /\ durable' # {} => /\ cache' \in durable' /\ pathById' \in filesOn(disk)
                          /\ disk[pathById'] \in durable'
                          /\ \A q \in filesOn(disk) : q <= pathById'
    <2>1. PICK c, p, k : c = cache' /\ p = pathById' /\ k = durable'
        OBVIOUS
    <2>2. c = loadedRecord(disk) /\ p = lastFile(disk) /\ k = {c} \ {None}
        BY <1>1, <2>1
    <2>3. disk \in [Path -> Record \cup {NoFile}]
        BY DEF IInv, TypeOK
    <2>4. /\ c \in Record \cup {None} /\ p \in Path \cup {None} /\ k \subseteq Record
          /\ filesOn(disk) \subseteq Path
          /\ filesOn(disk) = {} => c = None /\ p = None
          /\ k = {} => filesOn(disk) = {} /\ p = None
          /\ k # {} => /\ c \in k /\ p \in filesOn(disk) /\ disk[p] \in k
                       /\ \A q \in filesOn(disk) : q <= p
        BY <2>2, <2>3, Scanned
    <2>5. QED
        BY <2>1, <2>4
<1>5. TypeOK'
    BY <1>1, <1>2, <1>4 DEF IInv, TypeOK
<1>6. Running' /\ Down' /\ Fence' /\ Indexed' /\ OneAbove'
    BY <1>1, <1>2 DEF IInv, Kept, Running, Down, Fence, Indexed, OneAbove
<1>7. Draining' /\ Unstored'
    BY <1>1, <1>2, <1>3, <1>4 DEF Draining, Unstored, Quiet
<1>8. Gone'
    BY <1>1, <1>2, <1>3, <1>4 DEF IInv, Kept, Gone, Quiet
<1>9. Stored'
    BY <1>1, <1>2, <1>3, <1>4 DEF Stored, Current
<1>10. QED
    BY <1>5, <1>6, <1>7, <1>8, <1>9 DEF IInv, Kept

LEMMA InitKeeps == Init => IInv
<1> SUFFICES ASSUME Init
             PROVE  IInv
    OBVIOUS
<1>1. /\ cache = loadedRecord(disk) /\ pathById = lastFile(disk) /\ pathsById = filesOn(disk)
      /\ deleting = FALSE /\ chain = <<>> /\ phase = "queued" /\ broken = FALSE /\ waitq = <<>>
      /\ live \in {0, 1} /\ born = live /\ status = [a \in Object |-> "idle"] /\ reporter = live
      /\ req = [r \in Request |-> idleReq] /\ up = TRUE
      /\ durable = {cache} \ {None} /\ removed = FALSE /\ used = [b \in Bound |-> 0]
    BY DEF Init, Bound
<1>2. PICK F \in SUBSET Path, rec \in Record :
        /\ disk = [p \in Path |-> IF p \in F THEN rec ELSE NoFile]
        /\ \A p, q \in F : p > Home /\ q > Home => p = q
    <2>1. CASE \E F \in InitialFiles, rec \in earlierRecords :
                 disk = [p \in Path |-> IF p \in F THEN rec ELSE NoFile]
        BY <2>1, FilesAssumption DEF earlierRecords
    <2>2. CASE disk = [p \in Path |-> IF p = Home THEN registeredRecord ELSE NoFile]
        <3>1. registeredRecord \in Record
            BY DEF registeredRecord, Record, Status
        <3>2. disk = [p \in Path |-> IF p \in {Home} THEN registeredRecord ELSE NoFile]
            BY <2>2
        <3>3. {Home} \in SUBSET Path /\ \A p, q \in {Home} : p > Home /\ q > Home => p = q
            BY PathAssumption
        <3>4. PICK F, rec : F = {Home} /\ rec = registeredRecord
            OBVIOUS
        <3>5. F \in SUBSET Path /\ rec \in Record
            BY <3>1, <3>3, <3>4
        <3>6. QED
            BY <3>2, <3>3, <3>4, <3>5
    <2>3. QED
        BY <2>1, <2>2 DEF Init
<1>3. disk \in [Path -> Record \cup {NoFile}] /\ filesOn(disk) = F
    <2>1. rec \in Record /\ rec # NoFile /\ F \subseteq Path
        BY ValuesAssumption
    <2>2. QED
        BY <1>2, <2>1 DEF filesOn
<1>4. /\ cache \in Record \cup {None} /\ pathById \in Path \cup {None}
      /\ durable \subseteq Record /\ filesOn(disk) \subseteq Path
      /\ durable = {} => filesOn(disk) = {} /\ pathById = None
      /\ durable # {} => /\ cache \in durable /\ pathById \in filesOn(disk)
                         /\ disk[pathById] \in durable
                         /\ \A q \in filesOn(disk) : q <= pathById
    BY <1>1, <1>3, Scanned
<1>5. /\ req \in [Request -> ReqState]
      /\ \A r \in Request : req[r].at = "idle" /\ req[r].op = "none"
    BY <1>1, IdleCall
<1>6. TypeOK
    <2>1. /\ chain \in Seq(Write) /\ waitq \in Seq(Waiting)
          /\ status \in [Object -> Status \ {"closed"}] /\ used \in [Bound -> Nat]
          /\ live \in Object \cup {0}
        BY <1>1, BoundsAssumption DEF Status, Object
    <2>2. QED
        BY <1>1, <1>3, <1>4, <1>5, <2>1 DEF TypeOK, Bound
<1>7. Running /\ Down /\ Draining /\ Indexed /\ Gone
    BY <1>1, <1>5 DEF Running, Down, Draining, Indexed, Gone
<1>8. Fence
    BY <1>1, <1>5 DEF Fence, NoFlush
<1>9. OneAbove
    BY <1>2, <1>3 DEF OneAbove
<1>10. Unstored /\ Stored
    BY <1>1, <1>4 DEF Unstored, Stored, Current
<1>11. QED
    BY <1>6, <1>7, <1>8, <1>9, <1>10 DEF IInv, Kept

LEMMA NextKeeps == IInv /\ [Next]_vars => IInv'
<1> SUFFICES ASSUME IInv, [Next]_vars
             PROVE  IInv'
    OBVIOUS
<1>1. CASE UNCHANGED vars
    <2>1. /\ disk' = disk /\ cache' = cache /\ pathById' = pathById /\ pathsById' = pathsById
          /\ deleting' = deleting /\ chain' = chain /\ phase' = phase /\ broken' = broken
          /\ waitq' = waitq /\ live' = live /\ born' = born /\ status' = status /\ reporter' = reporter /\ req' = req /\ up' = up
          /\ durable' = durable /\ removed' = removed /\ used' = used
        BY <1>1 DEF vars, memory, writes, agent, history
    <2>2. TypeOK'
        BY <2>1 DEF IInv, TypeOK
    <2>3. Running' /\ Down' /\ Fence' /\ Draining' /\ Indexed'
        BY <2>1 DEF IInv, Kept, Running, Down, Quiet, Fence, Draining, Indexed, Whole
    <2>4. Gone' /\ OneAbove' /\ Unstored' /\ Stored'
        BY <2>1 DEF IInv, Kept, Gone, Quiet, OneAbove, Unstored, Stored, Current, Whole
    <2>5. QED
        BY <2>2, <2>3, <2>4 DEF IInv, Kept
<1>2. CASE StorageStep \/ WriteFails \/ LifecycleChanges \/ LateChange \/ Crash \/ Loads
    BY <1>2, ApplySnapshotKeeps, WriteStartsKeeps, FileReplacedKeeps, PreviousUnlinkedKeeps,
       WriteFailsKeeps, LifecycleChangesKeeps, LateChangeKeeps, CrashKeeps, LoadsKeeps DEF StorageStep
<1>3. ASSUME NEW r \in Request, CallStarts(r)
      PROVE  IInv'
    BY <1>3, RegisterStartsKeeps, SetTitleStartsKeeps, ArchiveStartsKeeps, UnarchiveStartsKeeps,
       DeleteStartsKeeps DEF CallStarts
<1>4. ASSUME NEW r \in Request, CallGoesOn(r)
      PROVE  IInv'
    BY <1>4, RegisterGoesOnKeeps, SetTitleGoesOnKeeps, ArchiveGoesOnKeeps, UnarchiveGoesOnKeeps,
       SessionClosedKeeps, FlushedKeeps, DrainedKeeps, RecordUnlinkedKeeps, RemoveReturnsKeeps
       DEF CallGoesOn
<1>5. QED
    BY <1>1, <1>2, <1>3, <1>4 DEF Next

-----------------------------------------------------------------------------
(* The theorems. *)

(* The inductive invariant holds in every state of the storage of an agent. *)
THEOREM StorageInvariant == Spec => []IInv
<1>1. Init => IInv
    BY InitKeeps
<1>2. IInv /\ [Next]_vars => IInv'
    BY NextKeeps
<1>3. QED
    BY <1>1, <1>2, PTL DEF Spec

(* Type correctness of AgentStorage: its maps, chain, waiting snapshots and client calls. *)
THEOREM StorageType == Spec => []TypeOK
<1>1. IInv => TypeOK
    BY DEF IInv
<1>2. QED
    BY <1>1, StorageInvariant, PTL

(* Unless an unlink failed, no snapshot, title or archive flag that was queued when remove()       *)
(* returned brings a file of the agent back, before or after a restart.                            *)
THEOREM StorageRemovedStaysRemoved == Spec => []RemovedStaysRemoved
<1>1. IInv => RemovedStaysRemoved
    BY DEF IInv, Kept, Gone, Whole, RemovedStaysRemoved
<1>2. QED
    BY <1>1, StorageInvariant, PTL

(* Unless an unlink failed, a restart at any moment loads the record that was acknowledged last or *)
(* the one being written, however many places the files of the agent are at.                       *)
THEOREM StorageRestartLoadsAcked == Spec => []RestartLoadsAcked
<1>1. IInv => RestartLoadsAcked
    BY DEF IInv, Kept, Stored, Whole, RestartLoadsAcked
<1>2. QED
    BY <1>1, StorageInvariant, PTL

=============================================================================
