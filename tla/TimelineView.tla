------------------------------ MODULE TimelineView ------------------------------
(***************************************************************************)
(* What an agent's timeline promises to a client that displays it.         *)
(*                                                                         *)
(* The daemon keeps one log of rows per epoch; rows are only added, and    *)
(* only to the log of the newest epoch.  A client displays a segment of    *)
(* one log: no row is missing in the middle of it, displayed twice or out  *)
(* of order.  The segment may grow at either end and may be replaced by    *)
(* another that is not older.  It is given up only for a newer epoch.      *)
(***************************************************************************)
EXTENDS Integers, Sequences

VARIABLES len,          \* len[e]: number of rows in the log of epoch e
          view          \* the rows displayed, each [epoch, seq]

vars == <<len, view>>

Segment(e, first, last) ==
    [i \in 1..(last - first + 1) |-> [epoch |-> e, seq |-> first + i - 1]]

Segments ==
    {<<>>} \cup UNION {{Segment(e, i, j) : i \in 1..len[e], j \in 1..len[e]} : e \in DOMAIN len}

(* w may be displayed in the place of v. *)
NotOlder(w, v) ==
    \/ v = <<>>
    \/ w = <<>> /\ v[1].epoch < Len(len)
    \/ w # <<>> /\ w[1].epoch > v[1].epoch
    \/ w # <<>> /\ w[1].epoch = v[1].epoch /\ w[Len(w)].seq >= v[Len(v)].seq

Init == len \in Seq(Nat) /\ view = <<>>

RowAdded ==
    /\ len # <<>>
    /\ len' = [len EXCEPT ![Len(len)] = @ + 1]
    /\ UNCHANGED view

NewEpoch ==
    /\ len' = Append(len, 0)
    /\ UNCHANGED view

Display ==
    /\ view' \in Segments
    /\ NotOlder(view', view)
    /\ UNCHANGED len

Next == RowAdded \/ NewEpoch \/ Display

Spec == Init /\ [][Next]_vars
=============================================================================
