-------------------------- MODULE AgentTimeline_proofs --------------------------
(***************************************************************************)
(* Theorems about AgentTimeline for any rows, epochs, page size, kinds of  *)
(* rows and happenings, and its refinement of TimelineView.                *)
(***************************************************************************)
EXTENDS AgentTimeline, SequenceTheorems, NaturalsInduction, WellFoundedInduction, TLAPS

-----------------------------------------------------------------------------
(* Natural numbers: the least one of a set, and a set that holds all up to n. *)
LessThan == OpToRel(<, Nat)

LEMMA LessThanPairs == LessThan = {x \in Nat \X Nat : x[1] < x[2]}
BY SMT DEF LessThan, OpToRel

LEMMA LessThanWellFounded == IsWellFoundedOn(LessThan, Nat)
BY NatLessThanWellFounded DEF LessThan

LEMMA LeastNatural ==
    ASSUME NEW T, T \subseteq Nat, T # {}
    PROVE  \E n \in T : \A m \in T : n <= m
<1>1. PICK n \in T : \A m \in T : ~ (<<m, n>> \in LessThan)
    BY LessThanWellFounded, WFMin
<1>2. ASSUME NEW m \in T
      PROVE  n <= m
    <2>1. ~ (m < n)
        BY <1>1, LessThanPairs
    <2>2. QED
        BY <2>1
<1>3. QED
    BY <1>2

LEMMA Counting ==
    ASSUME NEW n \in Nat, NEW S, 0 \in S, \A i \in 0..(n - 1) : i \in S => i + 1 \in S
    PROVE  \A i \in 0..n : i \in S
<1> DEFINE T == {i \in 0..n : i \notin S}
<1>1. T \subseteq Nat /\ 0 \notin T
    OBVIOUS
<1>2. ASSUME T # {}
      PROVE  FALSE
    <2> HIDE DEF T
    <2>1. PICK k \in T : \A m \in T : k <= m
        BY <1>1, <1>2, LeastNatural
    <2> USE DEF T
    <2>2. k \in 1..n /\ k - 1 \in 0..(n - 1)
        BY <2>1, <1>1
    <2>3. k - 1 \notin T
        BY <2>1, <2>2
    <2>4. k - 1 \in S
        BY <2>2, <2>3
    <2>5. k \in S
        BY <2>2, <2>4
    <2>6. QED
        BY <2>1, <2>5
<1>3. QED
    BY <1>2

LEMMA Largest ==
    ASSUME NEW n \in Nat, NEW S, S \subseteq 0..n, S # {}
    PROVE  Max(S) \in S
<1> DEFINE T == {n - x : x \in S}
<1>1. T \subseteq Nat
    <2>1. \A x \in S : n - x \in Nat
        OBVIOUS
    <2>2. QED
        BY <2>1
<1>2. PICK k \in T : \A m \in T : k <= m
    <2>1. T # {}
        BY Zenon
    <2> HIDE DEF T
    <2>2. QED
        BY <1>1, <2>1, LeastNatural
<1>3. PICK x \in S : k = n - x
    BY <1>2
<1>4. \A y \in S : x >= y
    <2> TAKE y \in S
    <2>1. n - y \in T
        OBVIOUS
    <2>2. k <= n - y
        BY <1>2, <2>1
    <2>3. QED
        BY <1>3, <2>2
<1>5. QED
    BY <1>3, <1>4 DEF Max

LEMMA SmallerOfTwo ==
    ASSUME NEW a \in Int, NEW b \in Int
    PROVE  Min({a, b}) = IF a <= b THEN a ELSE b
<1> DEFINE x == IF a <= b THEN a ELSE b
<1>1. x \in {a, b} /\ \A y \in {a, b} : x <= y
    OBVIOUS
<1>2. \A z \in {a, b} : (\A y \in {a, b} : z <= y) => z = x
    BY <1>1
<1>3. QED
    BY <1>1, <1>2 DEF Min

LEMMA LargerOfTwo ==
    ASSUME NEW a \in Int, NEW b \in Int
    PROVE  Max({a, b}) = IF a >= b THEN a ELSE b
<1> DEFINE x == IF a >= b THEN a ELSE b
<1>1. x \in {a, b} /\ \A y \in {a, b} : x >= y
    OBVIOUS
<1>2. \A z \in {a, b} : (\A y \in {a, b} : z >= y) => z = x
    BY <1>1
<1>3. QED
    BY <1>1, <1>2 DEF Max

(* A function defined by recursion over 0..n exists. *)
StepsIn(St, n, G) == \A i \in 1..n, x \in St : G[<<i, x>>] \in St
Recurs(F, n, b, G) == F = [i \in 0..n |-> IF i = 0 THEN b ELSE G[<<i, F[i - 1]>>]]

LEMMA Recursion ==
    ASSUME NEW n \in Nat, NEW St, NEW b \in St, NEW G, StepsIn(St, n, G)
    PROVE  \E F \in [0..n -> St] : Recurs(F, n, b, G)
<1> USE DEF StepsIn, Recurs
<1> DEFINE Follows(F, k) == F[0] = b /\ \A i \in 1..k : F[i] = G[<<i, F[i - 1]>>]
           S == {k \in 0..n : \E F \in [0..k -> St] : Follows(F, k)}
<1>1. 0 \in S
    <2> DEFINE F == [i \in 0..0 |-> b]
    <2>1. F \in [0..0 -> St] /\ F[0] = b
        OBVIOUS
    <2>2. Follows(F, 0)
        <3> HIDE DEF F
        <3>1. 1..0 = {}
            OBVIOUS
        <3>2. QED
            BY <2>1, <3>1
    <2>3. 0 \in 0..n
        OBVIOUS
    <2> HIDE DEF F, Follows
    <2>4. QED
        BY <2>1, <2>2, <2>3
<1>2. ASSUME NEW k \in 0..(n - 1), k \in S
      PROVE  k + 1 \in S
    <2>1. PICK F \in [0..k -> St] : Follows(F, k)
        BY <1>2
    <2> DEFINE H == [i \in 0..(k + 1) |-> IF i <= k THEN F[i] ELSE G[<<k + 1, F[k]>>]]
    <2>2. F[k] \in St /\ G[<<k + 1, F[k]>>] \in St
        BY <2>1
    <2>3. H \in [0..(k + 1) -> St]
        BY <2>1, <2>2
    <2>4. H[0] = b
        BY <2>1
    <2>5. ASSUME NEW i \in 1..(k + 1)
          PROVE  H[i] = G[<<i, H[i - 1]>>]
        <3>1. CASE i \in 1..k
            <4>1. H[i] = F[i] /\ H[i - 1] = F[i - 1]
                BY <3>1
            <4>2. QED
                BY <2>1, <3>1, <4>1
        <3>2. CASE i = k + 1
            <4>1. H[i] = G[<<k + 1, F[k]>>] /\ H[i - 1] = F[k]
                BY <3>2
            <4>2. QED
                BY <3>2, <4>1
        <3>3. QED
            BY <3>1, <3>2
    <2> HIDE DEF H
    <2>6. QED
        BY <1>2, <2>3, <2>4, <2>5
<1>3. n \in S
    <2> HIDE DEF S
    <2>1. \A i \in 0..n : i \in S
        BY <1>1, <1>2, Counting
    <2>2. QED
        BY <2>1
<1>4. PICK F \in [0..n -> St] : Follows(F, n)
    BY <1>3
<1>5. F = [i \in 0..n |-> F[i]]
    OBVIOUS
<1>6. \A i \in 0..n : F[i] = IF i = 0 THEN b ELSE G[<<i, F[i - 1]>>]
    BY <1>4
<1>7. [i \in 0..n |-> F[i]] = [i \in 0..n |-> IF i = 0 THEN b ELSE G[<<i, F[i - 1]>>]]
    BY <1>6, Zenon
<1>8. QED
    BY <1>5, <1>7

-----------------------------------------------------------------------------
(* The rows displayed that are not of an old head. *)
LEMMA RowsAssociate ==
    ASSUME NEW s \in Seq(Row), NEW t \in Seq(Row), NEW u \in Seq(Row)
    PROVE  (s \o t) \o u = s \o (t \o u)
BY ConcatAssociative, SMTT(30)

LEMMA AppendAfter ==
    ASSUME NEW s \in Seq(Row), NEW t \in Seq(Row), NEW row \in Row
    PROVE  Append(s \o t, row) = s \o Append(t, row)
<1>1. PICK u : u = <<row>>
    OBVIOUS
<1>2. u \in Seq(Row) /\ s \o t \in Seq(Row)
    BY <1>1, ConcatProperties
<1>3. Append(s \o t, row) = (s \o t) \o u /\ Append(t, row) = t \o u
    BY <1>1, <1>2, AppendIsConcat
<1>4. QED
    BY <1>2, <1>3, RowsAssociate, SMTT(30)

LEMMA UnkeptIs ==
    ASSUME NEW s \in Seq(Row)
    PROVE  /\ unkept(s) \in [0..Len(s) -> Seq(Row)]
           /\ unkept(s)[0] = <<>>
           /\ \A i \in 1..Len(s) :
                unkept(s)[i] = IF s[i].kept THEN unkept(s)[i - 1]
                               ELSE Append(unkept(s)[i - 1], s[i])
<1> DEFINE n == Len(s)
           St == Seq(Row)
           G == [p \in (1..n) \X St |-> IF s[p[1]].kept THEN p[2] ELSE Append(p[2], s[p[1]])]
<1>1. n \in Nat /\ <<>> \in St
    OBVIOUS
<1>2. \A i \in 1..n, x \in St :
         G[<<i, x>>] = (IF s[i].kept THEN x ELSE Append(x, s[i])) /\ G[<<i, x>>] \in St
    <2> TAKE i \in 1..n, x \in St
    <2>1. s[i] \in Row /\ x \in Seq(Row)
        OBVIOUS
    <2>2. Append(x, s[i]) \in Seq(Row)
        BY <2>1
    <2>3. <<i, x>> \in (1..n) \X St /\ <<i, x>>[1] = i /\ <<i, x>>[2] = x
        BY Zenon
    <2>4. G[<<i, x>>] = IF s[i].kept THEN x ELSE Append(x, s[i])
        <3> HIDE DEF n, St
        <3>1. QED
            BY <2>3
    <2>5. QED
        BY <2>1, <2>2, <2>4
<1> HIDE DEF n, St, G
<1>3. PICK F \in [0..n -> St] : Recurs(F, n, <<>>, G)
    <2>1. StepsIn(St, n, G)
        BY <1>2 DEF StepsIn
    <2>2. QED
        BY <1>1, <2>1, Recursion
<1>4. \A i \in 0..n : (IF i = 0 THEN <<>> ELSE G[<<i, F[i - 1]>>])
                        = IF i = 0 THEN <<>> ELSE IF s[i].kept THEN F[i - 1] ELSE Append(F[i - 1], s[i])
    <2> SUFFICES ASSUME NEW i \in 0..n, i # 0
                 PROVE  G[<<i, F[i - 1]>>] = IF s[i].kept THEN F[i - 1] ELSE Append(F[i - 1], s[i])
        BY Zenon
    <2>1. i \in 1..n /\ F[i - 1] \in St
        BY <1>1, <1>3
    <2>2. QED
        BY <1>2, <2>1
<1>5. F = [i \in 0..n |-> IF i = 0 THEN <<>>
                          ELSE IF s[i].kept THEN F[i - 1] ELSE Append(F[i - 1], s[i])]
    BY <1>3, <1>4, ZenonT(30) DEF Recurs
<1>6. unkept(s) = [i \in 0..n |-> IF i = 0 THEN <<>>
                                  ELSE IF s[i].kept THEN unkept(s)[i - 1]
                                       ELSE Append(unkept(s)[i - 1], s[i])]
    BY <1>5 DEF unkept, n
<1>7. /\ unkept(s)[0] = <<>>
      /\ \A i \in 1..n : unkept(s)[i] = IF s[i].kept THEN unkept(s)[i - 1]
                                        ELSE Append(unkept(s)[i - 1], s[i])
    <2> DEFINE u == unkept(s)
    <2> HIDE DEF u
    <2>1. u = [i \in 0..n |-> IF i = 0 THEN <<>>
                              ELSE IF s[i].kept THEN u[i - 1] ELSE Append(u[i - 1], s[i])]
        BY <1>6 DEF u
    <2>2. \A i \in 0..n : u[i] = IF i = 0 THEN <<>>
                                 ELSE IF s[i].kept THEN u[i - 1] ELSE Append(u[i - 1], s[i])
        BY <2>1, Zenon
    <2>3. 0 \in 0..n /\ \A i \in 1..n : i \in 0..n /\ i # 0
        BY <1>1
    <2>4. u[0] = <<>> /\ \A i \in 1..n : u[i] = IF s[i].kept THEN u[i - 1] ELSE Append(u[i - 1], s[i])
        BY <2>2, <2>3, Zenon
    <2>5. QED
        BY <2>4 DEF u
<1>8. \A i \in 0..n : i \in {j \in 0..n : unkept(s)[j] \in St}
    <2> DEFINE S == {j \in 0..n : unkept(s)[j] \in St}
    <2>1. 0 \in S
        BY <1>1, <1>7
    <2>2. \A i \in 0..(n - 1) : i \in S => i + 1 \in S
        <3> SUFFICES ASSUME NEW i \in 0..(n - 1), unkept(s)[i] \in St
                     PROVE  unkept(s)[i + 1] \in St
            BY <1>1
        <3>1. i + 1 \in 1..n /\ (i + 1) - 1 = i
            BY <1>1
        <3>2. s[i + 1] \in Row
            BY <3>1 DEF n
        <3>3. Append(unkept(s)[i], s[i + 1]) \in St
            BY <3>2 DEF St
        <3>4. QED
            BY <1>7, <3>1, <3>3
    <2> HIDE DEF S
    <2>3. \A i \in 0..n : i \in S
        BY <1>1, <2>1, <2>2, Counting
    <2>4. QED
        BY <2>3 DEF S
<1>9. unkept(s) \in [0..n -> St]
    <2> DEFINE u == unkept(s)
    <2>1. \A i \in 0..n : u[i] \in St
        BY <1>8
    <2>2. u = [i \in 0..n |-> u[i]]
        <3> HIDE DEF u
        <3>1. u = [i \in 0..n |-> IF i = 0 THEN <<>>
                                  ELSE IF s[i].kept THEN u[i - 1] ELSE Append(u[i - 1], s[i])]
            BY <1>6 DEF u
        <3>2. QED
            BY <3>1
    <2> HIDE DEF u
    <2>3. u \in [0..n -> St]
        BY <2>1, <2>2
    <2>4. QED
        BY <2>3 DEF u
<1>10. QED
    BY <1>7, <1>9 DEF n, St

LEMMA UnkeptUpTo ==
    ASSUME NEW s \in Seq(Row), NEW t \in Seq(Row)
    PROVE  \A i \in 0..Len(s) : unkept(s \o t)[i] = unkept(s)[i]
<1> DEFINE S == {i \in 0..Len(s) : unkept(s \o t)[i] = unkept(s)[i]}
           w == s \o t
<1>1. w \in Seq(Row) /\ Len(w) = Len(s) + Len(t) /\ Len(s) \in Nat /\ Len(t) \in Nat
    OBVIOUS
<1>6. \A i \in 1..Len(s) : w[i] = s[i]
    OBVIOUS
<1> HIDE DEF w
<1>2. 0 \in S
    <2>1. unkept(w)[0] = <<>> /\ unkept(s)[0] = <<>>
        BY <1>1, UnkeptIs
    <2>2. QED
        BY <1>1, <2>1 DEF w
<1>3. ASSUME NEW i \in 0..(Len(s) - 1), i \in S
      PROVE  i + 1 \in S
    <2> HIDE DEF S
    <2>1. i + 1 \in 1..Len(s) /\ i + 1 \in 1..Len(w) /\ (i + 1) - 1 = i /\ i + 1 \in 0..Len(s)
        BY <1>1
    <2>2. unkept(w)[i + 1] = IF w[i + 1].kept THEN unkept(w)[i] ELSE Append(unkept(w)[i], w[i + 1])
        <3>1. \A j \in 1..Len(w) :
                 unkept(w)[j] = IF w[j].kept THEN unkept(w)[j - 1] ELSE Append(unkept(w)[j - 1], w[j])
            BY <1>1, UnkeptIs
        <3>2. PICK j : j = i + 1
            OBVIOUS
        <3>3. j \in 1..Len(w) /\ j - 1 = i
            BY <2>1, <3>2
        <3>4. QED
            BY <3>1, <3>2, <3>3, Zenon
    <2>3. unkept(s)[i + 1] = IF s[i + 1].kept THEN unkept(s)[i] ELSE Append(unkept(s)[i], s[i + 1])
        BY <2>1, UnkeptIs
    <2>4. w[i + 1] = s[i + 1] /\ unkept(w)[i] = unkept(s)[i]
        BY <1>3, <1>6, <2>1 DEF w, S
    <2>5. unkept(w)[i + 1] = unkept(s)[i + 1]
        BY <2>2, <2>3, <2>4
    <2>6. QED
        BY <2>1, <2>5 DEF w, S
<1> HIDE DEF S
<1>4. \A i \in 0..Len(s) : i \in S
    BY <1>1, <1>2, <1>3, Counting
<1>5. QED
    BY <1>4 DEF S

LEMMA UnkeptBeyond ==
    ASSUME NEW s \in Seq(Row), NEW t \in Seq(Row)
    PROVE  \A j \in 0..Len(t) : unkept(s \o t)[Len(s) + j] = unkept(s)[Len(s)] \o unkept(t)[j]
<1> DEFINE w == s \o t
           a == unkept(s)[Len(s)]
           S == {j \in 0..Len(t) : unkept(w)[Len(s) + j] = a \o unkept(t)[j]}
<1>1. w \in Seq(Row) /\ Len(w) = Len(s) + Len(t) /\ Len(s) \in Nat /\ Len(t) \in Nat
    OBVIOUS
<1>8. \A j \in 1..Len(t) : w[Len(s) + j] = t[j]
    OBVIOUS
<1>2. a \in Seq(Row)
    <2>1. Len(s) \in 0..Len(s)
        OBVIOUS
    <2>2. QED
        BY <2>1, UnkeptIs
<1>3. unkept(w)[Len(s)] = a
    BY UnkeptUpTo
<1> HIDE DEF w, a
<1>4. 0 \in S
    <2>1. unkept(t)[0] = <<>> /\ Len(s) + 0 = Len(s)
        BY UnkeptIs
    <2>2. QED
        BY <1>1, <1>2, <1>3, <2>1
<1>5. ASSUME NEW j \in 0..(Len(t) - 1), j \in S
      PROVE  j + 1 \in S
    <2> HIDE DEF S
    <2>1. j + 1 \in 1..Len(t) /\ Len(s) + (j + 1) \in 1..Len(w) /\ (j + 1) - 1 = j /\ j + 1 \in 0..Len(t)
          /\ (Len(s) + (j + 1)) - 1 = Len(s) + j /\ j \in 0..Len(t)
        BY <1>1
    <2>2. unkept(w)[Len(s) + (j + 1)]
            = IF w[Len(s) + (j + 1)].kept THEN unkept(w)[Len(s) + j]
              ELSE Append(unkept(w)[Len(s) + j], w[Len(s) + (j + 1)])
        BY <1>1, <2>1, UnkeptIs
    <2>3. unkept(t)[j + 1] = IF t[j + 1].kept THEN unkept(t)[j] ELSE Append(unkept(t)[j], t[j + 1])
        BY <2>1, UnkeptIs
    <2>4. w[Len(s) + (j + 1)] = t[j + 1] /\ unkept(w)[Len(s) + j] = a \o unkept(t)[j]
        BY <1>5, <1>8, <2>1 DEF S
    <2>5. t[j + 1] \in Row /\ unkept(t)[j] \in Seq(Row)
        <3>1. unkept(t) \in [0..Len(t) -> Seq(Row)]
            BY UnkeptIs
        <3>2. QED
            BY <2>1, <3>1
    <2>6. Append(a \o unkept(t)[j], t[j + 1]) = a \o Append(unkept(t)[j], t[j + 1])
        BY <1>2, <2>5, AppendAfter
    <2>7. unkept(w)[Len(s) + (j + 1)] = a \o unkept(t)[j + 1]
        BY <2>2, <2>3, <2>4, <2>6
    <2>8. QED
        BY <2>1, <2>7 DEF S
<1> HIDE DEF S
<1>6. \A j \in 0..Len(t) : j \in S
    BY <1>1, <1>4, <1>5, Counting
<1>7. QED
    BY <1>6 DEF S, w, a

LEMMA OfCursorIs ==
    ASSUME NEW s \in Seq(Row)
    PROVE  ofCursor(s) \in Seq(Row)
<1>1. Len(s) \in 0..Len(s)
    OBVIOUS
<1>2. QED
    BY <1>1, UnkeptIs DEF ofCursor

LEMMA OfCursorConcat ==
    ASSUME NEW s \in Seq(Row), NEW t \in Seq(Row)
    PROVE  ofCursor(s \o t) = ofCursor(s) \o ofCursor(t)
<1>1. Len(s \o t) = Len(s) + Len(t) /\ Len(t) \in 0..Len(t)
    OBVIOUS
<1>2. QED
    BY <1>1, UnkeptBeyond DEF ofCursor

LEMMA OfCursorAll ==
    ASSUME NEW s \in Seq(Row), \A i \in 1..Len(s) : ~s[i].kept
    PROVE  ofCursor(s) = s
<1> DEFINE S == {i \in 0..Len(s) : unkept(s)[i] = SubSeq(s, 1, i)}
<1>1. Len(s) \in Nat
    OBVIOUS
<1>2. 0 \in S
    <2>1. unkept(s)[0] = <<>>
        BY UnkeptIs
    <2>2. SubSeq(s, 1, 0) = <<>>
        BY SubSeqEmpty
    <2>3. 0 \in 0..Len(s)
        BY <1>1
    <2>4. QED
        BY <2>1, <2>2, <2>3
<1>3. ASSUME NEW i \in 0..(Len(s) - 1), i \in S
      PROVE  i + 1 \in S
    <2>1. i + 1 \in 1..Len(s) /\ (i + 1) - 1 = i /\ i + 1 \in 0..Len(s) /\ 1 \in 1..Len(s)
        BY <1>1
    <2>2. unkept(s)[i + 1] = Append(SubSeq(s, 1, i), s[i + 1])
        BY <1>3, <2>1, UnkeptIs
    <2>3. SubSeq(s, 1, i + 1) = SubSeq(s, 1, i) \o <<s[i + 1]>>
        <3>1. i + 1 \in 1..Len(s)
            BY <2>1
        <3>2. SubSeq(s, 1, i + 1) = SubSeq(s, 1, (i + 1) - 1) \o <<s[i + 1]>>
            BY <2>1, <3>1, SubSeqRecursiveSecond
        <3>3. QED
            BY <2>1, <3>2
    <2>4. SubSeq(s, 1, i) \in Seq(Row) /\ s[i + 1] \in Row
        BY <2>1
    <2>5. QED
        BY <2>1, <2>2, <2>3, <2>4, AppendIsConcat
<1> HIDE DEF S
<1>4. \A i \in 0..Len(s) : i \in S
    BY <1>1, <1>2, <1>3, Counting
<1>5. Len(s) \in 0..Len(s) /\ SubSeq(s, 1, Len(s)) = s
    BY <1>1, SubSeqFull
<1>6. QED
    BY <1>4, <1>5 DEF S, ofCursor

LEMMA OfCursorNone ==
    ASSUME NEW s \in Seq(Row), \A i \in 1..Len(s) : s[i].kept
    PROVE  ofCursor(s) = <<>>
<1> DEFINE S == {i \in 0..Len(s) : unkept(s)[i] = <<>>}
<1>1. Len(s) \in Nat
    OBVIOUS
<1>2. 0 \in S
    BY <1>1, UnkeptIs
<1>3. ASSUME NEW i \in 0..(Len(s) - 1), i \in S
      PROVE  i + 1 \in S
    <2>1. i + 1 \in 1..Len(s) /\ (i + 1) - 1 = i /\ i + 1 \in 0..Len(s)
        BY <1>1
    <2>2. QED
        BY <1>3, <2>1, UnkeptIs
<1> HIDE DEF S
<1>4. \A i \in 0..Len(s) : i \in S
    BY <1>1, <1>2, <1>3, Counting
<1>5. Len(s) \in 0..Len(s)
    BY <1>1
<1>6. QED
    BY <1>4, <1>5 DEF S, ofCursor

-----------------------------------------------------------------------------
(* Rows of one log, and the text at the end of a list. *)
LEMMA RowsIs ==
    ASSUME NEW e \in 1..MaxEpochs, NEW first \in Nat \ {0}, NEW last \in Int, last <= MaxRows
    PROVE  /\ rows(e, first, last) \in Seq(Row)
           /\ Len(rows(e, first, last)) = IF first <= last THEN last - first + 1 ELSE 0
           /\ \A i \in 1..(last - first + 1) :
                rows(e, first, last)[i] = [epoch |-> e, seq |-> first + i - 1, kept |-> FALSE]
           /\ \A i \in 1..Len(rows(e, first, last)) : ~rows(e, first, last)[i].kept
<1> DEFINE n == IF first <= last THEN last - first + 1 ELSE 0
           r == rows(e, first, last)
<1>1. n \in Nat /\ 1..n = 1..(last - first + 1) /\ MaxRows \in Nat
    BY BoundsAssumption
<1>2. \A i \in 1..n : [epoch |-> e, seq |-> first + i - 1, kept |-> FALSE] \in Row
    BY <1>1 DEF Row
<1>3. r = [i \in 1..n |-> [epoch |-> e, seq |-> first + i - 1, kept |-> FALSE]]
    BY <1>1, Zenon DEF rows
<1> HIDE DEF n, r
<1>4. r \in [1..n -> Row]
    BY <1>2, <1>3
<1>5. r \in Seq(Row)
    BY <1>1, <1>4, SeqDef
<1>6. Len(r) = n
    BY <1>1, <1>4, <1>5, LenProperties
<1>7. \A i \in 1..n : r[i] = [epoch |-> e, seq |-> first + i - 1, kept |-> FALSE]
    BY <1>3
<1>8. \A i \in 1..n : ~r[i].kept
    <2> TAKE i \in 1..n
    <2>1. [epoch |-> e, seq |-> first + i - 1, kept |-> FALSE].kept = FALSE
        BY Zenon
    <2>2. QED
        BY <1>7, <2>1, Zenon
<1>9. QED
    BY <1>1, <1>5, <1>6, <1>7, <1>8 DEF n, r

LEMMA LastTextIs ==
    ASSUME NEW s \in Seq(Row)
    PROVE  /\ lastText(s) \in Seq(Row) /\ withoutLastText(s) \in Seq(Row)
           /\ withoutLastText(s) \o lastText(s) = s
<1> DEFINE T == {n \in 0..Len(s) :
                    \A i \in (Len(s) - n + 1)..Len(s) : kindOf(s[i]) = "assistant"}
           n == Max(T)
<1>1. Len(s) \in Nat
    OBVIOUS
<1>2. n \in 0..Len(s)
    <2>1. 0 \in T
        BY <1>1
    <2>2. T \subseteq 0..Len(s) /\ T # {}
        BY <2>1
    <2> HIDE DEF T
    <2>3. Max(T) \in T
        BY <1>1, <2>2, Largest
    <2>4. QED
        BY <2>2, <2>3
<1> HIDE DEF n
<1>3. lastText(s) = SubSeq(s, Len(s) - n + 1, Len(s))
    BY DEF lastText, n
<1>4. Len(SubSeq(s, Len(s) - n + 1, Len(s))) = n /\ SubSeq(s, Len(s) - n + 1, Len(s)) \in Seq(Row)
    BY <1>1, <1>2, SubSeqProperties
<1>5. withoutLastText(s) = SubSeq(s, 1, Len(s) - n)
    BY <1>3, <1>4 DEF withoutLastText
<1>6. SubSeq(s, 1, Len(s) - n) \in Seq(Row)
    <2> DEFINE k == Len(s) - n
    <2>1. k \in 0..Len(s)
        BY <1>1, <1>2
    <2> HIDE DEF k
    <2>2. \A i \in 1..k : s[i] \in Row
        BY <1>1, <2>1
    <2>3. SubSeq(s, 1, k) \in Seq(Row)
        BY <1>1, <2>1, <2>2, SubSeqProperties
    <2>4. QED
        BY <2>3 DEF k
<1>7. SubSeq(s, 1, Len(s) - n) \o SubSeq(s, (Len(s) - n) + 1, Len(s)) = s
    <2> DEFINE k == Len(s) - n
    <2>1. 1 \in 1..(Len(s) + 1) /\ k \in (1 - 1)..Len(s) /\ Len(s) \in k..Len(s)
        BY <1>1, <1>2
    <2> HIDE DEF k
    <2>2. SubSeq(s, 1, k) \o SubSeq(s, k + 1, Len(s)) = SubSeq(s, 1, Len(s))
        BY <2>1, ConcatAdjacentSubSeq
    <2>3. QED
        BY <2>2, SubSeqFull DEF k
<1>8. QED
    BY <1>3, <1>4, <1>5, <1>6, <1>7

-----------------------------------------------------------------------------
(* What is good now: rows that exist, requests and messages about them, cursors of them. *)
Rows(e, n) == e \in 1..epoch /\ n \in 1..len[e]

Asks == {r \in Request :
    /\ r.epoch # 0 => Rows(r.epoch, r.seq)
    /\ r.op \in {"after", "before"} => r.epoch # 0}

carries(m) == m.type \in {"row", "response"}
newest(m) == m.type = "row" \/ (m.type = "response" /\ (m.reset \/ m.op = "tail"))

(* A message with rows carries rows that exist; a page that replaces the list may be empty when *)
(* the log is.                                                                                  *)
Sent == {m \in Message : carries(m) =>
    /\ m.epoch \in 1..epoch /\ m.first >= 1 /\ m.last <= len[m.epoch]
    /\ m.type = "row" => m.first = m.last
    /\ m.first > m.last /\ newest(m) => m.last = 0}
Live == {m \in Sent : m.type \in {"row", "turn_end"}}

Displayable == {c \in Cursor : Rows(c.epoch, c.endSeq) /\ c.startSeq <= c.endSeq}
Shown == [tail : Seq(Row), head : Seq(Row), cursor : Displayable \cup {None}, asks : Seq(Asks)]

Sizes == len \in Seq(0..MaxRows) /\ epoch \in 1..MaxEpochs

-----------------------------------------------------------------------------
(* The rows displayed are those of the cursor, after o rows of an earlier list. *)
ListOf(c) == ofCursor(c.tail \o c.head)

Ranged(list, o, e, first, last) ==
    /\ o + (last - first + 1) = Len(list)
    /\ \A i \in 1..(last - first + 1) :
          list[o + i] = [epoch |-> e, seq |-> first + i - 1, kept |-> FALSE]

Covers(cur, list, o) ==
    IF cur = None THEN list = <<>> /\ o = 0
    ELSE \E first \in cur.startSeq..cur.endSeq :
            /\ Ranged(list, o, cur.epoch, first, cur.endSeq)
            /\ o = 0 => first = cur.startSeq

LEMMA ListIs ==
    ASSUME NEW c \in Shown
    PROVE  ListOf(c) \in Seq(Row) /\ c.tail \o c.head \in Seq(Row)
<1>1. c.tail \in Seq(Row) /\ c.head \in Seq(Row)
    BY DEF Shown
<1>2. c.tail \o c.head \in Seq(Row)
    BY <1>1, ConcatProperties
<1>3. QED
    BY <1>2, OfCursorIs DEF ListOf

LEMMA RowAfter ==
    ASSUME NEW s \in Seq(Row), NEW t \in Seq(Row), NEW row \in Row
    PROVE  (s \o t) \o <<row>> = s \o (t \o <<row>>)
<1>1. <<row>> \in Seq(Row)
    OBVIOUS
<1>2. QED
    BY <1>1, RowsAssociate

LEMMA StreamEventApplied ==
    ASSUME NEW c \in Shown, NEW row \in Row, ~row.kept
    PROVE  /\ applyStreamEvent(c, row) \in Shown
           /\ applyStreamEvent(c, row).cursor = c.cursor
           /\ applyStreamEvent(c, row).asks = c.asks
           /\ ListOf(applyStreamEvent(c, row)) = ListOf(c) \o <<row>>
<1> DEFINE a == applyStreamEvent(c, row)
<1>1. c.tail \in Seq(Row) /\ c.head \in Seq(Row) /\ <<row>> \in Seq(Row) /\ <<>> \in Seq(Row)
    BY DEF Shown
<1>2. /\ lastText(c.tail) \in Seq(Row) /\ withoutLastText(c.tail) \in Seq(Row)
      /\ withoutLastText(c.tail) \o lastText(c.tail) = c.tail
    BY <1>1, LastTextIs
<1>3. /\ a \in Shown /\ a.cursor = c.cursor /\ a.asks = c.asks
      /\ a.tail \o a.head = (c.tail \o c.head) \o <<row>>
    <2>1. CASE kindOf(row) = "other"
        <3> DEFINE u == (c.tail \o c.head) \o <<row>>
        <3>1. u \in Seq(Row)
            BY <1>1, ConcatProperties
        <3>2. u \o <<>> = u
            BY <3>1, ConcatEmptySeq
        <3> HIDE DEF u
        <3>3. applyStreamEvent(c, row) = [c EXCEPT !.tail = u, !.head = <<>>]
            BY <2>1 DEF applyStreamEvent, u, Shown
        <3>4. QED
            BY <1>1, <3>1, <3>2, <3>3 DEF Shown, u
    <2>2. CASE kindOf(row) # "other" /\ c.head = <<>>
        <3> DEFINE u == withoutLastText(c.tail)
                   v == lastText(c.tail)
                   w == v \o <<row>>
        <3>1. u \in Seq(Row) /\ v \in Seq(Row) /\ u \o v = c.tail
            BY <1>2
        <3> HIDE DEF u, v
        <3>2. w \in Seq(Row)
            BY <1>1, <3>1, ConcatProperties
        <3>3. u \o w = c.tail \o <<row>>
            <4>1. (u \o v) \o <<row>> = u \o (v \o <<row>>)
                BY <3>1, RowAfter
            <4>2. QED
                BY <3>1, <4>1
        <3>4. c.tail \o c.head = c.tail
            BY <1>1, <2>2, ConcatEmptySeq
        <3> HIDE DEF w
        <3>5. applyStreamEvent(c, row) = [c EXCEPT !.tail = u, !.head = w]
            BY <2>2 DEF applyStreamEvent, u, v, w, Shown
        <3>6. QED
            BY <1>1, <3>1, <3>2, <3>3, <3>4, <3>5 DEF Shown
    <2>3. CASE kindOf(row) # "other" /\ c.head # <<>>
        <3> DEFINE w == Append(c.head, row)
        <3>1. w = c.head \o <<row>> /\ w \in Seq(Row)
            BY <1>1, AppendIsConcat, AppendProperties
        <3>2. c.tail \o w = (c.tail \o c.head) \o <<row>>
            <4> DEFINE u == c.tail
                       v == c.head
            <4>1. u \in Seq(Row) /\ v \in Seq(Row) /\ w = v \o <<row>>
                BY <1>1, <3>1
            <4> HIDE DEF u, v, w
            <4>2. (u \o v) \o <<row>> = u \o (v \o <<row>>)
                BY <4>1, RowAfter
            <4>3. QED
                BY <4>1, <4>2 DEF u, v
        <3> HIDE DEF w
        <3>3. applyStreamEvent(c, row) = [c EXCEPT !.head = w]
            BY <2>3 DEF applyStreamEvent, w, Shown
        <3>4. QED
            BY <1>1, <3>1, <3>2, <3>3 DEF Shown
    <2>4. QED
        BY <2>1, <2>2, <2>3
<1> HIDE DEF a
<1>4. ofCursor(<<row>>) = <<row>>
    <2>1. \A i \in 1..Len(<<row>>) : <<row>>[i] = row
        OBVIOUS
    <2>2. \A i \in 1..Len(<<row>>) : ~ <<row>>[i].kept
        BY <2>1, Zenon
    <2>3. QED
        BY <1>1, <2>2, OfCursorAll
<1>5. ListOf(a) = ListOf(c) \o <<row>>
    <2> DEFINE w == c.tail \o c.head
    <2>1. w \in Seq(Row)
        BY <1>1, ConcatProperties
    <2>2. ListOf(a) = ofCursor(w \o <<row>>) /\ ListOf(c) = ofCursor(w)
        BY <1>3 DEF ListOf
    <2> HIDE DEF w
    <2>3. QED
        BY <1>1, <1>4, <2>1, <2>2, OfCursorConcat
<1>6. QED
    BY <1>3, <1>5 DEF a

LEMMA RangedExtended ==
    ASSUME NEW list \in Seq(Row), NEW o \in Nat, NEW e, NEW first \in Nat, NEW last \in Nat,
           first <= last, NEW row \in Row, Ranged(list, o, e, first, last),
           row = [epoch |-> e, seq |-> last + 1, kept |-> FALSE]
    PROVE  Ranged(list \o <<row>>, o, e, first, last + 1)
<1> DEFINE n == last - first + 1
           w == list \o <<row>>
<1>1. n \in Nat /\ o + n = Len(list) /\ (last + 1) - first + 1 = n + 1
    BY DEF Ranged
<1>2. <<row>> \in Seq(Row) /\ Len(<<row>>) = 1
    OBVIOUS
<1>3. Len(w) = Len(list) + 1 /\ (\A i \in 1..Len(list) : w[i] = list[i]) /\ w[Len(list) + 1] = row
    BY <1>1, <1>2
<1>4. \A i \in 1..n : w[o + i] = [epoch |-> e, seq |-> first + i - 1, kept |-> FALSE]
    <2> TAKE i \in 1..n
    <2>1. o + i \in 1..Len(list)
        BY <1>1
    <2>2. QED
        BY <1>3, <2>1 DEF Ranged
<1>5. w[o + (n + 1)] = [epoch |-> e, seq |-> first + (n + 1) - 1, kept |-> FALSE]
    <2>1. o + (n + 1) = Len(list) + 1 /\ first + (n + 1) - 1 = last + 1
        BY <1>1
    <2>2. QED
        BY <1>3, <2>1
<1> HIDE DEF w
<1>6. \A i \in 1..(n + 1) : w[o + i] = [epoch |-> e, seq |-> first + i - 1, kept |-> FALSE]
    <2> TAKE i \in 1..(n + 1)
    <2>1. CASE i = n + 1
        BY <1>5, <2>1
    <2>2. CASE i # n + 1
        <3>1. i \in 1..n
            BY <1>1, <2>2
        <3>2. QED
            BY <1>4, <3>1
    <2>3. QED
        BY <2>1, <2>2
<1>7. o + ((last + 1) - first + 1) = Len(w)
    <2>1. Len(w) = Len(list) + 1
        BY <1>3
    <2>2. o + (last - first + 1) = Len(list)
        BY <1>1
    <2>3. QED
        BY <2>1, <2>2
<1>8. QED
    BY <1>1, <1>6, <1>7 DEF Ranged, w

-----------------------------------------------------------------------------
(* One row taken. *)
rowOf(e, s) == [epoch |-> e, seq |-> s, kept |-> FALSE]

(* A cursor w after v: not of an older epoch, nor of an older row. *)
Onward(v, w) ==
    \/ v = None
    \/ w # None /\ (v.epoch < w.epoch \/ (v.epoch = w.epoch /\ v.endSeq <= w.endSeq))

LEMMA SizesAre ==
    ASSUME Sizes
    PROVE  /\ \A e \in 1..epoch : len[e] \in 0..MaxRows /\ e \in 1..MaxEpochs
           /\ epoch \in Nat \ {0} /\ MaxRows \in Nat \ {0} /\ MaxEpochs \in Nat \ {0}
           /\ Limit \in Nat \ {0} /\ rowCount \in 0..MaxRows
<1>1. MaxRows \in Nat \ {0} /\ MaxEpochs \in Nat \ {0} /\ Limit \in Nat \ {0}
    BY BoundsAssumption
<1>2. len \in Seq(0..MaxRows) /\ Len(len) \in 1..MaxEpochs
    BY DEF Sizes, epoch
<1>3. \A e \in 1..Len(len) : len[e] \in 0..MaxRows
    <2> DEFINE N == 0..MaxRows
    <2>1. len \in Seq(N)
        BY <1>2
    <2> HIDE DEF N
    <2>2. \A e \in 1..Len(len) : len[e] \in N
        BY <2>1, ElementOfSeq
    <2>3. QED
        BY <2>2 DEF N
<1>4. QED
    BY <1>1, <1>2, <1>3 DEF epoch, rowCount

LEMMA RowOf ==
    ASSUME Sizes, NEW e, NEW s, Rows(e, s)
    PROVE  rowOf(e, s) \in Row /\ ~rowOf(e, s).kept /\ e \in 1..MaxEpochs /\ s \in 1..MaxRows
<1>1. e \in 1..MaxEpochs /\ s \in 1..MaxRows
    BY SizesAre DEF Rows
<1>2. rowOf(e, s).kept = FALSE
    BY Zenon DEF rowOf
<1>3. QED
    BY <1>1, <1>2 DEF rowOf, Row

Next1(cur, e, s) == cur = None \/ (cur # None /\ cur.epoch = e /\ s = cur.endSeq + 1)

LEMMA AdvancedIs ==
    ASSUME Sizes, NEW cur \in Displayable \cup {None}, NEW e, NEW s, Rows(e, s), Next1(cur, e, s)
    PROVE  /\ advanced(cur, e, s) \in Displayable /\ advanced(cur, e, s) # None
           /\ advanced(cur, e, s).epoch = e /\ advanced(cur, e, s).endSeq = s
           /\ advanced(cur, e, s).startSeq = IF cur = None THEN s ELSE cur.startSeq
           /\ Onward(cur, advanced(cur, e, s))
<1>1. e \in 1..MaxEpochs /\ s \in 1..MaxRows
    BY RowOf
<1>2. \A c \in Cursor : c # None
    BY NoneAssumption
<1>3. CASE cur = None
    <2>1. advanced(cur, e, s) = [epoch |-> e, startSeq |-> s, endSeq |-> s]
        BY <1>3 DEF advanced
    <2>2. [epoch |-> e, startSeq |-> s, endSeq |-> s] \in Displayable
        BY <1>1 DEF Displayable, Cursor
    <2>3. QED
        BY <1>2, <1>3, <2>1, <2>2 DEF Displayable, Onward
<1>4. CASE cur # None
    <2>1. cur \in Cursor /\ cur.startSeq <= cur.endSeq /\ cur.epoch = e /\ s = cur.endSeq + 1
        BY <1>4 DEF Displayable, Next1
    <2>2. advanced(cur, e, s) = [cur EXCEPT !.endSeq = s]
        BY <1>4 DEF advanced
    <2> DEFINE a == [cur EXCEPT !.endSeq = s]
    <2>3. a \in Cursor /\ a.epoch = e /\ a.endSeq = s /\ a.startSeq = cur.startSeq
        BY <1>1, <2>1 DEF Cursor
    <2> HIDE DEF a
    <2>4. a.startSeq <= a.endSeq /\ cur.endSeq <= a.endSeq
        BY <2>1, <2>3 DEF Cursor
    <2>5. a \in Displayable /\ a # None
        BY <1>2, <2>3, <2>4 DEF Displayable
    <2>6. QED
        BY <1>4, <2>1, <2>2, <2>3, <2>4, <2>5 DEF Onward, a
<1>5. QED
    BY <1>3, <1>4

LEMMA CoversExtended ==
    ASSUME Sizes, NEW cur \in Displayable \cup {None}, NEW e, NEW s, Rows(e, s), Next1(cur, e, s),
           NEW list \in Seq(Row), NEW o \in Nat, Covers(cur, list, o)
    PROVE  Covers(advanced(cur, e, s), list \o <<rowOf(e, s)>>, o)
<1> DEFINE a == advanced(cur, e, s)
           row == rowOf(e, s)
<1>1. a # None /\ a.epoch = e /\ a.endSeq = s /\ a.startSeq = IF cur = None THEN s ELSE cur.startSeq
    BY AdvancedIs
<1>2. row \in Row /\ s \in 1..MaxRows
    BY RowOf
<1> HIDE DEF a
<1>3. CASE cur = None
    <2>1. list = <<>> /\ o = 0
        BY <1>3 DEF Covers
    <2>2. list \o <<row>> = <<row>>
        BY <1>2, <2>1
    <2>3. Ranged(<<row>>, 0, e, s, s)
        <3>1. Len(<<row>>) = 1 /\ <<row>>[1] = row
            OBVIOUS
        <3>2. s - s + 1 = 1 /\ 0 + (s - s + 1) = 1
            BY <1>2
        <3>3. \A i \in 1..1 : 0 + i = 1 /\ s + i - 1 = s
            BY <1>2
        <3>4. QED
            BY <3>1, <3>2, <3>3 DEF Ranged, rowOf
    <2>4. s \in a.startSeq..a.endSeq
        BY <1>1, <1>2, <1>3
    <2>5. QED
        BY <1>1, <1>3, <2>1, <2>2, <2>3, <2>4 DEF Covers, a
<1>4. CASE cur # None
    <2>1. /\ cur \in Cursor /\ cur.epoch = e /\ s = cur.endSeq + 1
          /\ cur.startSeq \in Nat /\ cur.endSeq \in Nat
        BY <1>4, BoundsAssumption DEF Displayable, Next1, Cursor
    <2>2. PICK first \in cur.startSeq..cur.endSeq :
             Ranged(list, o, e, first, cur.endSeq) /\ (o = 0 => first = cur.startSeq)
        BY <1>4, <2>1 DEF Covers
    <2>3. first \in Nat /\ first <= cur.endSeq
        BY <2>1, <2>2
    <2>4. Ranged(list \o <<row>>, o, e, first, cur.endSeq + 1)
        BY <1>2, <2>1, <2>2, <2>3, RangedExtended DEF rowOf
    <2>5. first \in a.startSeq..a.endSeq
        BY <1>1, <1>4, <2>1, <2>2
    <2>6. QED
        BY <1>1, <1>4, <2>1, <2>2, <2>4, <2>5 DEF Covers, a
<1>5. QED
    BY <1>3, <1>4

LEMMA AdvancedOf ==
    ASSUME Sizes, NEW c \in Shown, NEW e, NEW s, Rows(e, s), Next1(c.cursor, e, s)
    PROVE  LET cur == advanced(c.cursor, e, s)
           IN /\ cur \in Displayable /\ cur # None /\ cur.epoch = e /\ cur.endSeq = s
              /\ Onward(c.cursor, cur)
<1>1. PICK v : v = c.cursor
    OBVIOUS
<1>2. v \in Displayable \cup {None} /\ Next1(v, e, s)
    BY <1>1 DEF Shown
<1>3. /\ advanced(v, e, s) \in Displayable /\ advanced(v, e, s) # None
      /\ advanced(v, e, s).epoch = e /\ advanced(v, e, s).endSeq = s
      /\ Onward(v, advanced(v, e, s))
    BY <1>2, AdvancedIs
<1>4. QED
    BY <1>1, <1>3

(* d is a with the row of epoch e and number s displayed, and the cursor advanced to it. *)
Took(a, d, e, s) == d = [a EXCEPT !.cursor = advanced(@, e, s)]

LEMMA RowTaken ==
    ASSUME Sizes, NEW c \in Shown, NEW a \in Shown, NEW e, NEW s, Rows(e, s), Next1(c.cursor, e, s),
           a.cursor = c.cursor, ListOf(a) = ListOf(c) \o <<rowOf(e, s)>>,
           NEW d, Took(a, d, e, s)
    PROVE  /\ d \in Shown /\ d.head = a.head /\ d.asks = a.asks
           /\ d.cursor # None /\ d.cursor.epoch = e /\ d.cursor.endSeq = s
           /\ Onward(c.cursor, d.cursor)
           /\ \A o \in Nat : Covers(c.cursor, ListOf(c), o) => Covers(d.cursor, ListOf(d), o)
<1> DEFINE cur == advanced(c.cursor, e, s)
<1>1. c.cursor \in Displayable \cup {None}
    BY DEF Shown
<1>2. /\ cur \in Displayable /\ cur # None /\ cur.epoch = e /\ cur.endSeq = s
      /\ Onward(c.cursor, cur)
    BY AdvancedOf
<1>3. d = [a EXCEPT !.cursor = cur]
    BY DEF Took, Shown
<1>4. ASSUME NEW o \in Nat, Covers(c.cursor, ListOf(c), o)
      PROVE  Covers(cur, ListOf(c) \o <<rowOf(e, s)>>, o)
    <2> DEFINE v == c.cursor
               list == ListOf(c)
    <2>1. list \in Seq(Row)
        BY ListIs
    <2>2. v \in Displayable \cup {None} /\ Next1(v, e, s) /\ Covers(v, list, o)
        BY <1>1, <1>4
    <2> HIDE DEF v, list
    <2>3. Covers(advanced(v, e, s), list \o <<rowOf(e, s)>>, o)
        BY <2>1, <2>2, CoversExtended
    <2>4. QED
        BY <2>3 DEF v, list
<1> HIDE DEF cur
<1>5. d \in Shown /\ d.cursor = cur /\ d.tail = a.tail /\ d.head = a.head /\ d.asks = a.asks
    BY <1>2, <1>3 DEF Shown
<1>6. ListOf(d) = ListOf(c) \o <<rowOf(e, s)>>
    BY <1>5 DEF ListOf
<1>7. QED
    BY <1>2, <1>4, <1>5, <1>6

-----------------------------------------------------------------------------
(* One event of the queue. *)
(* After message m the cursor w ends where v did, or no later than the rows of m. *)
Touches(v, w, m) ==
    \/ w = None
    \/ v # None /\ w.epoch = v.epoch /\ w.endSeq = v.endSeq
    \/ carries(m) /\ w.epoch = m.epoch /\ w.endSeq <= m.last

(* d is what is displayed after c when message m is processed, and nothing is lost or out of order. *)
Goes(c, d, m) ==
    /\ d \in Shown /\ Onward(c.cursor, d.cursor) /\ Touches(c.cursor, d.cursor, m)
    /\ \A o \in Nat : Covers(c.cursor, ListOf(c), o) => Covers(d.cursor, ListOf(d), o)

LEMMA OnwardItself == ASSUME NEW c \in Shown PROVE Onward(c.cursor, c.cursor)
<1>1. c.cursor = None \/ c.cursor \in Cursor
    BY DEF Shown, Displayable
<1>2. QED
    BY <1>1, BoundsAssumption DEF Onward, Cursor

LEMMA OnwardTrans ==
    ASSUME NEW u \in Displayable \cup {None}, NEW v \in Displayable \cup {None},
           NEW w \in Displayable \cup {None}, Onward(u, v), Onward(v, w)
    PROVE  Onward(u, w)
BY BoundsAssumption, NoneAssumption DEF Onward, Displayable, Cursor

LEMMA AsksForWhatIsAfter ==
    ASSUME Sizes, NEW cur \in Displayable
    PROVE  after(cur) \in Asks
<1>1. /\ cur.epoch \in 1..MaxEpochs /\ cur.endSeq \in 1..MaxRows /\ Rows(cur.epoch, cur.endSeq)
    BY DEF Displayable, Cursor
<1>2. cur.epoch # 0 /\ cur.epoch \in 0..MaxEpochs /\ cur.endSeq \in 0..MaxRows
    BY <1>1
<1>3. after(cur) \in Request
    BY <1>2 DEF after, Request, Direction
<1>4. QED
    BY <1>1, <1>2, <1>3 DEF after, Asks

LEMMA Asked ==
    ASSUME Sizes, NEW c \in Shown, NEW cur \in Displayable, NEW d,
           d = [c EXCEPT !.asks = Append(@, after(cur))]
    PROVE  d \in Shown /\ d.cursor = c.cursor /\ ListOf(d) = ListOf(c) /\ d.head = c.head
           /\ d.asks # c.asks
<1> DEFINE new == Append(c.asks, after(cur))
<1>1. c.asks \in Seq(Asks) /\ after(cur) \in Asks
    BY AsksForWhatIsAfter DEF Shown
<1>2. new \in Seq(Asks) /\ new # c.asks
    <2>1. Len(new) = Len(c.asks) + 1 /\ new \in Seq(Asks) /\ Len(c.asks) \in Nat
        BY <1>1, AppendProperties
    <2>2. QED
        BY <2>1
<1>3. d = [c EXCEPT !.asks = new]
    BY DEF Shown
<1> HIDE DEF new
<1>4. /\ d \in Shown /\ d.cursor = c.cursor /\ d.tail = c.tail /\ d.head = c.head /\ d.asks # c.asks
    BY <1>2, <1>3 DEF Shown
<1>5. QED
    BY <1>4 DEF ListOf

LEMMA Classified ==
    ASSUME NEW cur \in Displayable \cup {None}, NEW e \in Nat, NEW s \in Nat
    PROVE  LET decision == classifySessionTimelineSeq(cur, e, s)
           IN /\ decision \in {"init", "accept"} => Next1(cur, e, s)
              /\ decision = "gap" => cur \in Displayable
              /\ decision \in {"init", "accept", "gap", "drop_epoch", "drop_stale"}
<1>1. CASE cur = None
    BY <1>1 DEF classifySessionTimelineSeq, Next1
<1>2. CASE cur # None
    BY <1>2 DEF classifySessionTimelineSeq, Next1
<1>3. QED
    BY <1>1, <1>2

LEMMA LiveProcessed ==
    ASSUME Sizes, NEW c \in Shown, NEW m \in Live
    PROVE  Goes(c, processAgentStreamEvent(c, m), m)
<1> DEFINE d == processAgentStreamEvent(c, m)
<1>1. c.cursor \in Displayable \cup {None} /\ c.tail \in Seq(Row) /\ c.head \in Seq(Row)
    BY DEF Shown
<1>2. Goes(c, c, m)
    BY OnwardItself DEF Goes, Touches
<1>3. CASE m.type = "turn_end"
    <2> DEFINE u == c.tail \o c.head
    <2>1. u \in Seq(Row) /\ u \o <<>> = u /\ <<>> \in Seq(Row)
        BY <1>1, ConcatProperties, ConcatEmptySeq
    <2>2. d = [c EXCEPT !.tail = u, !.head = <<>>]
        BY <1>3 DEF processAgentStreamEvent, Shown
    <2> HIDE DEF u, d
    <2>3. d \in Shown /\ d.cursor = c.cursor /\ d.tail \o d.head = u
        BY <2>1, <2>2 DEF Shown
    <2>4. ListOf(d) = ListOf(c)
        BY <2>3 DEF ListOf, u
    <2>5. QED
        BY <1>2, <2>3, <2>4 DEF Goes, Touches, d
<1>4. CASE m.type = "row"
    <2> DEFINE e == m.epoch
               s == m.first
               decision == classifySessionTimelineSeq(c.cursor, e, s)
               row == rows(e, s, s)[1]
    <2>1. m \in Message /\ carries(m) /\ e \in 1..epoch /\ s >= 1 /\ s <= len[e] /\ m.last = s
        BY <1>4 DEF Live, Sent, carries
    <2>2. e \in Nat /\ s \in Nat /\ Rows(e, s)
        <3>1. s \in Nat /\ len[e] \in Nat
            BY <2>1, SizesAre DEF Message
        <3>2. QED
            BY <2>1, <3>1, SizesAre DEF Rows
    <2>3. row = rowOf(e, s)
        <3>1. e \in 1..MaxEpochs /\ s \in 1..MaxRows
            BY <2>2, RowOf
        <3>2. s \in Nat \ {0} /\ s \in Int /\ s <= MaxRows /\ 1 \in 1..(s - s + 1) /\ s + 1 - 1 = s
            BY <3>1, SizesAre
        <3> HIDE DEF e, s
        <3>3. \A i \in 1..(s - s + 1) :
                 rows(e, s, s)[i] = [epoch |-> e, seq |-> s + i - 1, kept |-> FALSE]
            BY <3>1, <3>2, RowsIs
        <3>4. QED
            BY <3>2, <3>3 DEF rowOf
    <2>4. m.type # "turn_end"
        BY <1>4
    <2>5. /\ decision \in {"init", "accept"} => Next1(c.cursor, e, s)
          /\ decision = "gap" => c.cursor \in Displayable
          /\ decision \in {"init", "accept", "gap", "drop_epoch", "drop_stale"}
        <3> DEFINE v == c.cursor
        <3>1. v \in Displayable \cup {None}
            BY <1>1
        <3> HIDE DEF v, e, s
        <3>2. QED
            BY <2>2, <3>1, Classified DEF v
    <2>6. CASE decision \in {"init", "accept"}
        <3> DEFINE a == applyStreamEvent(c, row)
        <3>1. a \in Shown /\ a.cursor = c.cursor /\ ListOf(a) = ListOf(c) \o <<rowOf(e, s)>>
            <4>1. rowOf(e, s) \in Row /\ ~rowOf(e, s).kept
                BY <2>2, RowOf
            <4> HIDE DEF row, e, s
            <4>2. QED
                BY <2>3, <4>1, StreamEventApplied
        <3>2. Took(a, d, e, s)
            BY <2>4, <2>6 DEF processAgentStreamEvent, Took
        <3> HIDE DEF a, d, e, s, decision
        <3>3. /\ d \in Shown /\ d.cursor # None /\ d.cursor.epoch = e /\ d.cursor.endSeq = s
              /\ Onward(c.cursor, d.cursor)
              /\ \A o \in Nat : Covers(c.cursor, ListOf(c), o) => Covers(d.cursor, ListOf(d), o)
            BY <2>2, <2>5, <2>6, <3>1, <3>2, RowTaken
        <3>4. Touches(c.cursor, d.cursor, m)
            BY <2>1, <2>2, <3>3 DEF Touches, e, s
        <3>5. QED
            BY <3>3, <3>4 DEF Goes, d
    <2>7. CASE decision = "gap"
        <3>1. d = [c EXCEPT !.asks = Append(@, after(c.cursor))]
            BY <2>4, <2>7 DEF processAgentStreamEvent
        <3> DEFINE v == c.cursor
        <3>2. v \in Displayable
            BY <2>5, <2>7
        <3> HIDE DEF d, decision, v
        <3>3. d \in Shown /\ d.cursor = c.cursor /\ ListOf(d) = ListOf(c)
            BY <3>1, <3>2, Asked DEF v
        <3>4. QED
            BY <1>2, <3>3 DEF Goes, Touches, d
    <2>8. CASE decision \notin {"init", "accept", "gap"}
        <3>1. d = c
            BY <2>4, <2>8 DEF processAgentStreamEvent
        <3>2. QED
            BY <1>2, <3>1
    <2>9. QED
        BY <2>6, <2>7, <2>8
<1>5. m.type \in {"row", "turn_end"}
    BY DEF Live
<1>6. QED
    BY <1>3, <1>4, <1>5

-----------------------------------------------------------------------------
(* Messages on the way, oldest first: a live row is after all that was sent before it, and a page *)
(* that may replace the list goes at least as far.                                                *)
Upto(e, n, m) ==
    e < m.epoch \/ (e = m.epoch /\ (n < m.last \/ (n = m.last /\ m.type # "row")))
CursorUpto(cur, m) == cur # None => Upto(cur.epoch, cur.endSeq, m)

InOrder(p) ==
    \A j \in 1..Len(p) : newest(p[j]) =>
        \A i \in 1..(j - 1) : carries(p[i]) => Upto(p[i].epoch, p[i].last, p[j])

(* The cursor is behind the messages of p after the i-th. *)
Behind(cur, p, i) == \A j \in (i + 1)..Len(p) : newest(p[j]) => CursorUpto(cur, p[j])

Good ==
    /\ Sizes
    /\ requests \in Seq(Asks) /\ wire \in Seq(Sent) /\ queue \in Seq(Live)
    /\ tail \in Seq(Row) /\ head \in Seq(Row) /\ cursor \in Displayable \cup {None}
    /\ outdated \in Nat

pipeline == queue \o wire
Ordered == InOrder(pipeline) /\ Behind(cursor, pipeline, 0)
Displayed == Covers(cursor, ListOf(shown), outdated)

LEMMA UptoEarlier ==
    ASSUME NEW m \in Message, NEW e, NEW n \in Int, NEW k \in Int, k <= n, Upto(e, n, m)
    PROVE  Upto(e, k, m)
<1>1. m.last \in Int
    BY DEF Message
<1>2. QED
    BY <1>1 DEF Upto

LEMMA BehindNext ==
    ASSUME NEW p \in Seq(Sent), InOrder(p), NEW i \in 0..(Len(p) - 1),
           NEW v \in Displayable \cup {None}, NEW w \in Displayable \cup {None},
           Behind(v, p, i), Touches(v, w, p[i + 1])
    PROVE  Behind(w, p, i + 1)
<1> SUFFICES ASSUME NEW j \in ((i + 1) + 1)..Len(p), newest(p[j]), w # None
             PROVE  Upto(w.epoch, w.endSeq, p[j])
    BY DEF Behind, CursorUpto
<1>1. j \in (i + 1)..Len(p) /\ j \in 1..Len(p) /\ i + 1 \in 1..Len(p) /\ i + 1 \in 1..(j - 1)
    OBVIOUS
<1>2. p[j] \in Message /\ p[i + 1] \in Message
    BY <1>1 DEF Sent
<1>3. CASE v # None /\ w.epoch = v.epoch /\ w.endSeq = v.endSeq
    BY <1>1, <1>3 DEF Behind, CursorUpto
<1>4. CASE ~(v # None /\ w.epoch = v.epoch /\ w.endSeq = v.endSeq)
    <2>1. carries(p[i + 1]) /\ w.epoch = p[i + 1].epoch /\ w.endSeq <= p[i + 1].last
        BY <1>4 DEF Touches
    <2>2. Upto(p[i + 1].epoch, p[i + 1].last, p[j])
        BY <1>1, <2>1 DEF InOrder
    <2>3. w.endSeq \in Int /\ p[i + 1].last \in Int
        BY <1>2 DEF Displayable, Cursor, Message
    <2>4. QED
        BY <1>2, <2>1, <2>2, <2>3, UptoEarlier
<1>5. QED
    BY <1>3, <1>4

LEMMA ShownGood == ASSUME Good PROVE shown \in Shown /\ shown.cursor = cursor
<1>1. <<>> \in Seq(Asks)
    OBVIOUS
<1>2. QED
    BY <1>1 DEF Good, shown, Shown

LEMMA BatchIs ==
    ASSUME Good
    PROVE  /\ batch[0] = shown
           /\ \A i \in 1..Len(queue) : batch[i] = processAgentStreamEvent(batch[i - 1], queue[i])
<1> DEFINE n == Len(queue)
           G == [p \in (1..n) \X Shown |-> processAgentStreamEvent(p[2], queue[p[1]])]
<1>1. n \in Nat /\ shown \in Shown
    BY ShownGood DEF Good
<1>2. \A i \in 1..n, x \in Shown :
         G[<<i, x>>] = processAgentStreamEvent(x, queue[i]) /\ G[<<i, x>>] \in Shown
    <2> TAKE i \in 1..n, x \in Shown
    <2>1. queue[i] \in Live
        BY DEF Good
    <2>2. processAgentStreamEvent(x, queue[i]) \in Shown
        BY <2>1, LiveProcessed DEF Good, Goes
    <2>3. <<i, x>> \in (1..n) \X Shown /\ <<i, x>>[1] = i /\ <<i, x>>[2] = x
        BY Zenon
    <2>4. G[<<i, x>>] = processAgentStreamEvent(x, queue[i])
        <3> HIDE DEF n
        <3>1. QED
            BY <2>3
    <2>5. QED
        BY <2>2, <2>4
<1> HIDE DEF n, G
<1>3. PICK F \in [0..n -> Shown] : Recurs(F, n, shown, G)
    <2>1. StepsIn(Shown, n, G)
        BY <1>2 DEF StepsIn
    <2>2. QED
        BY <1>1, <2>1, Recursion
<1>4. \A i \in 0..n : (IF i = 0 THEN shown ELSE G[<<i, F[i - 1]>>])
                        = IF i = 0 THEN shown ELSE processAgentStreamEvent(F[i - 1], queue[i])
    <2> SUFFICES ASSUME NEW i \in 0..n, i # 0
                 PROVE  G[<<i, F[i - 1]>>] = processAgentStreamEvent(F[i - 1], queue[i])
        BY Zenon
    <2>1. i \in 1..n /\ F[i - 1] \in Shown
        BY <1>1, <1>3
    <2>2. QED
        BY <1>2, <2>1
<1>5. F = [i \in 0..n |-> IF i = 0 THEN shown ELSE processAgentStreamEvent(F[i - 1], queue[i])]
    BY <1>3, <1>4, ZenonT(30) DEF Recurs
<1>6. batch = [i \in 0..n |-> IF i = 0 THEN shown
                              ELSE processAgentStreamEvent(batch[i - 1], queue[i])]
    BY <1>5 DEF batch, n
<1>7. \A i \in 0..n : batch[i] = IF i = 0 THEN shown
                                 ELSE processAgentStreamEvent(batch[i - 1], queue[i])
    <2> HIDE DEF batch
    <2>1. QED
        BY <1>6, Zenon
<1>8. 0 \in 0..n /\ \A i \in 1..n : i \in 0..n /\ i # 0
    BY <1>1
<1>9. QED
    BY <1>7, <1>8, Zenon DEF n

LEMMA PipelineIs ==
    ASSUME Good
    PROVE  /\ pipeline \in Seq(Sent) /\ Len(pipeline) = Len(queue) + Len(wire)
           /\ Len(queue) \in Nat /\ Len(wire) \in Nat
           /\ \A i \in 1..Len(queue) : pipeline[i] = queue[i]
           /\ \A i \in 1..Len(wire) : pipeline[Len(queue) + i] = wire[i]
<1>1. queue \in Seq(Sent) /\ wire \in Seq(Sent)
    <2>1. Live \subseteq Sent
        BY DEF Live
    <2>2. QED
        BY <2>1, SeqMonotonic DEF Good
<1>2. QED
    BY <1>1, ConcatProperties DEF pipeline

BatchGood(i) ==
    /\ batch[i] \in Shown
    /\ Onward(cursor, batch[i].cursor)
    /\ \A o \in Nat : Covers(cursor, ListOf(shown), o) => Covers(batch[i].cursor, ListOf(batch[i]), o)
    /\ Behind(batch[i].cursor, pipeline, i)

LEMMA BatchShown ==
    ASSUME Good, Ordered
    PROVE  BatchGood(Len(queue))
<1> DEFINE S == {i \in 0..Len(queue) : BatchGood(i)}
<1>1. Len(queue) \in Nat
    BY PipelineIs
<1>2. 0 \in S
    <2>1. batch[0] = shown /\ shown \in Shown /\ shown.cursor = cursor
        BY BatchIs, ShownGood
    <2>2. BatchGood(0)
        BY <2>1, OnwardItself DEF BatchGood, Ordered
    <2>3. QED
        BY <1>1, <2>2
<1>3. ASSUME NEW i \in 0..(Len(queue) - 1), i \in S
      PROVE  i + 1 \in S
    <2> DEFINE b == batch[i]
               d == batch[i + 1]
               m == queue[i + 1]
    <2>1. /\ i + 1 \in 1..Len(queue) /\ (i + 1) - 1 = i /\ i + 1 \in 0..Len(queue)
          /\ i \in 0..(Len(pipeline) - 1)
        BY <1>1, PipelineIs
    <2>2. m \in Live /\ m = pipeline[i + 1]
        BY <2>1, PipelineIs DEF Good
    <2>3. d = processAgentStreamEvent(b, m)
        BY <2>1, BatchIs
    <2>4. /\ b \in Shown /\ Onward(cursor, b.cursor) /\ Behind(b.cursor, pipeline, i)
          /\ \A o \in Nat : Covers(cursor, ListOf(shown), o) => Covers(b.cursor, ListOf(b), o)
        BY <1>3 DEF BatchGood
    <2> HIDE DEF b, d, m
    <2>5. Goes(b, d, m)
        BY <2>2, <2>3, <2>4, LiveProcessed DEF Good
    <2>6. Behind(d.cursor, pipeline, i + 1)
        <3>1. PICK v, w : v = b.cursor /\ w = d.cursor
            OBVIOUS
        <3>2. v \in Displayable \cup {None} /\ w \in Displayable \cup {None}
            BY <2>4, <2>5, <3>1 DEF Goes, Shown
        <3>3. Behind(v, pipeline, i) /\ Touches(v, w, pipeline[i + 1])
            BY <2>2, <2>4, <2>5, <3>1 DEF Goes
        <3>4. pipeline \in Seq(Sent) /\ InOrder(pipeline)
            BY PipelineIs DEF Ordered
        <3>5. Behind(w, pipeline, i + 1)
            BY <2>1, <3>2, <3>3, <3>4, BehindNext
        <3>6. QED
            BY <3>1, <3>5
    <2>7. Onward(cursor, d.cursor)
        <3>1. PICK v, w : v = b.cursor /\ w = d.cursor
            OBVIOUS
        <3>2. v \in Displayable \cup {None} /\ w \in Displayable \cup {None}
            BY <2>4, <2>5, <3>1 DEF Goes, Shown
        <3>3. QED
            BY <2>4, <2>5, <3>1, <3>2, OnwardTrans DEF Goes, Good
    <2>8. d \in Shown /\ \A o \in Nat : Covers(cursor, ListOf(shown), o) => Covers(d.cursor, ListOf(d), o)
        BY <2>4, <2>5 DEF Goes
    <2>9. BatchGood(i + 1)
        BY <2>6, <2>7, <2>8 DEF BatchGood, d
    <2>10. QED
        BY <2>1, <2>9
<1> HIDE DEF S
<1>4. \A i \in 0..Len(queue) : i \in S
    BY <1>1, <1>2, <1>3, Counting
<1>5. Len(queue) \in 0..Len(queue)
    BY <1>1
<1>6. QED
    BY <1>4, <1>5 DEF S

(* The cursor that commit would keep covers no row of the queue: what is displayed is the batch. *)
LEMMA FlushedIs ==
    ASSUME Good, Ordered
    PROVE  flushed = batch[Len(queue)]
<1>1. SUFFICES ASSUME queue # <<>>, cursor # None, Last(queue).type = "row",
                      Last(queue).epoch = cursor.epoch,
                      Last(queue).first \in cursor.startSeq..cursor.endSeq
               PROVE  FALSE
    BY DEF flushed
<1> DEFINE n == Len(queue)
           m == queue[n]
<1>2. n \in Nat /\ n # 0 /\ Last(queue) = m
    BY <1>1 DEF Good, Last
<1>3. m \in Live /\ m = pipeline[n] /\ n \in 1..Len(pipeline)
    BY <1>2, PipelineIs DEF Good
<1>4. m \in Message /\ m.type = "row" /\ m.first = m.last /\ newest(m)
    BY <1>1, <1>2, <1>3 DEF Live, Sent, carries, newest
<1>5. Upto(cursor.epoch, cursor.endSeq, m)
    BY <1>1, <1>3, <1>4 DEF Ordered, Behind, CursorUpto
<1>6. m.last \in Nat /\ cursor.endSeq \in Nat /\ cursor.startSeq \in Nat /\ cursor.epoch \in Nat
    BY <1>1, <1>4 DEF Message, Good, Displayable, Cursor
<1>7. QED
    BY <1>1, <1>2, <1>4, <1>5, <1>6 DEF Upto

LEMMA FlushedGood ==
    ASSUME Good, Ordered, Displayed
    PROVE  /\ flushed \in Shown /\ Onward(cursor, flushed.cursor)
           /\ Covers(flushed.cursor, ListOf(flushed), outdated)
           /\ Behind(flushed.cursor, wire, 0) /\ InOrder(wire)
<1> DEFINE n == Len(queue)
           c == batch[n]
<1>1. BatchGood(n) /\ flushed = c
    BY BatchShown, FlushedIs
<1>2. /\ c \in Shown /\ Onward(cursor, c.cursor) /\ Behind(c.cursor, pipeline, n)
      /\ Covers(c.cursor, ListOf(c), outdated)
    BY <1>1 DEF BatchGood, Displayed, Good
<1> HIDE DEF c, n
<1>3. /\ n \in Nat /\ Len(wire) \in Nat /\ Len(pipeline) = n + Len(wire)
      /\ \A i \in 1..Len(wire) : pipeline[n + i] = wire[i]
    BY PipelineIs DEF n
<1>4. Behind(c.cursor, wire, 0)
    <2> SUFFICES ASSUME NEW j \in 1..Len(wire), newest(wire[j])
                 PROVE  CursorUpto(c.cursor, wire[j])
        BY DEF Behind
    <2>1. n + j \in (n + 1)..Len(pipeline) /\ pipeline[n + j] = wire[j]
        BY <1>3
    <2>2. QED
        BY <1>2, <2>1 DEF Behind
<1>5. InOrder(wire)
    <2> SUFFICES ASSUME NEW j \in 1..Len(wire), newest(wire[j]), NEW i \in 1..(j - 1), carries(wire[i])
                 PROVE  Upto(wire[i].epoch, wire[i].last, wire[j])
        BY DEF InOrder
    <2>1. /\ n + j \in 1..Len(pipeline) /\ n + i \in 1..((n + j) - 1)
          /\ pipeline[n + j] = wire[j] /\ pipeline[n + i] = wire[i]
        BY <1>3
    <2>2. QED
        BY <2>1 DEF Ordered, InOrder
<1>6. QED
    BY <1>1, <1>2, <1>4, <1>5

-----------------------------------------------------------------------------
(* A page that replaces the list. *)
LEMMA HeadPreserved ==
    ASSUME NEW c \in Shown, NEW new \in Seq(Row), \A i \in 1..Len(new) : ~new[i].kept
    PROVE  LET p == preserveHead(c, new)
           IN p \in Shown /\ p.cursor = c.cursor /\ p.asks = c.asks /\ ListOf(p) = new
<1> DEFINE p == preserveHead(c, new)
           kept == stillShown(c)
           u == withoutLastText(new)
           v == lastText(new)
<1>1. c.tail \in Seq(Row) /\ c.head \in Seq(Row) /\ <<>> \in Seq(Row) /\ ofCursor(new) = new
    BY OfCursorAll DEF Shown
<1>2. u \in Seq(Row) /\ v \in Seq(Row) /\ u \o v = new
    BY LastTextIs
<1>3. kept \in Seq(Row) /\ \A i \in 1..Len(kept) : kept[i].kept
    <2> DEFINE s == c.head
    <2>1. s \in Seq(Row) /\ Len(s) \in Nat /\ DOMAIN s = 1..Len(s)
        BY <1>1
    <2>2. kept = [i \in 1..Len(s) |-> [s[i] EXCEPT !.kept = TRUE]]
        BY <2>1 DEF stillShown
    <2>3. \A i \in 1..Len(s) : s[i] \in Row
        BY <2>1, ElementOfSeq
    <2> HIDE DEF s, kept
    <2>4. \A r \in Row : [r EXCEPT !.kept = TRUE] \in Row /\ [r EXCEPT !.kept = TRUE].kept = TRUE
        BY DEF Row
    <2>5. kept \in [1..Len(s) -> Row]
        BY <2>2, <2>3, <2>4
    <2>6. kept \in Seq(Row) /\ Len(kept) = Len(s)
        BY <2>1, <2>5, SeqDef
    <2>7. \A i \in 1..Len(s) : kept[i].kept = TRUE
        BY <2>2, <2>3, <2>4
    <2>8. QED
        BY <2>6, <2>7
<1>4. p \in Shown /\ p.cursor = c.cursor /\ p.asks = c.asks /\ ListOf(p) = new
    <2>1. CASE c.head # <<>> /\ v = <<>>
        <3>1. p = [c EXCEPT !.tail = new, !.head = kept]
            BY <2>1 DEF preserveHead
        <3> HIDE DEF kept, p, u, v
        <3>2. /\ p \in Shown /\ p.cursor = c.cursor /\ p.asks = c.asks
              /\ p.tail = new /\ p.head = kept
            BY <1>3, <3>1 DEF Shown
        <3>3. ofCursor(new \o kept) = ofCursor(new) \o ofCursor(kept) /\ ofCursor(kept) = <<>>
            BY <1>3, OfCursorConcat, OfCursorNone
        <3>4. QED
            BY <1>1, <3>2, <3>3, ConcatEmptySeq DEF ListOf
    <2>2. CASE ~(c.head # <<>> /\ v = <<>>) /\ c.head # <<>> /\ IsPrefix(v, c.head)
        <3>1. p = [c EXCEPT !.tail = u, !.head = v]
            BY <2>2 DEF preserveHead
        <3> HIDE DEF kept, p, u, v
        <3>2. /\ p \in Shown /\ p.cursor = c.cursor /\ p.asks = c.asks
              /\ p.tail = u /\ p.head = v
            BY <1>2, <3>1 DEF Shown
        <3>3. QED
            BY <1>1, <1>2, <3>2 DEF ListOf
    <2>3. CASE ~(c.head # <<>> /\ v = <<>>) /\ ~(c.head # <<>> /\ IsPrefix(v, c.head))
        <3>1. p = [c EXCEPT !.tail = new, !.head = <<>>]
            BY <2>3 DEF preserveHead
        <3> HIDE DEF kept, p, u, v
        <3>2. /\ p \in Shown /\ p.cursor = c.cursor /\ p.asks = c.asks
              /\ p.tail = new /\ p.head = <<>>
            BY <1>1, <3>1 DEF Shown
        <3>3. QED
            BY <1>1, <3>2, ConcatEmptySeq DEF ListOf
    <2>4. QED
        BY <2>1, <2>2, <2>3
<1>5. QED
    BY <1>4

(* What a page with rows is. *)
LEMMA PageIs ==
    ASSUME Sizes, NEW m \in Sent, m.type = "response"
    PROVE  /\ m.epoch \in 1..epoch /\ m.epoch \in 1..MaxEpochs
           /\ m.first \in Nat \ {0} /\ m.last \in 0..len[m.epoch] /\ m.last <= MaxRows
           /\ m.op \in Direction /\ m.reset \in BOOLEAN
           /\ m.first > m.last /\ newest(m) => m.last = 0
           /\ \A s \in m.first..m.last : Rows(m.epoch, s)
<1>1. carries(m) /\ m \in Message
    BY DEF carries, Sent
<1>2. m.epoch \in 1..epoch /\ m.first >= 1 /\ m.last <= len[m.epoch]
    BY <1>1 DEF Sent
<1>3. m.first \in Nat /\ m.last \in Nat /\ m.op \in Direction /\ m.reset \in BOOLEAN
    BY <1>1 DEF Message
<1>4. m.epoch \in 1..MaxEpochs /\ len[m.epoch] \in 0..MaxRows /\ MaxRows \in Nat
    BY <1>2, SizesAre
<1>5. m.first > m.last /\ newest(m) => m.last = 0
    BY <1>1 DEF Sent
<1>6. \A s \in m.first..m.last : Rows(m.epoch, s)
    BY <1>2, <1>3, <1>4 DEF Rows
<1>7. QED
    BY <1>2, <1>3, <1>4, <1>5, <1>6

(* A cursor w in the place of v: an empty one only for a newer epoch. *)
Succeeds(v, w) == Onward(v, w) \/ (w = None /\ v.epoch < epoch)

Merges(c, b, m, o) ==
    /\ b \in Shown /\ Succeeds(c.cursor, b.cursor) /\ Touches(c.cursor, b.cursor, m)
    /\ o \in Nat /\ Covers(b.cursor, ListOf(b), o)

LEMMA PageReplaces ==
    ASSUME Sizes, NEW c \in Shown, NEW m \in Sent, m.type = "response", newest(m),
           CursorUpto(c.cursor, m)
    PROVE  Merges(c, applyTimelineReplacePath(c, m), m, 0)
<1> DEFINE e == m.epoch
           f == m.first
           l == m.last
           r == rows(e, f, l)
           p == preserveHead(c, r)
           new == [epoch |-> e, startSeq |-> f, endSeq |-> l]
           b == applyTimelineReplacePath(c, m)
<1>1. /\ e \in 1..epoch /\ e \in 1..MaxEpochs /\ f \in Nat \ {0} /\ l \in 0..len[e]
      /\ l <= MaxRows /\ (f > l => l = 0) /\ \A s \in f..l : Rows(e, s)
    BY PageIs
<1>2. MaxRows \in Nat /\ l \in Nat /\ l \in Int /\ e \in Nat /\ epoch \in Nat
    BY <1>1, SizesAre
<1>3. carries(m)
    BY DEF carries
<1>4. /\ c.cursor = None \/ (c.cursor \in Displayable /\ c.cursor.epoch \in Nat
                               /\ c.cursor.endSeq \in Nat \ {0})
      /\ c.asks \in Seq(Asks)
    BY DEF Shown, Displayable, Cursor
<1>5. c.cursor # None => c.cursor.epoch < e \/ (c.cursor.epoch = e /\ c.cursor.endSeq <= l)
    BY <1>2, <1>4 DEF CursorUpto, Upto
<1> HIDE DEF e, f, l
<1>6. /\ r \in Seq(Row) /\ Len(r) = (IF f <= l THEN l - f + 1 ELSE 0)
      /\ \A i \in 1..(l - f + 1) : r[i] = rowOf(e, f + i - 1)
      /\ \A i \in 1..Len(r) : ~r[i].kept
    BY <1>1, <1>2, RowsIs DEF rowOf
<1> HIDE DEF r
<1>7. p \in Shown /\ p.cursor = c.cursor /\ p.asks = c.asks /\ ListOf(p) = r
    BY <1>6, HeadPreserved
<1>8. b = [p EXCEPT !.cursor = IF f > l THEN None ELSE new,
                    !.asks = IF f > l \/ m.reset THEN @ ELSE Append(@, after(new))]
    BY Zenon DEF applyTimelineReplacePath, e, f, l, r
<1> HIDE DEF p, b
<1>9. CASE f > l
    <2>1. b = [p EXCEPT !.cursor = None]
        BY <1>7, <1>8, <1>9 DEF Shown
    <2>2. b \in Shown /\ b.cursor = None /\ b.tail = p.tail /\ b.head = p.head
        BY <1>7, <2>1 DEF Shown
    <2>3. ListOf(b) = <<>>
        <3>1. Len(r) = 0
            BY <1>1, <1>2, <1>6, <1>9
        <3>2. r = <<>>
            BY <1>6, <3>1, EmptySeq
        <3>3. QED
            BY <1>7, <2>2, <3>2 DEF ListOf
    <2>4. c.cursor # None => c.cursor.epoch < epoch
        BY <1>1, <1>2, <1>4, <1>5, <1>9
    <2>5. QED
        BY <2>2, <2>3, <2>4 DEF Merges, Covers, Touches, Succeeds, Onward, b
<1>10. CASE ~(f > l)
    <2>1. f <= l /\ Rows(e, l) /\ f \in 1..MaxRows /\ l \in 1..MaxRows
        BY <1>1, <1>2, <1>10
    <2>2. new \in Displayable /\ new.epoch = e /\ new.startSeq = f /\ new.endSeq = l
        <3>1. new \in Cursor
            BY <1>1, <2>1 DEF Cursor
        <3>2. new.epoch = e /\ new.startSeq = f /\ new.endSeq = l
            OBVIOUS
        <3> HIDE DEF new
        <3>3. QED
            BY <2>1, <3>1, <3>2 DEF Displayable
    <2> HIDE DEF new
    <2>3. new # None
        BY <2>2, NoneAssumption DEF Displayable
    <2> DEFINE asked == IF m.reset THEN p.asks ELSE Append(p.asks, after(new))
    <2>4. asked \in Seq(Asks)
        <3>1. after(new) \in Asks
            BY <2>2, AsksForWhatIsAfter
        <3>2. QED
            BY <1>4, <1>7, <3>1, AppendProperties
    <2>5. b = [p EXCEPT !.cursor = new, !.asks = asked]
        BY <1>7, <1>8, <1>10 DEF Shown
    <2> HIDE DEF asked
    <2>6. b \in Shown /\ b.cursor = new /\ b.tail = p.tail /\ b.head = p.head
        BY <1>7, <2>2, <2>4, <2>5 DEF Shown
    <2>7. ListOf(b) = r
        BY <1>7, <2>6 DEF ListOf
    <2>8. Ranged(r, 0, e, f, l)
        <3>1. 0 + (l - f + 1) = Len(r)
            BY <1>1, <1>2, <1>6, <2>1
        <3>2. \A i \in 1..(l - f + 1) : 0 + i = i
            OBVIOUS
        <3>3. QED
            BY <1>6, <3>1, <3>2 DEF Ranged, rowOf
    <2>9. Covers(new, r, 0)
        <3>1. f \in f..l
            BY <2>1
        <3>2. QED
            BY <2>2, <2>3, <2>8, <3>1 DEF Covers
    <2>10. Onward(c.cursor, new)
        BY <1>5, <2>2, <2>3 DEF Onward
    <2>11. Touches(c.cursor, new, m)
        BY <1>2, <1>3, <2>2 DEF Touches, e, l
    <2>12. QED
        BY <2>6, <2>7, <2>9, <2>10, <2>11 DEF Merges, Succeeds, b
<1>11. QED
    BY <1>9, <1>10

-----------------------------------------------------------------------------
(* A page of older rows. *)
LEMMA RangedShifted ==
    ASSUME NEW list \in Seq(Row), NEW r \in Seq(Row), NEW o \in Nat, NEW e,
           NEW first \in Nat, NEW last \in Nat, first <= last, Ranged(list, o, e, first, last)
    PROVE  Ranged(r \o list, o + Len(r), e, first, last)
<1> DEFINE n == last - first + 1
           k == Len(r)
           w == r \o list
<1>1. n \in Nat /\ k \in Nat /\ o + n = Len(list)
    BY DEF Ranged
<1>2. Len(w) = k + Len(list) /\ \A i \in 1..Len(list) : w[k + i] = list[i]
    BY <1>1
<1> HIDE DEF w, k
<1>3. \A i \in 1..n : w[(o + k) + i] = list[o + i]
    <2> TAKE i \in 1..n
    <2>1. o + i \in 1..Len(list) /\ (o + k) + i = k + (o + i)
        BY <1>1
    <2>2. QED
        BY <1>2, <2>1
<1>4. (o + k) + n = Len(w)
    <2>1. Len(w) = k + Len(list)
        BY <1>2
    <2>2. QED
        BY <1>1, <2>1
<1>5. \A i \in 1..n : list[o + i] = [epoch |-> e, seq |-> first + i - 1, kept |-> FALSE]
    BY DEF Ranged
<1>6. QED
    BY <1>3, <1>4, <1>5 DEF Ranged, w, k

LEMMA RangedJoined ==
    ASSUME NEW list \in Seq(Row), NEW r \in Seq(Row), NEW e, NEW f \in Nat,
           NEW first \in Nat, NEW last \in Nat, f < first, first <= last,
           Ranged(list, 0, e, first, last), Ranged(r, 0, e, f, first - 1)
    PROVE  Ranged(r \o list, 0, e, f, last)
<1> DEFINE n == last - first + 1
           k == first - f
           w == r \o list
<1>1. /\ n \in Nat /\ k \in Nat /\ n = Len(list) /\ k = Len(r)
      /\ (\A i \in 1..n : list[0 + i] = [epoch |-> e, seq |-> first + i - 1, kept |-> FALSE])
      /\ (\A i \in 1..k : r[0 + i] = [epoch |-> e, seq |-> f + i - 1, kept |-> FALSE])
    <2>1. (first - 1) - f + 1 = k
        OBVIOUS
    <2>2. QED
        BY <2>1 DEF Ranged
<1>2. /\ Len(w) = k + n /\ (\A i \in 1..k : w[i] = r[i])
      /\ \A i \in 1..n : w[k + i] = list[i]
    <2>1. Len(r) = k /\ Len(list) = n /\ k \in Nat /\ n \in Nat
        BY <1>1
    <2> HIDE DEF k, n
    <2>2. /\ Len(w) = Len(r) + Len(list)
          /\ \A i \in 1..(Len(r) + Len(list)) :
                w[i] = IF i <= Len(r) THEN r[i] ELSE list[i - Len(r)]
        BY ConcatProperties
    <2>3. \A i \in 1..n : k + i \in 1..(k + n) /\ ~(k + i <= k) /\ (k + i) - k = i
        BY <2>1
    <2>4. \A i \in 1..k : i \in 1..(k + n) /\ i <= k
        BY <2>1
    <2> HIDE DEF w
    <2>5. QED
        BY <2>1, <2>2, <2>3, <2>4, SMTT(20)
<1>3. n = last - first + 1 /\ k = first - f
    OBVIOUS
<1> HIDE DEF w, k, n
<1>4. last - f + 1 = k + n
    BY <1>3
<1>5. \A i \in 1..(k + n) : w[0 + i] = [epoch |-> e, seq |-> f + i - 1, kept |-> FALSE]
    <2> TAKE i \in 1..(k + n)
    <2>1. CASE i <= k
        <3>1. i \in 1..k /\ 0 + i = i
            BY <1>1, <2>1
        <3>2. w[i] = r[0 + i]
            BY <1>2, <3>1
        <3>3. QED
            BY <1>1, <3>1, <3>2
    <2>2. CASE i > k
        <3> DEFINE j == i - k
        <3>1. j \in 1..n /\ 0 + i = k + j /\ 0 + j = j /\ f + i - 1 = first + j - 1
            BY <1>1, <1>3, <2>2
        <3> HIDE DEF j
        <3>2. w[k + j] = list[0 + j]
            BY <1>2, <3>1
        <3>3. list[0 + j] = [epoch |-> e, seq |-> first + j - 1, kept |-> FALSE]
            BY <1>1, <3>1
        <3>4. QED
            BY <3>1, <3>2, <3>3
    <2>3. QED
        BY <1>1, <2>1, <2>2
<1>6. 0 + (last - f + 1) = Len(w)
    BY <1>1, <1>2, <1>4
<1>7. QED
    BY <1>4, <1>5, <1>6 DEF Ranged, w

LEMMA OlderAccepted ==
    ASSUME Sizes, NEW c \in Shown, NEW m \in Sent, m.type = "response", m.op = "before", ~m.reset,
           outdated \in Nat, Covers(c.cursor, ListOf(c), outdated)
    PROVE  Merges(c, acceptOlder(c, m), m, outdatedBy(c, m))
<1> DEFINE r == olderRows(c, m)
           b == acceptOlder(c, m)
           o == outdatedBy(c, m)
           v == c.cursor
<1>1. ~replaces(m)
    BY DEF replaces, isBootstrap
<1>2. o = IF outdated > 0 \/ leavesHole(c, m) THEN outdated + Len(r) ELSE outdated
    BY <1>1 DEF outdatedBy
<1>3. v \in Displayable \cup {None} /\ c.tail \in Seq(Row) /\ c.head \in Seq(Row)
    BY DEF Shown
<1>4. CASE r = <<>>
    <2>1. b = c
        BY <1>4 DEF acceptOlder
    <2>2. o = outdated
        <3>1. ~leavesHole(c, m)
            BY <1>4 DEF leavesHole
        <3>2. Len(r) = 0
            BY <1>4
        <3>3. QED
            BY <1>2, <3>1, <3>2
    <2>3. QED
        BY <1>3, <2>1, <2>2, OnwardItself DEF Merges, Succeeds, Touches
<1>5. CASE r # <<>>
    <2> DEFINE e == m.epoch
               f == m.first
               k == Min({m.last, v.startSeq - 1})
    <2>1. v # None /\ v.epoch = e /\ r = rows(e, f, k)
        BY <1>5 DEF olderRows
    <2>2. /\ v \in Cursor /\ v \in Displayable /\ v.startSeq \in 1..MaxRows /\ v.endSeq \in 1..MaxRows
          /\ v.startSeq <= v.endSeq /\ Rows(v.epoch, v.endSeq) /\ v.epoch \in Nat
        BY <1>3, <2>1 DEF Displayable, Cursor
    <2>3. /\ e \in 1..MaxEpochs /\ f \in Nat \ {0} /\ m.last \in Nat /\ m.last <= MaxRows
          /\ MaxRows \in Nat
        <3>1. m.last \in 0..len[m.epoch] /\ len[m.epoch] \in 0..MaxRows
            BY PageIs, SizesAre
        <3>2. QED
            BY <3>1, PageIs, SizesAre
    <2>4. k \in Int /\ k <= MaxRows /\ k <= v.startSeq - 1
        <3>1. m.last \in Int /\ v.startSeq - 1 \in Int
            BY <2>2, <2>3
        <3>2. k = IF m.last <= v.startSeq - 1 THEN m.last ELSE v.startSeq - 1
            BY <3>1, SmallerOfTwo
        <3>3. QED
            BY <2>2, <2>3, <3>1, <3>2
    <2> HIDE DEF k, e, f, r
    <2>5. /\ r \in Seq(Row) /\ Len(r) = (IF f <= k THEN k - f + 1 ELSE 0)
          /\ \A i \in 1..(k - f + 1) : r[i] = [epoch |-> e, seq |-> f + i - 1, kept |-> FALSE]
          /\ \A i \in 1..Len(r) : ~r[i].kept
        <3>1. k \in Int /\ k <= MaxRows /\ e \in 1..MaxEpochs /\ f \in Nat \ {0}
            BY <2>3, <2>4
        <3>2. /\ rows(e, f, k) \in Seq(Row)
              /\ Len(rows(e, f, k)) = (IF f <= k THEN k - f + 1 ELSE 0)
              /\ \A i \in 1..(k - f + 1) :
                    rows(e, f, k)[i] = [epoch |-> e, seq |-> f + i - 1, kept |-> FALSE]
              /\ \A i \in 1..Len(rows(e, f, k)) : ~rows(e, f, k)[i].kept
            BY <3>1, RowsIs
        <3>3. r = rows(e, f, k)
            BY <2>1
        <3>4. QED
            BY <3>2, <3>3
    <2>6. f <= k /\ Len(r) = k - f + 1 /\ Len(r) \in Nat \ {0}
        <3>1. Len(r) # 0
            BY <1>5, <2>5, EmptySeq
        <3>2. QED
            BY <2>3, <2>4, <2>5, <3>1
    <2> DEFINE w == [v EXCEPT !.startSeq = f]
    <2>7. /\ w \in Displayable /\ w # None /\ w.epoch = e /\ w.endSeq = v.endSeq /\ w.startSeq = f
        <3>1. f \in 1..MaxRows /\ f <= v.endSeq
            BY <2>2, <2>3, <2>4, <2>6, SMTT(20)
        <3>2. w \in Cursor /\ w.epoch = e /\ w.endSeq = v.endSeq /\ w.startSeq = f
            BY <2>1, <2>2, <3>1 DEF Cursor
        <3> HIDE DEF w
        <3>3. QED
            BY <2>1, <2>2, <3>1, <3>2, NoneAssumption DEF Displayable
    <2> HIDE DEF w
    <2>8. /\ b \in Shown /\ b.cursor = w /\ b.tail = r \o c.tail /\ b.head = c.head
        <3> DEFINE u == r \o c.tail
        <3>1. u \in Seq(Row)
            BY <1>3, <2>5, ConcatProperties
        <3>2. b = [c EXCEPT !.tail = u, !.cursor = w]
            <4>1. b = [c EXCEPT !.tail = r \o @, !.cursor.startSeq = m.first]
                BY <1>5 DEF acceptOlder, r
            <4>2. QED
                BY <4>1 DEF Shown, w, f
        <3> HIDE DEF u, b
        <3>3. b \in Shown /\ b.cursor = w /\ b.tail = u /\ b.head = c.head
            BY <2>7, <3>1, <3>2 DEF Shown
        <3>4. QED
            BY <3>3 DEF u
    <2> DEFINE list == ListOf(c)
    <2>9. list \in Seq(Row) /\ ListOf(b) = r \o list
        <3>1. (r \o c.tail) \o c.head = r \o (c.tail \o c.head)
            <4>1. PICK x, y : x = c.tail /\ y = c.head
                OBVIOUS
            <4>2. x \in Seq(Row) /\ y \in Seq(Row)
                BY <1>3, <4>1
            <4>3. (r \o x) \o y = r \o (x \o y)
                BY <2>5, <4>2, RowsAssociate
            <4>4. QED
                BY <4>1, <4>3
        <3>2. c.tail \o c.head \in Seq(Row)
            BY <1>3, ConcatProperties
        <3>3. ofCursor(r \o (c.tail \o c.head)) = ofCursor(r) \o ofCursor(c.tail \o c.head)
            BY <2>5, <3>2, OfCursorConcat
        <3>4. ofCursor(r) = r
            BY <2>5, OfCursorAll
        <3>5. QED
            BY <2>8, <3>1, <3>3, <3>4, ListIs DEF ListOf
    <2>10. PICK first \in v.startSeq..v.endSeq :
              Ranged(list, outdated, e, first, v.endSeq) /\ (outdated = 0 => first = v.startSeq)
        BY <2>1 DEF Covers
    <2>11. first \in Nat /\ first <= v.endSeq /\ v.endSeq \in Nat /\ v.startSeq <= first /\ v.startSeq \in Nat
        BY <2>2, <2>10
    <2> HIDE DEF list, r, b, o, v
    <2>12. o \in Nat /\ Covers(w, r \o list, o)
        <3>1. CASE outdated > 0 \/ leavesHole(c, m)
            <4>1. o = outdated + Len(r)
                BY <1>2, <3>1
            <4>2. Ranged(r \o list, outdated + Len(r), e, first, v.endSeq)
                BY <2>5, <2>9, <2>10, <2>11, RangedShifted
            <4>3. first \in w.startSeq..w.endSeq
                BY <2>2, <2>3, <2>4, <2>6, <2>7, <2>11
            <4>4. o \in Nat /\ o # 0
                BY <2>6, <4>1
            <4>5. QED
                BY <2>7, <4>1, <4>2, <4>3, <4>4 DEF Covers
        <3>2. CASE ~(outdated > 0 \/ leavesHole(c, m))
            <4>1. o = 0 /\ outdated = 0
                BY <1>2, <3>2
            <4>2. k = v.startSeq - 1
                <5>1. Last(r).seq + 1 = v.startSeq
                    BY <1>5, <3>2 DEF leavesHole, r, v
                <5>2. Last(r) = r[Len(r)] /\ Len(r) = k - f + 1 /\ Len(r) \in 1..(k - f + 1)
                    BY <2>6 DEF Last
                <5>3. r[Len(r)] = [epoch |-> e, seq |-> f + Len(r) - 1, kept |-> FALSE]
                    BY <2>5, <5>2
                <5>4. Last(r).seq = f + Len(r) - 1
                    BY <5>2, <5>3
                <5>5. f + Len(r) - 1 = k
                    BY <2>3, <2>4, <2>6
                <5>6. QED
                    BY <2>4, <2>11, <5>1, <5>4, <5>5
            <4>3. Ranged(r, 0, e, f, v.startSeq - 1)
                <5>1. 0 + (k - f + 1) = Len(r)
                    BY <2>3, <2>4, <2>6
                <5>2. \A i \in 1..(k - f + 1) : 0 + i = i
                    OBVIOUS
                <5>3. QED
                    BY <2>5, <4>2, <5>1, <5>2 DEF Ranged
            <4>4. Ranged(list, 0, e, v.startSeq, v.endSeq)
                BY <2>10, <4>1
            <4>5. f < v.startSeq /\ v.startSeq <= v.endSeq /\ f \in Nat
                BY <2>2, <2>3, <2>4, <2>6, <2>11
            <4>6. Ranged(r \o list, 0, e, f, v.endSeq)
                BY <2>5, <2>9, <2>11, <4>3, <4>4, <4>5, RangedJoined
            <4>7. f \in w.startSeq..w.endSeq
                BY <2>7, <2>11, <4>5
            <4>8. QED
                BY <2>7, <4>1, <4>6, <4>7 DEF Covers
        <3>3. QED
            BY <3>1, <3>2
    <2>13. Onward(v, w) /\ Touches(v, w, m)
        BY <2>1, <2>2, <2>7, <2>11 DEF Onward, Touches
    <2>14. QED
        BY <2>8, <2>9, <2>12, <2>13 DEF Merges, Succeeds, b, o, v, list
<1>6. QED
    BY <1>4, <1>5

-----------------------------------------------------------------------------
(* A page of newer rows. *)
Headed(c) == {b \in Shown : c.head = <<>> => b.head = <<>>}

LEMMA GoesItself == ASSUME NEW c \in Shown, NEW m PROVE Goes(c, c, m)
BY OnwardItself DEF Goes, Touches

LEMMA GoesOn ==
    ASSUME NEW b \in Shown, NEW c \in Shown, NEW d, NEW m, Goes(c, b, m), Goes(b, d, m)
    PROVE  Goes(c, d, m)
<1>1. PICK u, v, w : u = c.cursor /\ v = b.cursor /\ w = d.cursor
    OBVIOUS
<1>2. /\ u \in Displayable \cup {None} /\ v \in Displayable \cup {None}
      /\ w \in Displayable \cup {None}
    BY <1>1 DEF Goes, Shown
<1>3. Onward(u, v) /\ Onward(v, w) /\ Touches(u, v, m) /\ Touches(v, w, m)
    BY <1>1 DEF Goes
<1>4. Onward(u, w)
    BY <1>2, <1>3, OnwardTrans
<1>5. Touches(u, w, m)
    BY <1>3 DEF Touches
<1>6. QED
    BY <1>1, <1>4, <1>5 DEF Goes

LEMMA RowAccepted ==
    ASSUME Sizes, NEW c \in Shown, NEW b \in Headed(c), NEW m \in Sent, m.type = "response",
           NEW s \in m.first..m.last
    PROVE  /\ acceptRow(c, b, rowOf(m.epoch, s)) \in Headed(c)
           /\ Goes(b, acceptRow(c, b, rowOf(m.epoch, s)), m)
<1> DEFINE e == m.epoch
           row == rowOf(e, s)
           d == acceptRow(c, b, row)
           decision == classifySessionTimelineSeq(b.cursor, e, s)
<1>1. /\ b \in Shown /\ b.cursor \in Displayable \cup {None} /\ b.tail \in Seq(Row)
      /\ b.head \in Seq(Row) /\ (c.head = <<>> => b.head = <<>>)
    BY DEF Headed, Shown
<1>2. Rows(e, s) /\ m.last \in Nat /\ s <= m.last /\ s \in Nat /\ e \in Nat /\ carries(m)
    <2>1. /\ m.epoch \in 1..MaxEpochs /\ m.first \in Nat \ {0} /\ m.last \in 0..len[m.epoch]
          /\ \A n \in m.first..m.last : Rows(m.epoch, n)
        BY PageIs
    <2>2. QED
        BY <2>1 DEF carries
<1>3. row \in Row /\ ~row.kept /\ row.epoch = e /\ row.seq = s
    BY <1>2, RowOf DEF rowOf
<1>4. Goes(b, b, m)
    BY <1>1, GoesItself
<1>5. /\ decision \in {"init", "accept"} => Next1(b.cursor, e, s)
      /\ decision = "gap" => b.cursor \in Displayable
      /\ decision \in {"init", "accept", "gap", "drop_epoch", "drop_stale"}
    <2>1. PICK v : v = b.cursor
        OBVIOUS
    <2>2. v \in Displayable \cup {None}
        BY <1>1, <2>1
    <2> HIDE DEF e
    <2>3. QED
        BY <1>2, <2>1, <2>2, Classified
<1> HIDE DEF e, row
<1>6. CASE b.asks # c.asks
    <2>1. d = b
        BY <1>6 DEF acceptRow
    <2>2. QED
        BY <1>4, <2>1 DEF row, e
<1>7. CASE b.asks = c.asks /\ decision \in {"init", "accept"}
    <2> DEFINE a == IF c.head # <<>> THEN applyStreamEvent(b, row)
                                     ELSE [b EXCEPT !.tail = Append(@, row)]
    <2>1. /\ a \in Shown /\ a.cursor = b.cursor /\ ListOf(a) = ListOf(b) \o <<row>>
          /\ (c.head = <<>> => a.head = <<>>)
        <3>1. CASE c.head # <<>>
            BY <1>1, <1>3, <3>1, StreamEventApplied
        <3>2. CASE c.head = <<>>
            <4> DEFINE u == Append(b.tail, row)
            <4>1. u \in Seq(Row) /\ u = b.tail \o <<row>> /\ <<row>> \in Seq(Row)
                BY <1>1, <1>3, AppendIsConcat, AppendProperties
            <4>2. a = [b EXCEPT !.tail = u]
                BY <1>1, <3>2 DEF Shown
            <4> HIDE DEF a, u
            <4>3. a \in Shown /\ a.cursor = b.cursor /\ a.tail = u /\ a.head = <<>> /\ b.head = <<>>
                BY <1>1, <3>2, <4>1, <4>2 DEF Shown
            <4>4. a.tail \o a.head = u /\ b.tail \o b.head = b.tail
                BY <1>1, <4>1, <4>3, ConcatEmptySeq
            <4>5. ofCursor(<<row>>) = <<row>>
                <5>1. \A i \in 1..Len(<<row>>) : <<row>>[i] = row
                    OBVIOUS
                <5>2. \A i \in 1..Len(<<row>>) : ~ <<row>>[i].kept
                    BY <1>3, <5>1, Zenon
                <5>3. QED
                    BY <4>1, <5>2, OfCursorAll
            <4>6. ofCursor(b.tail \o <<row>>) = ofCursor(b.tail) \o ofCursor(<<row>>)
                <5>1. PICK x, y : x = b.tail /\ y = <<row>>
                    OBVIOUS
                <5>2. QED
                    BY <1>1, <4>1, <5>1, OfCursorConcat
            <4>7. QED
                BY <4>1, <4>3, <4>4, <4>5, <4>6 DEF ListOf
        <3>3. QED
            BY <3>1, <3>2
    <2>2. Took(a, d, e, s)
        BY <1>3, <1>7 DEF acceptRow, Took
    <2> HIDE DEF a, d, decision
    <2>3. /\ d \in Shown /\ d.head = a.head /\ d.cursor # None /\ d.cursor.epoch = e /\ d.cursor.endSeq = s
          /\ Onward(b.cursor, d.cursor)
          /\ \A o \in Nat : Covers(b.cursor, ListOf(b), o) => Covers(d.cursor, ListOf(d), o)
        <3>1. Next1(b.cursor, e, s) /\ b \in Shown
            BY <1>1, <1>5, <1>7
        <3>2. ListOf(a) = ListOf(b) \o <<rowOf(e, s)>>
            BY <2>1 DEF row
        <3>3. QED
            BY <1>2, <2>1, <2>2, <3>1, <3>2, RowTaken, SMTT(20)
    <2>4. Touches(b.cursor, d.cursor, m)
        BY <1>2, <2>3 DEF Touches, e
    <2>5. QED
        BY <2>1, <2>3, <2>4 DEF Goes, Headed, d, row, e
<1>8. CASE b.asks = c.asks /\ decision = "gap"
    <2>1. d = [b EXCEPT !.asks = Append(@, after(b.cursor))]
        BY <1>3, <1>8 DEF acceptRow
    <2>2. PICK v : v = b.cursor
        OBVIOUS
    <2>3. v \in Displayable
        BY <1>5, <1>8, <2>2
    <2> HIDE DEF d, decision
    <2>4. d \in Shown /\ d.cursor = b.cursor /\ ListOf(d) = ListOf(b) /\ d.head = b.head
        BY <1>1, <2>1, <2>2, <2>3, Asked
    <2>5. Goes(b, d, m)
        BY <1>4, <2>4 DEF Goes
    <2>6. QED
        BY <1>1, <2>4, <2>5 DEF Headed, d, row, e
<1>9. CASE b.asks = c.asks /\ decision \notin {"init", "accept", "gap"}
    <2>1. d = b
        BY <1>3, <1>9 DEF acceptRow
    <2>2. QED
        BY <1>4, <2>1 DEF row, e
<1>10. QED
    BY <1>6, <1>7, <1>8, <1>9

LEMMA AcceptedIs ==
    ASSUME Sizes, NEW c \in Shown, NEW m \in Sent, m.type = "response",
           NEW page, page = rows(m.epoch, m.first, m.last)
    PROVE  LET a == accepted(c, page)
           IN /\ Len(page) \in Nat
              /\ a[0] = c
              /\ \A i \in 1..Len(page) : a[i] = acceptRow(c, a[i - 1], page[i])
              /\ \A i \in 1..Len(page) :
                    \E s \in m.first..m.last : page[i] = rowOf(m.epoch, s)
<1> DEFINE n == Len(page)
           St == Headed(c)
           G == [p \in (1..n) \X St |-> acceptRow(c, p[2], page[p[1]])]
<1>1. n \in Nat /\ c \in St /\ \A i \in 1..n : \E s \in m.first..m.last : page[i] = rowOf(m.epoch, s)
    <2>1. /\ m.epoch \in 1..MaxEpochs /\ m.first \in Nat \ {0} /\ m.last \in Int /\ m.last <= MaxRows
        BY PageIs
    <2>2. /\ page \in Seq(Row)
          /\ Len(page) = (IF m.first <= m.last THEN m.last - m.first + 1 ELSE 0)
          /\ \A i \in 1..(m.last - m.first + 1) :
                page[i] = [epoch |-> m.epoch, seq |-> m.first + i - 1, kept |-> FALSE]
        BY <2>1, RowsIs
    <2>3. \A i \in 1..n : m.first + i - 1 \in m.first..m.last
                            /\ page[i] = rowOf(m.epoch, m.first + i - 1)
        BY <2>1, <2>2 DEF rowOf
    <2>4. n \in Nat
        BY <2>2
    <2> HIDE DEF n
    <2>5. QED
        BY <2>3, <2>4 DEF Headed
<1>2. \A i \in 1..n, x \in St :
         G[<<i, x>>] = acceptRow(c, x, page[i]) /\ G[<<i, x>>] \in St
    <2> TAKE i \in 1..n, x \in St
    <2>1. PICK s \in m.first..m.last : page[i] = rowOf(m.epoch, s)
        BY <1>1
    <2>2. acceptRow(c, x, page[i]) \in St
        BY <2>1, RowAccepted
    <2>3. <<i, x>> \in (1..n) \X St /\ <<i, x>>[1] = i /\ <<i, x>>[2] = x
        BY Zenon
    <2>4. G[<<i, x>>] = acceptRow(c, x, page[i])
        <3> HIDE DEF n, St
        <3>1. QED
            BY <2>3
    <2>5. QED
        BY <2>2, <2>4
<1> HIDE DEF n, St, G
<1>3. PICK F \in [0..n -> St] : Recurs(F, n, c, G)
    <2>1. StepsIn(St, n, G)
        BY <1>2 DEF StepsIn
    <2>2. QED
        BY <1>1, <2>1, Recursion
<1>4. \A i \in 0..n : (IF i = 0 THEN c ELSE G[<<i, F[i - 1]>>])
                        = IF i = 0 THEN c ELSE acceptRow(c, F[i - 1], page[i])
    <2> SUFFICES ASSUME NEW i \in 0..n, i # 0
                 PROVE  G[<<i, F[i - 1]>>] = acceptRow(c, F[i - 1], page[i])
        BY Zenon
    <2>1. i \in 1..n /\ F[i - 1] \in St
        BY <1>1, <1>3
    <2>2. QED
        BY <1>2, <2>1
<1>5. F = [i \in 0..n |-> IF i = 0 THEN c ELSE acceptRow(c, F[i - 1], page[i])]
    BY <1>3, <1>4, ZenonT(30) DEF Recurs
<1>6. accepted(c, page)
        = [i \in 0..n |-> IF i = 0 THEN c ELSE acceptRow(c, accepted(c, page)[i - 1], page[i])]
    BY <1>5 DEF accepted, n
<1>7. \A i \in 0..n : accepted(c, page)[i]
                        = IF i = 0 THEN c ELSE acceptRow(c, accepted(c, page)[i - 1], page[i])
    BY <1>6, Zenon
<1>8. 0 \in 0..n /\ \A i \in 1..n : i \in 0..n /\ i # 0
    BY <1>1
<1>9. QED
    BY <1>1, <1>7, <1>8, Zenon DEF n

LEMMA IncrementalAccepted ==
    ASSUME Sizes, NEW c \in Shown, NEW m \in Sent, m.type = "response"
    PROVE  Goes(c, acceptIncremental(c, m), m)
<1>1. PICK page : page = rows(m.epoch, m.first, m.last)
    OBVIOUS
<1> DEFINE n == Len(page)
           a == accepted(c, page)
           S == {i \in 0..n : a[i] \in Headed(c) /\ Goes(c, a[i], m)}
<1>2. /\ n \in Nat /\ a[0] = c
      /\ \A i \in 1..n : a[i] = acceptRow(c, a[i - 1], page[i])
      /\ \A i \in 1..n : \E s \in m.first..m.last : page[i] = rowOf(m.epoch, s)
    BY <1>1, AcceptedIs
<1> HIDE DEF n, a
<1>3. 0 \in S
    BY <1>2, GoesItself DEF Headed
<1>4. ASSUME NEW i \in 0..(n - 1), i \in S
      PROVE  i + 1 \in S
    <2>1. i + 1 \in 1..n /\ (i + 1) - 1 = i /\ i + 1 \in 0..n
        BY <1>2
    <2>2. PICK s \in m.first..m.last : page[i + 1] = rowOf(m.epoch, s)
        BY <1>2, <2>1
    <2>3. PICK b, d : b = a[i] /\ d = a[i + 1]
        OBVIOUS
    <2>4. b \in Headed(c) /\ b \in Shown /\ Goes(c, b, m)
        BY <1>4, <2>3 DEF Headed
    <2>5. d = acceptRow(c, b, rowOf(m.epoch, s))
        BY <1>2, <2>1, <2>2, <2>3
    <2>6. d \in Headed(c) /\ Goes(b, d, m)
        BY <2>4, <2>5, RowAccepted
    <2>7. Goes(c, d, m)
        BY <2>4, <2>6, GoesOn
    <2>8. QED
        BY <2>1, <2>3, <2>6, <2>7
<1> HIDE DEF S
<1>5. \A i \in 0..n : i \in S
    BY <1>2, <1>3, <1>4, Counting
<1>6. n \in 0..n
    BY <1>2
<1>7. acceptIncremental(c, m) = a[n]
    BY <1>1 DEF acceptIncremental, a, n
<1>8. QED
    BY <1>5, <1>6, <1>7 DEF S

(* Any page: the list it leaves is the cursor's, and the cursor is not set back. *)
LEMMA ResponseProcessed ==
    ASSUME Sizes, NEW c \in Shown, NEW m \in Sent, m.type = "response", outdated \in Nat,
           Covers(c.cursor, ListOf(c), outdated), newest(m) => CursorUpto(c.cursor, m)
    PROVE  Merges(c, processTimelineResponse(c, m), m, outdatedBy(c, m))
<1>1. CASE replaces(m)
    <2>1. newest(m)
        BY <1>1 DEF replaces, isBootstrap, newest
    <2>2. Merges(c, applyTimelineReplacePath(c, m), m, 0)
        BY <2>1, PageReplaces
    <2>3. QED
        BY <1>1, <2>2 DEF processTimelineResponse, outdatedBy
<1>2. CASE ~replaces(m) /\ m.op = "before"
    <2>1. ~m.reset
        BY <1>2 DEF replaces
    <2>2. Merges(c, acceptOlder(c, m), m, outdatedBy(c, m))
        BY <1>2, <2>1, OlderAccepted
    <2>3. QED
        BY <1>2, <2>2 DEF processTimelineResponse
<1>3. CASE ~replaces(m) /\ m.op # "before"
    <2>1. outdatedBy(c, m) = outdated
        BY <1>3 DEF outdatedBy
    <2>2. Goes(c, acceptIncremental(c, m), m)
        BY IncrementalAccepted
    <2>3. QED
        BY <1>3, <2>1, <2>2 DEF processTimelineResponse, Goes, Merges, Succeeds
<1>4. QED
    BY <1>1, <1>2, <1>3

-----------------------------------------------------------------------------
(* What stays good when the store's logs grow. *)
Grown ==
    /\ Sizes /\ Sizes'
    /\ epoch <= epoch' /\ \A e \in 1..epoch : len[e] <= len'[e]

LEMMA Stays == ASSUME Sizes, len' = len PROVE Grown
<1>1. epoch' = epoch /\ Sizes'
    BY DEF Sizes, epoch
<1>2. epoch \in Nat /\ \A e \in 1..epoch : len[e] \in Nat
    BY SizesAre
<1>3. QED
    BY <1>1, <1>2 DEF Grown

LEMMA GrownSets ==
    ASSUME Grown
    PROVE  /\ \A e, n : Rows(e, n) => Rows(e, n)'
           /\ Asks \subseteq Asks' /\ Sent \subseteq Sent' /\ Live \subseteq Live'
           /\ Displayable \subseteq Displayable'
<1>1. /\ epoch \in Nat /\ epoch' \in Nat /\ epoch <= epoch'
      /\ \A e \in 1..epoch : len[e] \in Nat /\ len'[e] \in Nat /\ len[e] <= len'[e]
    <2>1. epoch \in 1..MaxEpochs /\ len \in Seq(0..MaxRows) /\ epoch = Len(len)
        BY DEF Grown, Sizes, epoch
    <2>2. epoch' \in 1..MaxEpochs /\ len' \in Seq(0..MaxRows) /\ epoch' = Len(len')
        BY DEF Grown, Sizes, epoch
    <2>3. epoch <= epoch' /\ \A e \in 1..epoch : len[e] <= len'[e]
        BY DEF Grown
    <2>4. MaxEpochs \in Nat /\ MaxRows \in Nat
        BY BoundsAssumption
    <2> DEFINE N == 0..MaxRows
    <2>5. \A n \in N : n \in Nat
        BY <2>4
    <2> HIDE DEF N
    <2>6. \A e \in 1..Len(len) : len[e] \in N
        BY <2>1, ElementOfSeq DEF N
    <2>7. \A e \in 1..Len(len') : len'[e] \in N
        BY <2>2, ElementOfSeq DEF N
    <2>8. \A e \in 1..epoch : e \in 1..Len(len) /\ e \in 1..Len(len')
        BY <2>1, <2>2, <2>3, <2>4
    <2>9. QED
        BY <2>1, <2>2, <2>3, <2>4, <2>5, <2>6, <2>7, <2>8
<1>2. \A e, n : Rows(e, n) => Rows(e, n)'
    <2> SUFFICES ASSUME NEW e, NEW n, e \in 1..epoch, n \in 1..len[e]
                 PROVE  e \in 1..epoch' /\ n \in 1..len'[e]
        BY DEF Rows
    <2>1. QED
        BY <1>1
<1>3. Asks \subseteq Asks'
    BY <1>2 DEF Asks
<1>4. Sent \subseteq Sent'
    <2> SUFFICES ASSUME NEW m \in Sent, carries(m)
                 PROVE  m.epoch \in 1..epoch' /\ m.last <= len'[m.epoch]
        BY DEF Sent
    <2>1. m \in Message /\ m.epoch \in 1..epoch /\ m.last <= len[m.epoch]
        BY DEF Sent
    <2>2. m.last \in Nat
        BY <2>1 DEF Message
    <2>3. QED
        BY <1>1, <2>1, <2>2
<1>5. Live \subseteq Live'
    BY <1>4 DEF Live
<1>6. Displayable \subseteq Displayable'
    BY <1>2 DEF Displayable
<1>7. QED
    BY <1>2, <1>3, <1>4, <1>5, <1>6

(* A step that changes neither what is displayed nor the messages. *)
View0 == <<tail, head, cursor, outdated>>

LEMMA Quiet ==
    ASSUME Good, Ordered, Displayed, Grown, UNCHANGED <<View0, wire, queue>>, requests' \in Seq(Asks)'
    PROVE  Good' /\ Ordered' /\ Displayed'
<1>1. /\ wire' = wire /\ queue' = queue /\ tail' = tail /\ head' = head /\ cursor' = cursor
      /\ outdated' = outdated
    BY DEF View0
<1>2. wire' \in Seq(Sent)' /\ queue' \in Seq(Live)' /\ cursor' \in (Displayable \cup {None})'
    <2>1. wire \in Seq(Sent) /\ queue \in Seq(Live)
        BY DEF Good
    <2>2. Sent \subseteq Sent' /\ Live \subseteq Live' /\ Displayable \subseteq Displayable'
        BY GrownSets
    <2>3. wire \in Seq(Sent') /\ queue \in Seq(Live')
        BY <2>1, <2>2, SeqMonotonic
    <2>4. QED
        BY <1>1, <2>2, <2>3 DEF Good
<1>3. Good'
    BY <1>1, <1>2 DEF Good, Grown
<1>4. Ordered'
    BY <1>1 DEF Ordered, pipeline
<1>5. Displayed'
    BY <1>1 DEF Displayed, shown, ListOf
<1>6. QED
    BY <1>3, <1>4, <1>5

(* A message m is sent; one that may replace the list goes as far as the store does. *)
AtTop(m) == \A e \in 1..epoch : \A n \in 0..len[e] : Upto(e, n, m)

LEMMA Emitted ==
    ASSUME Good, Ordered, Displayed, Grown, UNCHANGED <<View0, queue>>,
           NEW m \in Sent', newest(m) => AtTop(m), wire' = Append(wire, m),
           requests' \in Seq(Asks)'
    PROVE  Good' /\ Ordered' /\ Displayed'
<1>1. /\ queue' = queue /\ tail' = tail /\ head' = head /\ cursor' = cursor
      /\ outdated' = outdated
    BY DEF View0
<1>2. wire' \in Seq(Sent)' /\ queue' \in Seq(Live)' /\ cursor' \in (Displayable \cup {None})'
    <2>1. wire \in Seq(Sent) /\ queue \in Seq(Live)
        BY DEF Good
    <2>2. Sent \subseteq Sent' /\ Live \subseteq Live' /\ Displayable \subseteq Displayable'
        BY GrownSets
    <2>3. wire \in Seq(Sent') /\ queue \in Seq(Live')
        BY <2>1, <2>2, SeqMonotonic
    <2>4. wire' \in Seq(Sent')
        BY <2>3, AppendProperties
    <2>5. QED
        BY <1>1, <2>2, <2>3, <2>4 DEF Good
<1>3. Good'
    BY <1>1, <1>2 DEF Good, Grown
<1>4. Ordered'
    <2> DEFINE p == pipeline
               w == pipeline'
               n == Len(p)
    <2>1. p \in Seq(Sent) /\ n \in Nat
        BY PipelineIs
    <2>2. w = Append(p, m)
        <3>1. queue \in Seq(Sent') /\ wire \in Seq(Sent')
            <4>1. Live \subseteq Sent' /\ Sent \subseteq Sent'
                BY GrownSets DEF Live
            <4>2. QED
                BY <4>1, SeqMonotonic DEF Good
        <3>2. <<m>> \in Seq(Sent')
            OBVIOUS
        <3>3. queue \o (wire \o <<m>>) = (queue \o wire) \o <<m>>
            BY <3>1, <3>2, ConcatAssociative
        <3>4. Append(wire, m) = wire \o <<m>>
            BY <3>1, AppendIsConcat
        <3>5. Append(p, m) = p \o <<m>>
            <4>1. queue \o wire \in Seq(Sent')
                BY <3>1, ConcatProperties
            <4>2. QED
                BY <4>1, AppendIsConcat DEF pipeline
        <3>6. QED
            BY <1>1, <3>3, <3>4, <3>5 DEF pipeline
    <2>3. /\ Len(w) = n + 1 /\ (\A i \in 1..n : w[i] = p[i]) /\ w[n + 1] = m
        BY <2>1, <2>2, AppendProperties
    <2>4. newest(m) => \A i \in 1..n : carries(p[i]) => Upto(p[i].epoch, p[i].last, m)
        <3> SUFFICES ASSUME newest(m), NEW i \in 1..n, carries(p[i])
                     PROVE  Upto(p[i].epoch, p[i].last, m)
            OBVIOUS
        <3>1. p[i] \in Sent
            BY <2>1
        <3>2. p[i].epoch \in 1..epoch /\ p[i].last <= len[p[i].epoch] /\ p[i].last \in Nat
            BY <3>1 DEF Sent, Message
        <3>3. len[p[i].epoch] \in Nat
            BY <3>2, SizesAre DEF Grown
        <3>4. QED
            BY <3>2, <3>3 DEF AtTop
    <2>5. newest(m) => CursorUpto(cursor, m)
        <3> SUFFICES ASSUME newest(m), cursor # None
                     PROVE  Upto(cursor.epoch, cursor.endSeq, m)
            BY DEF CursorUpto
        <3>1. cursor.epoch \in 1..epoch /\ cursor.endSeq \in 1..len[cursor.epoch]
            BY DEF Good, Displayable, Rows
        <3>2. len[cursor.epoch] \in Nat
            BY <3>1, SizesAre DEF Grown
        <3>3. cursor.endSeq \in 0..len[cursor.epoch]
            BY <3>1, <3>2
        <3>4. QED
            BY <3>1, <3>3 DEF AtTop
    <2> HIDE DEF p, w, n
    <2>6. InOrder(w)
        <3> SUFFICES ASSUME NEW j \in 1..(n + 1), newest(w[j]), NEW i \in 1..(j - 1), carries(w[i])
                     PROVE  Upto(w[i].epoch, w[i].last, w[j])
            BY <2>3 DEF InOrder
        <3>1. i \in 1..n /\ w[i] = p[i]
            BY <2>1, <2>3
        <3>2. CASE j = n + 1
            BY <2>3, <2>4, <3>1, <3>2
        <3>3. CASE j # n + 1
            <4>1. j \in 1..n /\ w[j] = p[j]
                BY <2>1, <2>3, <3>3
            <4>2. InOrder(p)
                BY DEF Ordered, p
            <4>3. QED
                BY <3>1, <4>1, <4>2 DEF InOrder, n
        <3>4. QED
            BY <3>2, <3>3
    <2>7. Behind(cursor, w, 0)
        <3> SUFFICES ASSUME NEW j \in (0 + 1)..(n + 1), newest(w[j])
                     PROVE  CursorUpto(cursor, w[j])
            BY <2>3 DEF Behind
        <3>1. CASE j = n + 1
            BY <2>3, <2>5, <3>1
        <3>2. CASE j # n + 1
            <4>1. j \in (0 + 1)..n /\ j \in 1..n /\ w[j] = p[j]
                BY <2>1, <2>3, <3>2
            <4>2. Behind(cursor, p, 0)
                BY DEF Ordered, p
            <4>3. QED
                BY <4>1, <4>2 DEF Behind, n
        <3>3. QED
            BY <3>1, <3>2
    <2>8. QED
        BY <1>1, <2>6, <2>7 DEF Ordered, w
<1>5. Displayed'
    BY <1>1 DEF Displayed, shown, ListOf
<1>6. QED
    BY <1>3, <1>4, <1>5

-----------------------------------------------------------------------------
(* The steps, and how each moves what is displayed. *)
Kept == Good /\ Ordered /\ Displayed

Moves ==
    \/ len' = len /\ Succeeds(cursor, cursor')
    \/ /\ UNCHANGED View0
       /\ len' = [len EXCEPT ![epoch] = @ + 1] \/ len' = Append(len, 0)

LEMMA MovesNothing ==
    ASSUME Good, len' = len, cursor' = cursor
    PROVE  Moves
<1>1. Onward(cursor, cursor)
    BY BoundsAssumption DEF Good, Onward, Displayable, Cursor
<1>2. QED
    BY <1>1 DEF Moves, Succeeds

LEMMA ShownNext ==
    ASSUME Good, len' = len, NEW b \in Shown, Shows(b), wire' \in Seq(Sent), InOrder(wire'),
           Behind(b.cursor, wire', 0), outdated' \in Nat, Covers(b.cursor, ListOf(b), outdated')
    PROVE  Kept'
<1>1. /\ tail' = b.tail /\ head' = b.head /\ cursor' = b.cursor /\ queue' = <<>>
      /\ requests' = IF connected THEN requests \o b.asks ELSE requests
    BY DEF Shows, Sends
<1>2. /\ b.tail \in Seq(Row) /\ b.head \in Seq(Row) /\ b.cursor \in Displayable \cup {None}
      /\ b.asks \in Seq(Asks)
    BY DEF Shown
<1>3. /\ Sizes' /\ Asks \subseteq Asks' /\ Sent \subseteq Sent' /\ Displayable \subseteq Displayable'
    BY Stays, GrownSets DEF Good, Grown
<1>4. requests' \in Seq(Asks')
    <2>1. requests \in Seq(Asks)
        BY DEF Good
    <2>2. requests \o b.asks \in Seq(Asks)
        BY <1>2, <2>1, ConcatProperties
    <2>3. requests' \in Seq(Asks)
        BY <1>1, <2>1, <2>2
    <2>4. QED
        BY <1>3, <2>3, SeqMonotonic
<1>5. wire' \in Seq(Sent')
    BY <1>3, SeqMonotonic
<1>6. queue' \in Seq(Live')
    BY <1>1
<1>7. Good'
    BY <1>1, <1>2, <1>3, <1>4, <1>5, <1>6 DEF Good
<1>8. Ordered'
    <2>1. pipeline' = wire'
        BY <1>1, ConcatEmptySeq DEF pipeline
    <2>2. QED
        BY <1>1, <2>1 DEF Ordered
<1>9. Displayed'
    <2>1. Covers(cursor', ofCursor(tail' \o head'), outdated')
        BY <1>1 DEF ListOf
    <2>2. QED
        BY <2>1 DEF Displayed, shown, ListOf
<1>10. QED
    BY <1>7, <1>8, <1>9 DEF Kept

LEMMA TailInOrder ==
    ASSUME NEW p \in Seq(Sent), p # <<>>, InOrder(p), NEW cur, Behind(cur, p, 1)
    PROVE  Tail(p) \in Seq(Sent) /\ InOrder(Tail(p)) /\ Behind(cur, Tail(p), 0)
<1> DEFINE t == Tail(p)
<1>1. /\ t \in Seq(Sent) /\ Len(t) = Len(p) - 1 /\ Len(p) \in Nat \ {0}
      /\ \A i \in 1..Len(t) : t[i] = p[i + 1]
    BY HeadTailProperties, EmptySeq
<1> HIDE DEF t
<1>2. InOrder(t)
    <2> SUFFICES ASSUME NEW j \in 1..Len(t), newest(t[j]), NEW i \in 1..(j - 1), carries(t[i])
                 PROVE  Upto(t[i].epoch, t[i].last, t[j])
        BY DEF InOrder
    <2>1. /\ j + 1 \in 1..Len(p) /\ i + 1 \in 1..((j + 1) - 1) /\ i \in 1..Len(t)
          /\ t[j] = p[j + 1] /\ t[i] = p[i + 1]
        BY <1>1
    <2>2. QED
        BY <2>1 DEF InOrder
<1>3. Behind(cur, t, 0)
    <2> SUFFICES ASSUME NEW j \in (0 + 1)..Len(t), newest(t[j])
                 PROVE  CursorUpto(cur, t[j])
        BY DEF Behind
    <2>1. j + 1 \in (1 + 1)..Len(p) /\ j \in 1..Len(t) /\ t[j] = p[j + 1]
        BY <1>1
    <2>2. QED
        BY <2>1 DEF Behind
<1>4. QED
    BY <1>1, <1>2, <1>3 DEF t

LEMMA BehindLess ==
    ASSUME NEW p \in Seq(Sent), NEW cur, Behind(cur, p, 0)
    PROVE  Behind(cur, p, 1)
<1>1. \A j \in (1 + 1)..Len(p) : j \in (0 + 1)..Len(p)
    OBVIOUS
<1>2. QED
    BY <1>1 DEF Behind

LEMMA LiveEventKept ==
    ASSUME Kept, LiveEventReceived
    PROVE  Kept' /\ Moves
<1> DEFINE m == Head(wire)
<1>1. /\ wire # <<>> /\ m.type \in {"row", "turn_end"} /\ wire' = Tail(wire)
      /\ queue' = Append(queue, m) /\ len' = len /\ requests' = requests
      /\ tail' = tail /\ head' = head /\ cursor' = cursor /\ outdated' = outdated
    BY DEF LiveEventReceived, daemon, history
<1>2. wire \in Seq(Sent) /\ queue \in Seq(Live) /\ Good /\ Ordered /\ Displayed
    BY DEF Kept, Good
<1>3. Tail(wire) \in Seq(Sent) /\ m \in Live
    BY <1>1, <1>2, HeadTailProperties DEF Live
<1> HIDE DEF m
<1>4. /\ Sizes' /\ Asks \subseteq Asks' /\ Sent \subseteq Sent' /\ Live \subseteq Live'
      /\ Displayable \subseteq Displayable'
    BY <1>1, <1>2, Stays, GrownSets DEF Good, Grown
<1>5. Append(queue, m) \in Seq(Live)
    BY <1>2, <1>3, AppendProperties
<1>6. requests' \in Seq(Asks') /\ wire' \in Seq(Sent') /\ queue' \in Seq(Live')
    <2>1. requests \in Seq(Asks)
        BY <1>2 DEF Good
    <2>2. QED
        BY <1>1, <1>3, <1>4, <1>5, <2>1, SeqMonotonic
<1>7. Good'
    BY <1>1, <1>2, <1>4, <1>6 DEF Good
<1>8. pipeline' = pipeline
    <2>1. queue \in Seq(Sent) /\ <<m>> \in Seq(Sent)
        <3>1. Live \subseteq Sent
            BY DEF Live
        <3>2. QED
            BY <1>2, <1>3, <3>1, SeqMonotonic
    <2>2. Append(queue, m) = queue \o <<m>>
        BY <1>2, <1>3, AppendIsConcat
    <2>3. wire = <<m>> \o Tail(wire)
        <3>1. DOMAIN wire = 1..Len(wire)
            BY <1>2
        <3>2. Len(<<m>> \o Tail(wire)) = Len(wire) /\ <<m>> \o Tail(wire) \in Seq(Sent)
            BY <1>1, <1>2, <1>3, <2>1, HeadTailProperties
        <3>3. \A i \in 1..Len(wire) : wire[i] = (<<m>> \o Tail(wire))[i]
            BY <1>1, <1>2, <1>3, <2>1, HeadTailProperties DEF m
        <3>4. QED
            BY <1>2, <3>2, <3>3, SeqEqual
    <2>4. (queue \o <<m>>) \o Tail(wire) = queue \o (<<m>> \o Tail(wire))
        BY <1>3, <2>1, ConcatAssociative
    <2>5. QED
        BY <1>1, <2>2, <2>3, <2>4 DEF pipeline
<1>9. Ordered'
    BY <1>1, <1>2, <1>8 DEF Ordered
<1>10. Displayed'
    BY <1>1, <1>2 DEF Displayed, shown, ListOf
<1>11. QED
    BY <1>1, <1>2, <1>7, <1>9, <1>10, MovesNothing DEF Kept

LEMMA QueueFlushedKept ==
    ASSUME Kept, QueueFlushed
    PROVE  Kept' /\ Moves
<1>1. /\ Shows(flushed) /\ wire' = wire /\ len' = len /\ outdated' = outdated
    BY DEF QueueFlushed, daemon, history
<1>2. /\ Good /\ Ordered /\ Displayed /\ wire \in Seq(Sent) /\ outdated \in Nat
    BY DEF Kept, Good
<1>3. /\ flushed \in Shown /\ Onward(cursor, flushed.cursor)
      /\ Covers(flushed.cursor, ListOf(flushed), outdated)
      /\ Behind(flushed.cursor, wire, 0) /\ InOrder(wire)
    BY <1>2, FlushedGood
<1>4. PICK b : b = flushed
    OBVIOUS
<1>5. Kept'
    BY <1>1, <1>2, <1>3, <1>4, ShownNext
<1>6. Moves
    BY <1>1, <1>3 DEF Shows, Moves, Succeeds
<1>7. QED
    BY <1>5, <1>6

LEMMA ErrorReceivedKept ==
    ASSUME Kept, ErrorReceived
    PROVE  Kept' /\ Moves
<1>1. /\ Shows(flushed) /\ wire # <<>> /\ wire' = Tail(wire) /\ len' = len /\ outdated' = outdated
    BY DEF ErrorReceived, daemon, history
<1>2. /\ Good /\ Ordered /\ Displayed /\ wire \in Seq(Sent) /\ outdated \in Nat
    BY DEF Kept, Good
<1>3. /\ flushed \in Shown /\ Onward(cursor, flushed.cursor)
      /\ Covers(flushed.cursor, ListOf(flushed), outdated)
      /\ Behind(flushed.cursor, wire, 0) /\ InOrder(wire)
    BY <1>2, FlushedGood
<1>4. PICK b : b = flushed
    OBVIOUS
<1>5. Tail(wire) \in Seq(Sent) /\ InOrder(Tail(wire)) /\ Behind(b.cursor, Tail(wire), 0)
    <2>1. PICK cur : cur = b.cursor
        OBVIOUS
    <2>2. Behind(cur, wire, 1)
        BY <1>2, <1>3, <1>4, <2>1, BehindLess
    <2>3. QED
        BY <1>1, <1>2, <1>3, <2>1, <2>2, TailInOrder
<1>6. Kept'
    BY <1>1, <1>2, <1>3, <1>4, <1>5, ShownNext
<1>7. Moves
    BY <1>1, <1>3 DEF Shows, Moves, Succeeds
<1>8. QED
    BY <1>6, <1>7

LEMMA ResponseReceivedKept ==
    ASSUME Kept, ResponseReceived
    PROVE  Kept' /\ Moves
<1> DEFINE m == Head(wire)
           c == flushed
           b == processTimelineResponse(c, m)
<1>1. /\ wire # <<>> /\ m.type = "response" /\ Shows(b) /\ outdated' = outdatedBy(c, m)
      /\ wire' = Tail(wire) /\ len' = len
    BY DEF ResponseReceived, daemon
<1>2. /\ Good /\ Ordered /\ Displayed /\ wire \in Seq(Sent) /\ outdated \in Nat /\ Sizes
    BY DEF Kept, Good
<1>3. /\ c \in Shown /\ Onward(cursor, c.cursor)
      /\ Covers(c.cursor, ListOf(c), outdated)
      /\ Behind(c.cursor, wire, 0) /\ InOrder(wire)
    BY <1>2, FlushedGood
<1>4. m \in Sent /\ m = wire[1] /\ Len(wire) \in Nat \ {0}
    BY <1>1, <1>2, HeadTailProperties, EmptySeq
<1>5. newest(m) => CursorUpto(c.cursor, m)
    <2>1. 1 \in (0 + 1)..Len(wire)
        BY <1>4
    <2>2. QED
        BY <1>3, <1>4, <2>1 DEF Behind
<1> HIDE DEF m, c
<1>6. Merges(c, b, m, outdatedBy(c, m))
    BY <1>1, <1>2, <1>3, <1>4, <1>5, ResponseProcessed
<1> HIDE DEF b
<1>7. PICK u, v, w : u = cursor /\ v = c.cursor /\ w = b.cursor
    OBVIOUS
<1>8. /\ b \in Shown /\ Succeeds(v, w) /\ Touches(v, w, m) /\ outdated' \in Nat
      /\ Covers(b.cursor, ListOf(b), outdated')
    BY <1>1, <1>6, <1>7 DEF Merges
<1>9. /\ u \in Displayable \cup {None} /\ v \in Displayable \cup {None}
      /\ w \in Displayable \cup {None}
    BY <1>2, <1>3, <1>7, <1>8 DEF Shown, Good
<1>10. Tail(wire) \in Seq(Sent) /\ InOrder(Tail(wire)) /\ Behind(w, Tail(wire), 0)
    <2>1. 0 \in 0..(Len(wire) - 1) /\ Touches(v, w, wire[0 + 1]) /\ Behind(v, wire, 0)
        BY <1>3, <1>4, <1>7, <1>8
    <2>2. Behind(w, wire, 0 + 1)
        BY <1>2, <1>3, <1>9, <2>1, BehindNext
    <2>3. Behind(w, wire, 1)
        BY <2>2
    <2>4. QED
        BY <1>1, <1>2, <1>3, <2>3, TailInOrder
<1>11. Kept'
    BY <1>1, <1>2, <1>7, <1>8, <1>10, ShownNext
<1>12. Succeeds(u, w)
    <2>1. CASE Onward(v, w)
        <3>1. Onward(u, v)
            BY <1>3, <1>7
        <3>2. QED
            BY <1>9, <2>1, <3>1, OnwardTrans DEF Succeeds
    <2>2. CASE ~Onward(v, w)
        <3>1. w = None /\ v.epoch < epoch /\ v # None
            BY <1>8, <2>2 DEF Succeeds, Onward
        <3>2. u = None \/ u.epoch <= v.epoch
            BY <1>3, <1>7, <1>9, BoundsAssumption DEF Onward, Displayable, Cursor
        <3>3. u = None \/ (u.epoch \in Nat /\ v.epoch \in Nat /\ epoch \in Nat)
            BY <1>2, <1>9, <3>1, SizesAre DEF Displayable, Cursor
        <3>4. QED
            BY <3>1, <3>2, <3>3 DEF Succeeds, Onward
    <2>3. QED
        BY <2>1, <2>2
<1>13. Moves
    BY <1>1, <1>7, <1>12 DEF Shows, Moves
<1>14. QED
    BY <1>11, <1>13

-----------------------------------------------------------------------------
(* The logs grow by a row, or a new one begins. *)
LEMMA LogGrows ==
    ASSUME Sizes, mayGrow, len' = [len EXCEPT ![epoch] = @ + 1]
    PROVE  Grown /\ epoch' = epoch /\ len'[epoch] = rowCount + 1 /\ rowCount \in Nat
<1> DEFINE N == 0..MaxRows
<1>1. /\ len \in Seq(N) /\ epoch = Len(len) /\ epoch \in 1..MaxEpochs /\ epoch \in Nat \ {0}
      /\ rowCount \in Nat /\ MaxRows \in Nat /\ rowCount = len[epoch]
      /\ \A e \in 1..epoch : len[e] \in Nat
    <2>1. \A e \in 1..epoch : len[e] \in Nat
        BY SizesAre
    <2>2. QED
        BY <2>1, SizesAre DEF Sizes, epoch, rowCount
<1>2. rowCount < MaxRows
    BY DEF mayGrow
<1>3. rowCount + 1 \in N
    BY <1>1, <1>2
<1> HIDE DEF N
<1>4. epoch \in 1..Len(len)
    BY <1>1
<1>5. len' = [len EXCEPT ![epoch] = rowCount + 1]
    BY <1>1 DEF rowCount
<1>6. /\ len' \in Seq(N) /\ Len(len') = Len(len)
      /\ \A e \in 1..Len(len) : len'[e] = IF e = epoch THEN rowCount + 1 ELSE len[e]
    BY <1>1, <1>3, <1>4, <1>5, ExceptSeq, SMTT(30)
<1>7. epoch' = epoch
    BY <1>6 DEF epoch
<1>8. Sizes'
    BY <1>1, <1>6, <1>7 DEF Sizes, N
<1>9. \A e \in 1..epoch : len[e] <= len'[e]
    BY <1>1, <1>6
<1>10. QED
    BY <1>1, <1>4, <1>6, <1>7, <1>8, <1>9 DEF Grown

LEMMA LogBegins ==
    ASSUME Sizes, epoch < MaxEpochs, len' = Append(len, 0)
    PROVE  Grown
<1> DEFINE N == 0..MaxRows
<1>1. /\ len \in Seq(N) /\ epoch = Len(len) /\ epoch \in Nat /\ MaxRows \in Nat /\ MaxEpochs \in Nat
      /\ \A e \in 1..epoch : len[e] \in Nat
    <2>1. \A e \in 1..epoch : len[e] \in Nat
        BY SizesAre
    <2>2. QED
        BY <2>1, SizesAre DEF Sizes, epoch
<1>2. 0 \in N
    BY <1>1
<1> HIDE DEF N
<1>3. /\ len' \in Seq(N) /\ Len(len') = Len(len) + 1
      /\ \A e \in 1..Len(len) : len'[e] = len[e]
    BY <1>1, <1>2, AppendProperties
<1>4. epoch' = epoch + 1
    BY <1>1, <1>3 DEF epoch
<1>5. Sizes'
    BY <1>1, <1>3, <1>4 DEF Sizes, N
<1>6. QED
    BY <1>1, <1>3, <1>4, <1>5 DEF Grown

(* Requests: one is removed, or new ones are sent. *)
LEMMA Removed ==
    ASSUME NEW S, NEW s \in Seq(S), NEW i \in 1..Len(s)
    PROVE  RemoveAt(s, i) \in Seq(S)
<1>1. Len(s) \in Nat /\ \A j \in 1..Len(s) : s[j] \in S
    BY ElementOfSeq, LenProperties
<1>2. PICK a, b : a = SubSeq(s, 1, i - 1) /\ b = SubSeq(s, i + 1, Len(s))
    OBVIOUS
<1>3. a \in Seq(S)
    <2>1. \A j \in 1..(i - 1) : s[j] \in S
        BY <1>1
    <2>2. i - 1 \in Int /\ 1 \in Int
        BY <1>1
    <2>3. QED
        BY <1>2, <2>1, <2>2, SubSeqProperties
<1>4. b \in Seq(S)
    <2>1. \A j \in (i + 1)..Len(s) : s[j] \in S
        BY <1>1
    <2>2. i + 1 \in Int /\ Len(s) \in Int
        BY <1>1
    <2>3. QED
        BY <1>2, <2>1, <2>2, SubSeqProperties
<1>5. a \o b \in Seq(S)
    BY <1>3, <1>4, ConcatProperties
<1>6. QED
    BY <1>2, <1>5 DEF RemoveAt

LEMMA AsksStay ==
    ASSUME Good, Grown, requests' \in Seq(Asks)
    PROVE  requests' \in Seq(Asks)'
<1>1. Asks \subseteq Asks'
    BY GrownSets
<1>2. requests' \in Seq(Asks')
    BY <1>1, SeqMonotonic
<1>3. QED
    BY <1>2

(* What the app asks for. *)
Others == {"tail", "reload", "visible", "hidden"}

LEMMA TailAsked ==
    ASSUME NEW op \in Others
    PROVE  [tailRequest EXCEPT !.op = op] \in Asks /\ tailRequest \in Asks
<1>1. 0 \in 0..MaxEpochs /\ 0 \in 0..MaxRows
    BY BoundsAssumption
<1>2. tailRequest \in Request /\ tailRequest.epoch = 0 /\ tailRequest.op = "tail"
    BY <1>1 DEF tailRequest, Request, Direction
<1> DEFINE r == [tailRequest EXCEPT !.op = op]
<1>3. r \in Request /\ r.epoch = 0 /\ r.op = op
    BY <1>1 DEF Others, tailRequest, Request, Direction
<1> HIDE DEF r
<1>4. r \in Asks /\ tailRequest \in Asks
    BY <1>2, <1>3 DEF Asks, Others
<1>5. QED
    BY <1>4 DEF r

(* A step of the app that only sends requests. *)
LEMMA Asking ==
    ASSUME Kept, UNCHANGED <<len, View0, wire, queue>>, requests' \in Seq(Asks)
    PROVE  Kept' /\ Moves
<1>1. /\ Good /\ Ordered /\ Displayed /\ Grown /\ len' = len /\ UNCHANGED <<View0, wire, queue>>
      /\ cursor' = cursor
    BY Stays DEF Kept, Good, View0
<1>2. requests' \in Seq(Asks)'
    BY <1>1, AsksStay
<1>3. Good' /\ Ordered' /\ Displayed'
    BY <1>1, <1>2, Quiet
<1>4. Moves
    BY <1>1, MovesNothing
<1>5. QED
    BY <1>3, <1>4 DEF Kept

LEMMA EnsureAsks ==
    ASSUME Good, EnsureInitialized
    PROVE  requests' \in Seq(Asks)
<1>1. requests \in Seq(Asks)
    BY DEF Good
<1>2. CASE init # "none"
    BY <1>1, <1>2 DEF EnsureInitialized
<1>3. CASE init = "none" /\ authoritative /\ cursor # None
    <2>1. requests' = requests \o <<after(cursor)>>
        BY <1>3 DEF EnsureInitialized, Sends
    <2>2. after(cursor) \in Asks
        BY <1>3, AsksForWhatIsAfter DEF Good
    <2>3. <<after(cursor)>> \in Seq(Asks)
        BY <2>2
    <2>4. QED
        BY <1>1, <2>1, <2>3, ConcatProperties
<1>4. CASE init = "none" /\ ~(authoritative /\ cursor # None)
    <2>1. requests' = requests \o <<tailRequest>>
        BY <1>4 DEF EnsureInitialized, Sends
    <2>2. <<tailRequest>> \in Seq(Asks)
        BY TailAsked DEF Others
    <2>3. QED
        BY <1>1, <2>1, <2>2, ConcatProperties
<1>5. QED
    BY <1>2, <1>3, <1>4

LEMMA HistorySyncedKept ==
    ASSUME Kept, HistorySynced \/ PaneFocused
    PROVE  Kept' /\ Moves
<1>1. EnsureInitialized /\ UNCHANGED <<len, View0, wire, queue>>
    BY DEF HistorySynced, PaneFocused, daemon, displayed, history, View0
<1>2. requests' \in Seq(Asks)
    BY <1>1, EnsureAsks DEF Kept
<1>3. QED
    BY <1>1, <1>2, Asking

LEMMA InitTimesOutKept ==
    ASSUME Kept, InitTimesOut \/ Reconnects
    PROVE  Kept' /\ Moves
<1>1. UNCHANGED <<len, View0, wire, queue, requests>>
    BY DEF InitTimesOut, Reconnects, daemon, displayed, history, View0
<1>2. requests' \in Seq(Asks)
    BY <1>1 DEF Kept, Good
<1>3. QED
    BY <1>1, <1>2, Asking

LEMMA LoadOlderKept ==
    ASSUME Kept, LoadOlder
    PROVE  Kept' /\ Moves
<1> DEFINE r == [op |-> "before", waits |-> FALSE, epoch |-> cursor.epoch, seq |-> cursor.startSeq]
<1>1. cursor # None /\ requests' = requests \o <<r>> /\ UNCHANGED <<len, View0, wire, queue>>
    BY DEF LoadOlder, Sends, daemon, displayed, history, View0
<1>2. requests \in Seq(Asks) /\ cursor \in Displayable /\ Sizes
    BY <1>1 DEF Kept, Good
<1>3. /\ cursor.epoch \in 1..MaxEpochs /\ cursor.startSeq \in 1..MaxRows /\ cursor.endSeq \in 1..MaxRows
      /\ cursor.startSeq <= cursor.endSeq /\ Rows(cursor.epoch, cursor.endSeq)
    BY <1>2 DEF Displayable, Cursor
<1>4. Rows(cursor.epoch, cursor.startSeq)
    <2>1. cursor.epoch \in 1..epoch /\ cursor.endSeq \in 1..len[cursor.epoch]
        BY <1>3 DEF Rows
    <2>2. len[cursor.epoch] \in 0..MaxRows /\ MaxRows \in Nat
        BY <1>2, <2>1, SizesAre
    <2>3. QED
        BY <1>3, <2>1, <2>2 DEF Rows
<1>5. r \in Request /\ r.epoch = cursor.epoch /\ r.seq = cursor.startSeq /\ cursor.epoch # 0
    <2>1. cursor.epoch \in 0..MaxEpochs /\ cursor.startSeq \in 0..MaxRows /\ cursor.epoch # 0
        BY <1>3
    <2>2. QED
        BY <2>1 DEF Request, Direction
<1> HIDE DEF r
<1>6. <<r>> \in Seq(Asks)
    BY <1>4, <1>5 DEF Asks
<1>7. requests' \in Seq(Asks)
    BY <1>1, <1>2, <1>6, ConcatProperties
<1>8. QED
    BY <1>1, <1>7, Asking

LEMMA AppAsksKept ==
    ASSUME Kept, AppHidden \/ AppResumed \/ ReloadRequested
    PROVE  Kept' /\ Moves
<1>1. UNCHANGED <<len, View0, wire, queue>>
    BY DEF AppHidden, AppResumed, ReloadRequested, daemon, displayed, history, View0
<1>2. /\ tailRequest \in Asks /\ [tailRequest EXCEPT !.op = "hidden"] \in Asks
      /\ [tailRequest EXCEPT !.op = "visible"] \in Asks /\ [tailRequest EXCEPT !.op = "reload"] \in Asks
    BY TailAsked DEF Others
<1>3. PICK t, h, v, r : /\ t = tailRequest /\ h = [tailRequest EXCEPT !.op = "hidden"]
                        /\ v = [tailRequest EXCEPT !.op = "visible"]
                        /\ r = [tailRequest EXCEPT !.op = "reload"]
    OBVIOUS
<1>4. <<h>> \in Seq(Asks) /\ <<t, v>> \in Seq(Asks) /\ <<r>> \in Seq(Asks)
    <2>1. t \in Asks /\ h \in Asks /\ v \in Asks /\ r \in Asks
        BY <1>2, <1>3
    <2>2. QED
        BY <2>1
<1>5. \/ requests' = requests \o <<h>> \/ requests' = requests \o <<t, v>>
      \/ requests' = requests \o <<r>>
    BY <1>3 DEF AppHidden, AppResumed, ReloadRequested, Sends
<1>6. requests \in Seq(Asks)
    BY DEF Kept, Good
<1>7. requests' \in Seq(Asks)
    BY <1>4, <1>5, <1>6, ConcatProperties
<1>8. QED
    BY <1>1, <1>7, Asking

LEMMA HeartbeatKept ==
    ASSUME Kept, HeartbeatHandled
    PROVE  Kept' /\ Moves
<1>1. PICK i \in arrived : requests' = RemoveAt(requests, i) /\ UNCHANGED <<len, View0, wire, queue>>
    BY DEF HeartbeatHandled, displayed, history, View0
<1>2. requests \in Seq(Asks)
    BY DEF Kept, Good
<1>3. i \in 1..Len(requests)
    BY <1>1, <1>2 DEF arrived
<1>4. requests' \in Seq(Asks)
    BY <1>1, <1>2, <1>3, Removed
<1>5. QED
    BY <1>1, <1>4, Asking

(* A step that takes messages away. *)
LEMMA WireShrinks ==
    ASSUME Kept, UNCHANGED <<len, View0, queue>>, wire' \in Seq(Sent), requests' \in Seq(Asks),
           InOrder(queue \o wire'), Behind(cursor, queue \o wire', 0)
    PROVE  Kept' /\ Moves
<1>1. /\ Good /\ Ordered /\ Displayed /\ Grown /\ len' = len
      /\ queue' = queue /\ tail' = tail /\ head' = head /\ cursor' = cursor /\ outdated' = outdated
    BY Stays DEF Kept, Good, View0
<1>2. requests' \in Seq(Asks)'
    BY <1>1, AsksStay
<1>3. wire' \in Seq(Sent)' /\ queue' \in Seq(Live)' /\ cursor' \in (Displayable \cup {None})'
    <2>1. queue \in Seq(Live)
        BY <1>1 DEF Good
    <2>2. Sent \subseteq Sent' /\ Live \subseteq Live' /\ Displayable \subseteq Displayable'
        BY <1>1, GrownSets
    <2>3. wire' \in Seq(Sent') /\ queue \in Seq(Live')
        BY <2>1, <2>2, SeqMonotonic
    <2>4. QED
        BY <1>1, <2>2, <2>3 DEF Good
<1>4. Good'
    BY <1>1, <1>2, <1>3 DEF Good, Grown
<1>5. Ordered'
    BY <1>1 DEF Ordered, pipeline
<1>6. Displayed'
    BY <1>1 DEF Displayed, shown, ListOf
<1>7. Moves
    BY <1>1, MovesNothing
<1>8. QED
    BY <1>4, <1>5, <1>6, <1>7 DEF Kept

LEMMA RefreshedKept ==
    ASSUME Kept, RefreshedReceived
    PROVE  Kept' /\ Moves
<1> DEFINE r == IF cursor = None THEN tailRequest ELSE [after(cursor) EXCEPT !.op = "tail"]
<1>1. /\ wire # <<>> /\ queue = <<>> /\ wire' = Tail(wire) /\ requests' = requests \o <<r>>
      /\ UNCHANGED <<len, View0, queue>>
    BY DEF RefreshedReceived, Sends, daemon, displayed, history, View0
<1>2. /\ Good /\ Ordered /\ wire \in Seq(Sent) /\ requests \in Seq(Asks) /\ Sizes
      /\ cursor \in Displayable \cup {None}
    BY DEF Kept, Good
<1>3. r \in Asks
    <2>1. CASE cursor = None
        BY <2>1, TailAsked DEF Others
    <2>2. CASE cursor # None
        <3>1. PICK a : a = after(cursor)
            OBVIOUS
        <3>2. a \in Asks
            BY <1>2, <2>2, <3>1, AsksForWhatIsAfter
        <3>3. a \in Request /\ "tail" \in Direction /\ (a.epoch # 0 => Rows(a.epoch, a.seq))
            BY <3>2 DEF Asks, Direction
        <3> DEFINE t == [a EXCEPT !.op = "tail"]
        <3>4. t \in Request /\ t.epoch = a.epoch /\ t.seq = a.seq /\ t.op = "tail"
            BY <3>3 DEF Request
        <3> HIDE DEF t
        <3>5. t \in Asks
            BY <3>3, <3>4 DEF Asks
        <3>6. QED
            BY <2>2, <3>1, <3>5 DEF t
    <2>3. QED
        BY <2>1, <2>2
<1> HIDE DEF r
<1>4. requests' \in Seq(Asks)
    <2>1. <<r>> \in Seq(Asks)
        BY <1>3
    <2>2. QED
        BY <1>1, <1>2, <2>1, ConcatProperties
<1>5. Tail(wire) \in Seq(Sent) /\ InOrder(Tail(wire)) /\ Behind(cursor, Tail(wire), 0)
    <2>1. pipeline = wire
        BY <1>1, <1>2, ConcatEmptySeq DEF pipeline
    <2>2. InOrder(wire) /\ Behind(cursor, wire, 0)
        BY <1>2, <2>1 DEF Ordered
    <2>3. Behind(cursor, wire, 1)
        BY <1>2, <2>2, BehindLess
    <2>4. QED
        BY <1>1, <1>2, <2>2, <2>3, TailInOrder
<1>6. queue \o wire' = Tail(wire)
    BY <1>1, <1>5, ConcatEmptySeq
<1>7. QED
    BY <1>1, <1>4, <1>5, <1>6, WireShrinks

LEMMA ConnectionLostKept ==
    ASSUME Kept, ConnectionLost
    PROVE  Kept' /\ Moves
<1>1. /\ wire' = <<>> /\ requests' = <<>> /\ UNCHANGED <<len, View0, queue>>
    BY DEF ConnectionLost, displayed, View0
<1>2. Good /\ Ordered /\ queue \in Seq(Live)
    BY DEF Kept, Good
<1>3. wire' \in Seq(Sent) /\ requests' \in Seq(Asks) /\ queue \o wire' = queue
    BY <1>1, <1>2, ConcatEmptySeq
<1>4. /\ Len(queue) \in Nat /\ Len(wire) \in Nat /\ Len(pipeline) = Len(queue) + Len(wire)
      /\ \A i \in 1..Len(queue) : pipeline[i] = queue[i]
    BY <1>2, PipelineIs
<1>5. InOrder(queue)
    <2> SUFFICES ASSUME NEW j \in 1..Len(queue), newest(queue[j]),
                        NEW i \in 1..(j - 1), carries(queue[i])
                 PROVE  Upto(queue[i].epoch, queue[i].last, queue[j])
        BY DEF InOrder
    <2>1. j \in 1..Len(pipeline) /\ i \in 1..Len(queue) /\ pipeline[j] = queue[j] /\ pipeline[i] = queue[i]
        BY <1>4
    <2>2. QED
        BY <1>2, <2>1 DEF Ordered, InOrder
<1>6. Behind(cursor, queue, 0)
    <2> SUFFICES ASSUME NEW j \in (0 + 1)..Len(queue), newest(queue[j])
                 PROVE  CursorUpto(cursor, queue[j])
        BY DEF Behind
    <2>1. j \in (0 + 1)..Len(pipeline) /\ pipeline[j] = queue[j]
        BY <1>4
    <2>2. QED
        BY <1>2, <2>1 DEF Ordered, Behind
<1>7. QED
    BY <1>1, <1>3, <1>5, <1>6, WireShrinks

(* A step of the daemon that tells the app something. *)
LEMMA Telling ==
    ASSUME Kept, UNCHANGED <<len, View0, queue>>, NEW m \in Sent, newest(m) => AtTop(m),
           wire' = Append(wire, m), requests' \in Seq(Asks)
    PROVE  Kept' /\ Moves
<1>1. /\ Good /\ Ordered /\ Displayed /\ Grown /\ len' = len /\ UNCHANGED <<View0, queue>>
      /\ cursor' = cursor
    BY Stays DEF Kept, Good, View0
<1>2. requests' \in Seq(Asks)' /\ m \in Sent'
    BY <1>1, AsksStay, GrownSets
<1>3. Good' /\ Ordered' /\ Displayed'
    BY <1>1, <1>2, Emitted
<1>4. QED
    BY <1>1, <1>3, MovesNothing DEF Kept

LEMMA NoticeIs ==
    ASSUME NEW type \in {"turn_end", "error", "refreshed"}
    PROVE  /\ notice(type, 0, 0) \in Sent /\ ~newest(notice(type, 0, 0))
           /\ \A op \in Direction : /\ [notice(type, 0, 0) EXCEPT !.op = op] \in Sent
                                    /\ ~newest([notice(type, 0, 0) EXCEPT !.op = op])
<1> DEFINE m == notice(type, 0, 0)
<1>1. 0 \in 0..MaxEpochs /\ 0 \in Nat /\ "tail" \in Direction
    BY BoundsAssumption DEF Direction
<1>2. m \in Message /\ m.type = type
    BY <1>1 DEF notice, Message
<1>3. ASSUME NEW op \in Direction
      PROVE  [m EXCEPT !.op = op] \in Message /\ [m EXCEPT !.op = op].type = type
    BY <1>2 DEF Message
<1> HIDE DEF m
<1>4. \A x \in Message : x.type = type => x \in Sent /\ ~newest(x)
    BY DEF Sent, carries, newest
<1>5. QED
    BY <1>2, <1>3, <1>4 DEF m

LEMMA TurnEndsKept ==
    ASSUME Kept, TurnEnds
    PROVE  Kept' /\ Moves
<1>1. PICK m : m = notice("turn_end", 0, 0)
    OBVIOUS
<1>2. wire' = Append(wire, m) /\ UNCHANGED <<len, View0, queue, requests>>
    BY <1>1 DEF TurnEnds, Emits, daemon, displayed, history, View0
<1>3. m \in Sent /\ ~newest(m)
    BY <1>1, NoticeIs
<1>4. requests' \in Seq(Asks)
    BY <1>2 DEF Kept, Good
<1>5. QED
    BY <1>2, <1>3, <1>4, Telling

LEMMA ReloadReturnsKept ==
    ASSUME Kept, ReloadReturns
    PROVE  Kept' /\ Moves
<1>1. PICK m : m = notice("refreshed", 0, 0)
    OBVIOUS
<1>2. PICK i \in DOMAIN requests :
         /\ requests' = RemoveAt(requests, i) /\ wire' = Append(wire, m)
         /\ UNCHANGED <<len, View0, queue>>
    BY <1>1 DEF ReloadReturns, Emits, daemon, displayed, history, View0
<1>3. m \in Sent /\ ~newest(m)
    BY <1>1, NoticeIs
<1>4. requests' \in Seq(Asks)
    <2>1. requests \in Seq(Asks)
        BY DEF Kept, Good
    <2>2. i \in 1..Len(requests)
        BY <1>2, <2>1
    <2>3. QED
        BY <1>2, <2>1, <2>2, Removed
<1>5. QED
    BY <1>2, <1>3, <1>4, Telling

LEMMA AnswerFailsKept ==
    ASSUME Kept, NEW i \in DOMAIN requests, AnswerFails(i)
    PROVE  Kept' /\ Moves
<1>1. PICK m : m = [notice("error", 0, 0) EXCEPT !.op = requests[i].op]
    OBVIOUS
<1>2. /\ requests' = RemoveAt(requests, i) /\ wire' = Append(wire, m)
      /\ requests[i].op \in Direction
      /\ UNCHANGED <<len, View0, queue>>
    BY <1>1 DEF AnswerFails, Emits, daemon, displayed, history, View0
<1>3. m \in Sent /\ ~newest(m)
    BY <1>1, <1>2, NoticeIs
<1>4. requests' \in Seq(Asks)
    <2>1. requests \in Seq(Asks)
        BY DEF Kept, Good
    <2>2. i \in 1..Len(requests)
        BY <2>1
    <2>3. QED
        BY <1>2, <2>1, <2>2, Removed
<1>5. QED
    BY <1>2, <1>3, <1>4, Telling

(* What the store returns: rows it has; where it may replace the list, its newest rows. *)
Result(m) == m \in Sent /\ m.type = "response" /\ (newest(m) => AtTop(m))

LEMMA FetchResultIs ==
    ASSUME NEW op, NEW first, NEW last, NEW reset, NEW older,
           Sizes, op \in Direction, first \in Nat \ {0}, last \in Nat, last <= rowCount,
           reset \in BOOLEAN, older \in BOOLEAN,
           reset \/ op = "tail" => last = rowCount,
           first > last /\ (reset \/ op = "tail") => last = 0
    PROVE  Result(fetchResult(op, epoch, first, last, reset, older))
<1> DEFINE m == fetchResult(op, epoch, first, last, reset, older)
<1>1. epoch \in 0..MaxEpochs /\ epoch \in 1..epoch /\ rowCount = len[epoch] /\ epoch \in Nat
    BY SizesAre DEF Sizes, rowCount
<1>2. /\ m \in Message /\ m.type = "response" /\ m.epoch = epoch /\ m.first = first /\ m.last = last
      /\ m.op = op /\ m.reset = reset
    BY <1>1 DEF fetchResult, Message
<1> HIDE DEF m
<1>3. newest(m) <=> reset \/ op = "tail"
    BY <1>2 DEF newest
<1>4. m \in Sent
    BY <1>1, <1>2, <1>3 DEF Sent
<1>5. newest(m) => AtTop(m)
    <2> SUFFICES ASSUME last = rowCount, NEW e \in 1..epoch, NEW n \in 0..len[e]
                 PROVE  Upto(e, n, m)
        BY <1>3 DEF AtTop
    <2>1. len[e] \in Nat /\ e \in Nat
        BY SizesAre
    <2>2. CASE e < epoch
        BY <1>2, <2>2 DEF Upto
    <2>3. CASE e = epoch
        <3>1. n \in Nat /\ n <= last
            BY <1>1, <2>1, <2>3
        <3>2. QED
            BY <1>2, <2>3, <3>1 DEF Upto
    <2>4. QED
        BY <1>1, <2>1, <2>2, <2>3
<1>6. QED
    BY <1>2, <1>4, <1>5 DEF Result, m

LEMMA NewestRowsAre ==
    ASSUME Sizes, NEW req \in Asks, req.op \in Direction, NEW reset \in BOOLEAN,
           reset \/ req.op = "tail", NEW m \in newestRows(req, reset)
    PROVE  Result(m)
<1>1. rowCount \in Nat /\ Limit \in Nat \ {0}
    BY SizesAre
<1>2. Min({Limit, rowCount}) = IF Limit <= rowCount THEN Limit ELSE rowCount
    BY <1>1, SmallerOfTwo
<1>3. PICK n \in 0..rowCount :
         /\ n = 0 => rowCount = 0
         /\ m = fetchResult(req.op, epoch, rowCount - n + 1, rowCount, reset, n > 0 /\ n < rowCount)
    <2>1. PICK n \in IF req.op = "tail" THEN Min({Limit, rowCount})..rowCount
                     ELSE {Min({Limit, rowCount})} :
             m = fetchResult(req.op, epoch, rowCount - n + 1, rowCount, reset, n > 0 /\ n < rowCount)
        BY DEF newestRows
    <2>2. n \in Min({Limit, rowCount})..rowCount
        BY <1>1, <1>2, <2>1
    <2>3. n \in 0..rowCount /\ (n = 0 => rowCount = 0)
        BY <1>1, <1>2, <2>2
    <2>4. QED
        BY <2>1, <2>3
<1>4. PICK first, older : first = rowCount - n + 1 /\ older = (n > 0 /\ n < rowCount)
    OBVIOUS
<1>5. first \in Nat \ {0} /\ older \in BOOLEAN /\ (first > rowCount => rowCount = 0)
    BY <1>1, <1>3, <1>4
<1>6. m = fetchResult(req.op, epoch, first, rowCount, reset, older)
    BY <1>3, <1>4
<1>7. rowCount <= rowCount
    BY <1>1
<1>8. QED
    BY <1>1, <1>5, <1>6, <1>7, FetchResultIs

LEMMA FetchIs ==
    ASSUME Sizes, NEW req \in Asks, req.op \in Direction, NEW m \in fetch(req)
    PROVE  Result(m)
<1>1. /\ req.epoch \in 0..MaxEpochs /\ req.seq \in 0..MaxRows
      /\ req.epoch # 0 => Rows(req.epoch, req.seq)
      /\ req.op \in {"after", "before"} => req.epoch # 0
    BY DEF Asks, Request
<1>2. rowCount \in Nat /\ Limit \in Nat \ {0} /\ MaxRows \in Nat /\ epoch \in Nat \ {0}
      /\ rowCount = len[epoch]
    BY SizesAre DEF rowCount
<1>3. CASE req.epoch \notin {0, epoch}
    <2>1. m \in newestRows(req, TRUE)
        BY <1>3 DEF fetch
    <2>2. QED
        BY <2>1, NewestRowsAre
<1>4. CASE req.epoch \in {0, epoch} /\ rowCount = 0
    <2>1. m = fetchResult(req.op, epoch, 1, 0, FALSE, FALSE)
        BY <1>4 DEF fetch
    <2>2. 1 \in Nat \ {0} /\ 0 \in Nat /\ 0 <= rowCount /\ 0 = rowCount
        BY <1>4
    <2>3. QED
        BY <2>1, <2>2, FetchResultIs
<1>5. CASE req.epoch \in {0, epoch} /\ rowCount # 0 /\ req.op = "tail"
    <2>1. m \in newestRows(req, FALSE)
        BY <1>5 DEF fetch
    <2>2. QED
        BY <1>5, <2>1, NewestRowsAre
<1>6. CASE req.epoch \in {0, epoch} /\ rowCount # 0 /\ req.op = "after"
    <2>1. m = fetchAfter(req)
        BY <1>6 DEF fetch
    <2>2. req.seq \in Nat /\ req.seq + Limit \in Int /\ rowCount \in Int
        BY <1>1, <1>2
    <2>3. Min({req.seq + Limit, rowCount})
            = IF req.seq + Limit <= rowCount THEN req.seq + Limit ELSE rowCount
        BY <2>2, SmallerOfTwo
    <2>4. PICK first, last : first = req.seq + 1 /\ last = Min({req.seq + Limit, rowCount})
        OBVIOUS
    <2>5. m = fetchResult("after", epoch, first, last, FALSE, TRUE)
        BY <2>1, <2>4 DEF fetchAfter
    <2>6. first \in Nat \ {0} /\ last \in Nat /\ last <= rowCount /\ "after" \in Direction
        BY <1>2, <2>2, <2>3, <2>4 DEF Direction
    <2>7. QED
        BY <2>5, <2>6, FetchResultIs
<1>7. CASE req.epoch \in {0, epoch} /\ rowCount # 0 /\ req.op = "before"
    <2>1. m = fetchBefore(req)
        BY <1>7 DEF fetch
    <2>2. req.epoch = epoch /\ req.seq \in 1..rowCount
        BY <1>1, <1>2, <1>7 DEF Rows
    <2>3. 1 \in Int /\ req.seq - Limit \in Int /\ req.seq \in Nat
        BY <1>2, <2>2
    <2>4. Max({1, req.seq - Limit}) = IF 1 >= req.seq - Limit THEN 1 ELSE req.seq - Limit
        BY <2>3, LargerOfTwo
    <2>5. PICK first, older : /\ first = Max({1, req.seq - Limit})
                              /\ older = (first < req.seq /\ first > 1)
        OBVIOUS
    <2>6. PICK last : last = req.seq - 1
        OBVIOUS
    <2>7. m = fetchResult("before", epoch, first, last, FALSE, older)
        BY <2>1, <2>5, <2>6 DEF fetchBefore
    <2>8. /\ first \in Nat \ {0} /\ last \in Nat /\ last <= rowCount /\ older \in BOOLEAN
          /\ "before" \in Direction
        BY <1>2, <2>2, <2>3, <2>4, <2>5, <2>6 DEF Direction
    <2>9. QED
        BY <2>7, <2>8, FetchResultIs
<1>8. QED
    BY <1>3, <1>4, <1>5, <1>6, <1>7 DEF Direction

LEMMA AnswersKept ==
    ASSUME Kept, NEW i \in DOMAIN requests, Answers(i)
    PROVE  Kept' /\ Moves
<1>1. PICK m \in fetch(requests[i]) : wire' = Append(wire, m)
    BY DEF Answers, Emits
<1>2. requests' = RemoveAt(requests, i) /\ requests[i].op \in Direction
      /\ UNCHANGED <<len, View0, queue>>
    BY DEF Answers, daemon, displayed, View0
<1>3. Sizes /\ requests \in Seq(Asks)
    BY DEF Kept, Good
<1>4. i \in 1..Len(requests)
    BY <1>3
<1>5. requests[i] \in Asks /\ requests' \in Seq(Asks)
    BY <1>2, <1>3, <1>4, Removed
<1>6. Result(m)
    BY <1>1, <1>2, <1>3, <1>5, FetchIs
<1>7. QED
    BY <1>1, <1>2, <1>5, <1>6, Telling DEF Result

(* Steps in which the logs grow. *)
LEMMA Growing ==
    ASSUME Kept, Grown, len' = [len EXCEPT ![epoch] = @ + 1] \/ len' = Append(len, 0),
           UNCHANGED <<View0, wire, queue>>, requests' \in Seq(Asks)
    PROVE  Kept' /\ Moves
<1>1. Good /\ Ordered /\ Displayed
    BY DEF Kept
<1>2. requests' \in Seq(Asks)'
    BY <1>1, AsksStay
<1>3. Good' /\ Ordered' /\ Displayed'
    BY <1>1, <1>2, Quiet
<1>4. QED
    BY <1>3 DEF Kept, Moves

LEMMA RowDispatchedKept ==
    ASSUME Kept, RowDispatched
    PROVE  Kept' /\ Moves
<1>1. /\ mayGrow /\ len' = [len EXCEPT ![epoch] = @ + 1] /\ UNCHANGED <<View0, queue, requests>>
    BY DEF RowDispatched, displayed, View0
<1>2. Good /\ Ordered /\ Displayed /\ Sizes /\ requests \in Seq(Asks)
    BY DEF Kept, Good
<1>3. Grown /\ epoch' = epoch /\ len'[epoch] = rowCount + 1 /\ rowCount \in Nat
    BY <1>1, <1>2, LogGrows
<1>4. CASE connected /\ forwarding
    <2>1. PICK m : m = notice("row", epoch, rowCount + 1)
        OBVIOUS
    <2>2. wire' = Append(wire, m)
        BY <1>4, <2>1 DEF RowDispatched, Emits
    <2>3. /\ m \in Message /\ m.type = "row" /\ m.epoch = epoch /\ m.first = rowCount + 1
          /\ m.last = rowCount + 1
        <3>1. epoch \in 0..MaxEpochs /\ rowCount + 1 \in Nat /\ "tail" \in Direction
            BY <1>2, <1>3, SizesAre DEF Sizes, Direction
        <3>2. QED
            BY <2>1, <3>1 DEF notice, Message
    <2>4. m \in Sent'
        <3>1. m.epoch \in 1..epoch' /\ m.first >= 1 /\ m.last <= len'[m.epoch] /\ ~(m.first > m.last)
            BY <1>2, <1>3, <2>3, SizesAre
        <3>2. QED
            BY <2>3, <3>1 DEF Sent
    <2>5. AtTop(m)
        <3> SUFFICES ASSUME NEW e \in 1..epoch, NEW n \in 0..len[e]
                     PROVE  Upto(e, n, m)
            BY DEF AtTop
        <3>1. len[e] \in Nat /\ e \in Nat /\ epoch \in Nat
            BY <1>2, SizesAre
        <3>2. CASE e < epoch
            BY <2>3, <3>2 DEF Upto
        <3>3. CASE e = epoch
            <4>1. n < rowCount + 1
                BY <1>3, <3>1, <3>3 DEF rowCount
            <4>2. QED
                BY <2>3, <3>3, <4>1 DEF Upto
        <3>4. QED
            BY <3>1, <3>2, <3>3
    <2>6. requests' \in Seq(Asks)'
        BY <1>1, <1>2, <1>3, AsksStay
    <2>7. Good' /\ Ordered' /\ Displayed'
        BY <1>1, <1>2, <1>3, <2>2, <2>4, <2>5, <2>6, Emitted
    <2>8. QED
        BY <1>1, <2>7 DEF Kept, Moves
<1>5. CASE ~(connected /\ forwarding)
    <2>1. wire' = wire
        BY <1>5 DEF RowDispatched
    <2>2. QED
        BY <1>1, <1>2, <1>3, <2>1, Growing
<1>6. QED
    BY <1>4, <1>5

LEMMA HistoryReadKept ==
    ASSUME Kept, HistoryRead
    PROVE  Kept' /\ Moves
<1>1. UNCHANGED <<View0, wire, queue, requests>>
    BY DEF HistoryRead, displayed, View0
<1>2. Sizes /\ requests \in Seq(Asks)
    BY DEF Kept, Good
<1>3. CASE mayGrow /\ len' = [len EXCEPT ![epoch] = @ + 1]
    BY <1>1, <1>2, <1>3, LogGrows, Growing
<1>4. CASE len' = len
    BY <1>1, <1>2, <1>4, Asking
<1>5. QED
    BY <1>3, <1>4 DEF HistoryRead

LEMMA AgentRegisteredKept ==
    ASSUME Kept, AgentRegistered
    PROVE  Kept' /\ Moves
<1>1. /\ epoch < MaxEpochs /\ len' = Append(len, 0) /\ UNCHANGED <<View0, wire, queue>>
    BY DEF AgentRegistered, displayed, View0
<1>2. PICK W : requests' = [i \in DOMAIN requests |-> [requests[i] EXCEPT !.waits = @ \/ i \in W]]
    BY DEF AgentRegistered
<1>3. Sizes /\ requests \in Seq(Asks)
    BY DEF Kept, Good
<1>4. requests' \in Seq(Asks)
    <2>1. Len(requests) \in Nat /\ DOMAIN requests = 1..Len(requests)
        BY <1>3
    <2>2. \A r \in Asks, w \in BOOLEAN : [r EXCEPT !.waits = w] \in Asks
        <3> SUFFICES ASSUME NEW r \in Asks, NEW w \in BOOLEAN
                     PROVE  [r EXCEPT !.waits = w] \in Asks
            OBVIOUS
        <3> DEFINE t == [r EXCEPT !.waits = w]
        <3>1. /\ r \in Request /\ (r.epoch # 0 => Rows(r.epoch, r.seq))
              /\ (r.op \in {"after", "before"} => r.epoch # 0)
            BY DEF Asks
        <3>2. t \in Request /\ t.epoch = r.epoch /\ t.seq = r.seq /\ t.op = r.op
            BY <3>1 DEF Request
        <3> HIDE DEF t
        <3>3. t \in Asks
            BY <3>1, <3>2 DEF Asks
        <3>4. QED
            BY <3>3 DEF t
    <2>3. \A i \in 1..Len(requests) : [requests[i] EXCEPT !.waits = @ \/ i \in W] \in Asks
        <3> SUFFICES ASSUME NEW i \in 1..Len(requests)
                     PROVE  [requests[i] EXCEPT !.waits = @ \/ i \in W] \in Asks
            OBVIOUS
        <3>1. requests[i] \in Asks
            BY <1>3
        <3>2. PICK w : w = (requests[i].waits \/ i \in W)
            OBVIOUS
        <3>3. w \in BOOLEAN
            BY <3>2
        <3>4. [requests[i] EXCEPT !.waits = @ \/ i \in W] = [requests[i] EXCEPT !.waits = w]
            BY <3>1, <3>2 DEF Asks, Request
        <3>5. QED
            BY <2>2, <3>1, <3>3, <3>4
    <2>4. requests' \in [1..Len(requests) -> Asks]
        BY <1>2, <2>1, <2>3
    <2>5. QED
        BY <2>1, <2>4, SeqDef
<1>5. QED
    BY <1>1, <1>3, <1>4, LogBegins, Growing

LEMMA ReloadBeginsKept ==
    ASSUME Kept, ReloadBegins
    PROVE  Kept' /\ Moves
<1>1. /\ epoch < MaxEpochs /\ len' = Append(len, 0) /\ UNCHANGED <<View0, wire, queue>>
    BY DEF ReloadBegins, newEpoch, displayed, View0
<1>2. Sizes /\ requests \in Seq(Asks)
    BY DEF Kept, Good
<1>3. requests' \in Seq(Asks)
    <2>1. CASE requests' = requests
        BY <1>2, <2>1
    <2>2. CASE \E i \in arrived : requests' = [requests EXCEPT ![i].waits = TRUE]
        <3>1. PICK i \in arrived : requests' = [requests EXCEPT ![i].waits = TRUE]
            BY <2>2
        <3>2. i \in 1..Len(requests) /\ requests[i] \in Asks
            BY <1>2 DEF arrived
        <3> DEFINE r == requests[i]
                   t == [r EXCEPT !.waits = TRUE]
        <3>3. /\ r \in Request /\ (r.epoch # 0 => Rows(r.epoch, r.seq))
              /\ (r.op \in {"after", "before"} => r.epoch # 0)
            BY <3>2 DEF Asks
        <3>4. requests' = [requests EXCEPT ![i] = t]
            BY <3>1
        <3> HIDE DEF r
        <3>5. t \in Request /\ t.epoch = r.epoch /\ t.seq = r.seq /\ t.op = r.op
            BY <3>3 DEF Request
        <3> HIDE DEF t
        <3>6. t \in Asks
            BY <3>3, <3>5 DEF Asks
        <3>7. QED
            BY <1>2, <3>2, <3>4, <3>6, ExceptSeq
    <2>3. QED
        BY <2>1, <2>2 DEF ReloadBegins
<1>4. QED
    BY <1>1, <1>2, <1>3, LogBegins, Growing

(* Every step. *)
LEMMA StepKept ==
    ASSUME Kept, [Next]_vars
    PROVE  Kept' /\ Moves
<1>1. CASE AppStep
    BY <1>1, LiveEventKept, QueueFlushedKept, ResponseReceivedKept, ErrorReceivedKept, RefreshedKept
       DEF AppStep
<1>2. CASE DaemonStep
    BY <1>2, HistoryReadKept, AgentRegisteredKept, ReloadReturnsKept, HeartbeatKept DEF DaemonStep
<1>3. CASE RowDispatched \/ TurnEnds \/ ReloadBegins
    BY <1>3, RowDispatchedKept, TurnEndsKept, ReloadBeginsKept
<1>4. CASE \E i \in DOMAIN requests : Answers(i) \/ AnswerFails(i)
    BY <1>4, AnswersKept, AnswerFailsKept
<1>5. CASE HistorySynced \/ PaneFocused \/ InitTimesOut \/ LoadOlder
    BY <1>5, HistorySyncedKept, InitTimesOutKept, LoadOlderKept
<1>6. CASE AppHidden \/ AppResumed \/ ReloadRequested
    BY <1>6, AppAsksKept
<1>7. CASE Disconnects \/ DaemonRestarts
    BY <1>7, ConnectionLostKept DEF Disconnects, DaemonRestarts
<1>8. CASE Reconnects
    BY <1>8, InitTimesOutKept
<1>9. CASE UNCHANGED vars
    <2>1. UNCHANGED <<len, View0, wire, queue, requests>>
        BY <1>9 DEF vars, daemon, displayed, history, View0
    <2>2. requests' \in Seq(Asks)
        BY <2>1 DEF Kept, Good
    <2>3. QED
        BY <2>1, <2>2, Asking
<1>10. QED
    BY <1>1, <1>2, <1>3, <1>4, <1>5, <1>6, <1>7, <1>8, <1>9 DEF Next

-----------------------------------------------------------------------------
(* The inductive invariant. *)
Flags ==
    /\ kinds \in Patterns
    /\ loaded \in {"no", "hydrating", "yes"}
    /\ forwarding \in BOOLEAN /\ connected \in BOOLEAN
    /\ init \in {"none", "tail", "after"}
    /\ authoritative \in BOOLEAN /\ mustSync \in BOOLEAN
    /\ hasOlder \in BOOLEAN /\ olderInFlight \in BOOLEAN
    /\ told \in {"no", "yes", "short"}
    /\ \E scenario \in Scenarios : happened \subseteq scenario

IInv == Flags /\ Kept

LEMMA InitKept == Init => IInv
<1> SUFFICES ASSUME Init PROVE IInv
    OBVIOUS
<1>1. MaxRows \in Nat \ {0} /\ MaxEpochs \in Nat \ {0}
    BY BoundsAssumption
<1>2. Sizes
    <2>1. len = <<1>> /\ 1 \in 0..MaxRows /\ 1 \in 1..MaxEpochs
        BY <1>1 DEF Init
    <2>2. Len(<<1>>) = 1 /\ <<1>> \in Seq(0..MaxRows)
        BY <2>1
    <2>3. QED
        BY <2>1, <2>2 DEF Sizes, epoch
<1>3. Good
    BY <1>2 DEF Init, Good
<1>4. Ordered
    <2>1. pipeline = <<>>
        BY DEF Init, pipeline
    <2>2. Len(<<>>) = 0
        OBVIOUS
    <2>3. QED
        BY <2>1, <2>2 DEF Ordered, InOrder, Behind
<1>5. Displayed
    <2>1. ofCursor(<<>>) = <<>>
        <3>1. \A i \in 1..Len(<<>>) : FALSE
            OBVIOUS
        <3>2. <<>> \in Seq(Row)
            OBVIOUS
        <3>3. QED
            BY <3>1, <3>2, OfCursorNone
    <2>2. ListOf(shown) = <<>>
        <3>1. shown.tail = <<>> /\ shown.head = <<>>
            BY DEF Init, shown
        <3>2. <<>> \o <<>> = <<>>
            OBVIOUS
        <3>3. QED
            BY <2>1, <3>1, <3>2 DEF ListOf
    <2>3. QED
        BY <2>2 DEF Init, Displayed, Covers
<1>6. Flags
    BY ScenariosAssumption DEF Init, Flags
<1>7. QED
    BY <1>3, <1>4, <1>5, <1>6 DEF IInv, Kept

LEMMA HappenedKept ==
    ASSUME Flags, NEW h, happens(h)
    PROVE  \E scenario \in Scenarios : happened' \subseteq scenario
BY DEF happens

LEMMA FlagsKept ==
    ASSUME IInv, [Next]_vars
    PROVE  Flags'
<1> USE DEF IInv, Flags
<1>1. CASE LiveEventReceived \/ QueueFlushed
    BY <1>1 DEF LiveEventReceived, QueueFlushed, daemon, sync, history
<1>2. CASE ResponseReceived
    <2>1. PICK m : m = Head(wire)
        OBVIOUS
    <2>2. m \in Message
        <3>1. wire \in Seq(Sent) /\ wire # <<>>
            BY <1>2 DEF ResponseReceived, Kept, Good
        <3>2. QED
            BY <2>1, <3>1, HeadTailProperties DEF Sent
    <2>3. /\ init' = IF m.reset \/ init = m.op THEN "none" ELSE init
          /\ authoritative' = (authoritative \/ m.op # "before")
          /\ hasOlder' = m.hasOlder
          /\ olderInFlight' = (olderInFlight /\ m.op # "before")
          /\ UNCHANGED <<kinds, loaded, forwarding, connected, mustSync, told, happened>>
        BY <1>2, <2>1 DEF ResponseReceived, daemon
    <2>4. authoritative' \in BOOLEAN /\ olderInFlight' \in BOOLEAN
        BY <2>3, Zenon
    <2>5. hasOlder' \in BOOLEAN
        BY <2>2, <2>3 DEF Message
    <2>6. init' \in {"none", "tail", "after"}
        BY <2>3
    <2>7. QED
        BY <2>3, <2>4, <2>5, <2>6
<1>3. CASE ErrorReceived
    <2>1. olderInFlight' \in BOOLEAN
        BY <1>3, Zenon DEF ErrorReceived
    <2>2. QED
        BY <1>3, <2>1 DEF ErrorReceived, daemon, history
<1>4. CASE RefreshedReceived
    BY <1>4 DEF RefreshedReceived, daemon, sync, history
<1>5. CASE HistoryRead
    BY <1>5 DEF HistoryRead, sync, Tells
<1>6. CASE AgentRegistered
    BY <1>6 DEF AgentRegistered, sync, Tells
<1>7. CASE ReloadReturns \/ TurnEnds
    BY <1>7 DEF ReloadReturns, TurnEnds, daemon, sync, history
<1>8. CASE HeartbeatHandled
    <2>1. PICK r : forwarding' = (r = "visible")
        BY <1>8 DEF HeartbeatHandled
    <2>2. forwarding' \in BOOLEAN
        BY <2>1
    <2>3. QED
        BY <1>8, <2>2 DEF HeartbeatHandled, sync, history
<1>9. CASE RowDispatched
    BY <1>9 DEF RowDispatched, sync, Tells
<1>10. CASE ReloadBegins
    <2>1. /\ loaded' = "hydrating" /\ told' \in {"no", "yes", "short"}
          /\ UNCHANGED <<kinds, forwarding, connected, sync>>
        BY <1>10 DEF ReloadBegins, newEpoch, Tells
    <2>2. \E scenario \in Scenarios : happened' \subseteq scenario
        BY <1>10, HappenedKept DEF ReloadBegins
    <2>3. QED
        BY <2>1, <2>2 DEF sync
<1>11. CASE \E i \in DOMAIN requests : Answers(i)
    <2>1. /\ told' \in {"no", "yes", "short"}
          /\ UNCHANGED <<kinds, loaded, forwarding, connected, sync, happened>>
        BY <1>11 DEF Answers, Tells, daemon
    <2>2. QED
        BY <2>1 DEF sync
<1>12. CASE \E i \in DOMAIN requests : AnswerFails(i)
    <2>1. UNCHANGED <<kinds, loaded, forwarding, connected, sync, told>> /\ happens("error")
        BY <1>12 DEF AnswerFails, daemon, history
    <2>2. QED
        BY <2>1, HappenedKept DEF sync
<1>13. CASE HistorySynced
    BY <1>13 DEF HistorySynced, EnsureInitialized, daemon, history
<1>14. CASE PaneFocused
    <2>1. /\ init' \in {"none", "tail", "after"} /\ happens("focus")
          /\ UNCHANGED <<kinds, loaded, forwarding, connected, authoritative, mustSync, hasOlder,
                         olderInFlight, told>>
        BY <1>14 DEF PaneFocused, EnsureInitialized, daemon, history
    <2>2. QED
        BY <2>1, HappenedKept
<1>15. CASE InitTimesOut
    <2>1. /\ init' = "none" /\ happens("timeout")
          /\ UNCHANGED <<kinds, loaded, forwarding, connected, authoritative, mustSync, hasOlder,
                         olderInFlight, told>>
        BY <1>15 DEF InitTimesOut, daemon, history
    <2>2. QED
        BY <2>1, HappenedKept
<1>16. CASE LoadOlder
    BY <1>16 DEF LoadOlder, daemon, history
<1>17. CASE AppHidden
    <2>1. UNCHANGED <<kinds, loaded, forwarding, connected, sync, told>> /\ happens("hide")
        BY <1>17 DEF AppHidden, daemon, history
    <2>2. QED
        BY <2>1, HappenedKept DEF sync
<1>18. CASE AppResumed
    BY <1>18 DEF AppResumed, daemon, sync, history
<1>19. CASE ReloadRequested
    <2>1. UNCHANGED <<kinds, loaded, forwarding, connected, sync, told>> /\ happens("reload")
        BY <1>19 DEF ReloadRequested, daemon, history
    <2>2. QED
        BY <2>1, HappenedKept DEF sync
<1>20. CASE Disconnects
    <2>1. /\ UNCHANGED <<kinds, loaded, forwarding, authoritative, mustSync, hasOlder>>
          /\ connected' = FALSE /\ init' = "none" /\ olderInFlight' = FALSE /\ told' = "no"
          /\ happens("disconnect")
        BY <1>20 DEF Disconnects, ConnectionLost
    <2>2. QED
        BY <2>1, HappenedKept
<1>21. CASE DaemonRestarts
    <2>1. /\ UNCHANGED <<kinds, forwarding, authoritative, mustSync, hasOlder>> /\ loaded' = "no"
          /\ connected' = FALSE /\ init' = "none" /\ olderInFlight' = FALSE /\ told' = "no"
          /\ happens("restart")
        BY <1>21 DEF DaemonRestarts, ConnectionLost
    <2>2. QED
        BY <2>1, HappenedKept
<1>22. CASE Reconnects
    BY <1>22 DEF Reconnects, history
<1>23. CASE UNCHANGED vars
    BY <1>23 DEF vars, daemon, sync, history
<1>24. QED
    BY <1>1, <1>2, <1>3, <1>4, <1>5, <1>6, <1>7, <1>8, <1>9, <1>10, <1>11, <1>12, <1>13, <1>14,
       <1>15, <1>16, <1>17, <1>18, <1>19, <1>20, <1>21, <1>22, <1>23
       DEF Next, AppStep, DaemonStep
-----------------------------------------------------------------------------
(* The theorems. *)

(* In every state the messages on the way to the app are in order and about rows that exist, the *)
(* cursor is behind whatever may replace the list, and the list is the cursor's rows.            *)
THEOREM TimelineInvariant == Spec => []IInv
<1>1. IInv /\ [Next]_vars => IInv'
    BY StepKept, FlagsKept DEF IInv
<1>2. QED
    BY <1>1, InitKept, PTL DEF Spec

(* The lists, the log, the cursor and the messages of the app and of the daemon keep their types. *)
THEOREM TimelineType == Spec => []TypeOK
<1>1. IInv => TypeOK
    <2> SUFFICES ASSUME IInv PROVE TypeOK
        OBVIOUS
    <2>1. Good /\ Flags
        BY DEF IInv, Kept
    <2>2. requests \in Seq(Request)
        <3>1. requests \in Seq(Asks) /\ Asks \subseteq Request
            BY <2>1 DEF Good, Asks
        <3>2. QED
            BY <3>1, SeqMonotonic
    <2>3. wire \in Seq(Message) /\ queue \in Seq(Message)
        <3>1. wire \in Seq(Sent) /\ queue \in Seq(Live)
            BY <2>1 DEF Good
        <3>2. Sent \subseteq Message /\ Live \subseteq Message
            BY DEF Sent, Live
        <3>3. QED
            BY <3>1, <3>2, SeqMonotonic
    <2>4. cursor \in Cursor \cup {None}
        BY <2>1 DEF Good, Displayable
    <2>5. tail \in Seq(Row) /\ head \in Seq(Row) /\ outdated \in Nat
        BY <2>1 DEF Good
    <2>6. len \in Seq(0..MaxRows) /\ epoch \in 1..MaxEpochs
        BY <2>1 DEF Good, Sizes
    <2>7. QED
        BY <2>1, <2>2, <2>3, <2>4, <2>5, <2>6 DEF TypeOK, Flags
<1>2. QED
    BY <1>1, TimelineInvariant, PTL

(* What is current: the rows of the cursor, or none. *)
LEMMA CurrentIs ==
    ASSUME IInv
    PROVE  IF cursor = None THEN current = <<>>
           ELSE /\ cursor \in Displayable
                /\ \E first \in cursor.startSeq..cursor.endSeq :
                      /\ current = rows(cursor.epoch, first, cursor.endSeq)
                      /\ outdated = 0 => first = cursor.startSeq
<1> DEFINE list == ofCursor(tail \o head)
           n == Len(list)
<1>1. Good /\ Displayed
    BY DEF IInv, Kept
<1>2. list \in Seq(Row) /\ n \in Nat /\ outdated \in Nat
    <2>1. tail \o head \in Seq(Row)
        BY <1>1, ConcatProperties DEF Good
    <2>2. list \in Seq(Row)
        BY <2>1, OfCursorIs
    <2>3. QED
        BY <1>1, <2>2 DEF Good
<1>3. Covers(cursor, list, outdated) /\ current = SubSeq(list, outdated + 1, n)
    <2>1. ListOf(shown) = list
        BY DEF ListOf, shown
    <2>2. QED
        BY <1>1, <2>1 DEF Displayed, current
<1> HIDE DEF list, n
<1>4. CASE cursor = None
    <2>1. list = <<>> /\ outdated = 0
        BY <1>3, <1>4 DEF Covers
    <2>2. Len(<<>>) = 0 /\ SubSeq(<<>>, 1, 0) = <<>>
        BY SubSeqEmpty
    <2>3. n = 0
        BY <2>1, <2>2 DEF n
    <2>4. QED
        BY <1>3, <1>4, <2>1, <2>2, <2>3
<1>5. CASE cursor # None
    <2>1. cursor \in Displayable /\ Sizes
        BY <1>1, <1>5 DEF Good
    <2>2. PICK first \in cursor.startSeq..cursor.endSeq :
              /\ Ranged(list, outdated, cursor.epoch, first, cursor.endSeq)
              /\ outdated = 0 => first = cursor.startSeq
        BY <1>3, <1>5 DEF Covers
    <2> DEFINE k == cursor.endSeq - first + 1
               r == rows(cursor.epoch, first, cursor.endSeq)
    <2>3. /\ cursor.epoch \in 1..MaxEpochs /\ first \in Nat \ {0} /\ cursor.endSeq \in Int
          /\ cursor.endSeq <= MaxRows /\ first <= cursor.endSeq /\ MaxRows \in Nat
        BY <2>1, <2>2, SizesAre DEF Displayable, Cursor
    <2>4. k \in Nat \ {0} /\ outdated + k = n
        BY <2>2, <2>3 DEF Ranged, n
    <2>5. r \in Seq(Row) /\ Len(r) = k
          /\ \A i \in 1..k : r[i] = [epoch |-> cursor.epoch, seq |-> first + i - 1, kept |-> FALSE]
        BY <2>3, RowsIs
    <2>6. \A i \in 1..k :
             list[outdated + i] = [epoch |-> cursor.epoch, seq |-> first + i - 1, kept |-> FALSE]
        BY <2>2 DEF Ranged
    <2> HIDE DEF k, r
    <2>7. current \in Seq(Row) /\ Len(current) = k /\ \A i \in 1..k : current[i] = list[outdated + i]
        <3>1. outdated + 1 \in 1..n + 1 /\ n \in outdated..n
            BY <1>2, <2>4
        <3>2. \A i \in outdated + 1..n : list[i] \in Row
            BY <1>2 DEF n
        <3>3. QED
            BY <1>2, <1>3, <2>4, <3>1, <3>2, SubSeqProperties
    <2>8. current = r
        BY <2>5, <2>6, <2>7, SeqEqual
    <2>9. QED
        BY <1>5, <2>1, <2>2, <2>8 DEF r
<1>6. QED
    BY <1>4, <1>5

(* Whatever pages, live rows and resets were merged, the cursor says which rows are displayed: *)
(* startSeq..endSeq of its epoch, each once and in order.                                      *)
THEOREM TimelineDisplayedIsCursor == Spec => []DisplayedIsCursor
<1>1. IInv => DisplayedIsCursor
    BY CurrentIs DEF DisplayedIsCursor
<1>2. QED
    BY <1>1, TimelineInvariant, PTL

-----------------------------------------------------------------------------
(* The refinement: the list of the app is a view of the log. *)
viewed == [i \in DOMAIN current |-> [epoch |-> current[i].epoch, seq |-> current[i].seq]]

(* Nothing is displayed, or a segment of the cursor's log that ends where the cursor does. *)
Viewed ==
    /\ cursor = None => viewed = <<>>
    /\ cursor # None =>
         /\ cursor \in Displayable /\ viewed # <<>>
         /\ \E first \in 1..cursor.endSeq :
               viewed = View!Segment(cursor.epoch, first, cursor.endSeq)
         /\ viewed[1].epoch = cursor.epoch
         /\ viewed[Len(viewed)].seq = cursor.endSeq

LEMMA ViewedIs == IInv => Viewed
<1> SUFFICES ASSUME IInv PROVE Viewed
    OBVIOUS
<1>1. CASE cursor = None
    <2>1. current = <<>>
        BY <1>1, CurrentIs
    <2>2. viewed = <<>>
        BY <2>1 DEF viewed
    <2>3. QED
        BY <1>1, <2>2 DEF Viewed
<1>2. CASE cursor # None
    <2>1. PICK first \in cursor.startSeq..cursor.endSeq :
              current = rows(cursor.epoch, first, cursor.endSeq)
        BY <1>2, CurrentIs
    <2>2. cursor \in Displayable /\ Sizes
        BY <1>2, CurrentIs DEF IInv, Kept, Good
    <2> DEFINE e == cursor.epoch
               last == cursor.endSeq
               k == last - first + 1
    <2>3. first \in Nat \ {0} /\ last \in Nat /\ first <= last /\ k \in Nat \ {0}
        BY <2>2, <2>1 DEF Displayable, Cursor
    <2> HIDE DEF k
    <2>4. viewed = [i \in 1..k |-> [epoch |-> e, seq |-> first + i - 1]]
        <3>1. current = [i \in 1..k |-> [epoch |-> e, seq |-> first + i - 1, kept |-> FALSE]]
            BY <2>1 DEF rows, k
        <3>2. DOMAIN current = 1..k
            BY <3>1
        <3>3. \A i \in 1..k : current[i].epoch = e /\ current[i].seq = first + i - 1
            BY <3>1
        <3>4. QED
            BY <3>2, <3>3 DEF viewed
    <2>5. viewed = View!Segment(e, first, last)
        BY <2>4 DEF View!Segment, k
    <2>6. Len(viewed) = k /\ viewed # <<>>
        <3> DEFINE S == [epoch : {e}, seq : Int]
        <3>0. viewed \in [1..k -> S]
            BY <2>3, <2>4
        <3> HIDE DEF S
        <3>1. viewed \in Seq(S)
            BY <2>3, <3>0, SeqDef
        <3>2. Len(viewed) = k
            BY <2>3, <3>0, <3>1, LenProperties
        <3>3. QED
            BY <2>3, <3>2, EmptySeq
    <2>7. viewed[1] = [epoch |-> e, seq |-> first + 1 - 1] /\ viewed[k] = [epoch |-> e, seq |-> first + k - 1]
        BY <2>3, <2>4
    <2>8. first + k - 1 = last
        BY <2>3 DEF k
    <2>9. first \in 1..last
        BY <2>3
    <2>10. QED
        BY <1>2, <2>2, <2>5, <2>6, <2>7, <2>8, <2>9 DEF Viewed
<1>3. QED
    BY <1>1, <1>2

LEMMA ViewBegins == Init => View!Init
<1> SUFFICES ASSUME Init PROVE View!Init
    OBVIOUS
<1>1. IInv /\ cursor = None
    BY InitKept DEF Init
<1>2. viewed = <<>>
    BY <1>1, ViewedIs DEF Viewed
<1>3. len \in Seq(Nat)
    BY DEF Init
<1>4. QED
    BY <1>2, <1>3 DEF View!Init, viewed

(* What is displayed is a segment of the log. *)
LEMMA ViewedIsSegment == IInv => viewed \in View!Segments
<1> SUFFICES ASSUME IInv PROVE viewed \in View!Segments
    OBVIOUS
<1>1. CASE cursor = None
    BY <1>1, ViewedIs DEF Viewed, View!Segments
<1>2. CASE cursor # None
    <2>1. cursor \in Displayable /\ Sizes
        BY <1>2, ViewedIs DEF Viewed, IInv, Kept, Good
    <2>2. PICK first \in 1..cursor.endSeq :
              viewed = View!Segment(cursor.epoch, first, cursor.endSeq)
        BY <1>2, ViewedIs DEF Viewed
    <2>3. cursor.epoch \in DOMAIN len /\ cursor.endSeq \in 1..len[cursor.epoch]
        BY <2>1 DEF Displayable, Rows, Sizes, epoch
    <2>4. first \in 1..len[cursor.epoch]
        <3>1. len[cursor.epoch] \in Int
            BY <2>1, SizesAre DEF Displayable, Rows
        <3>2. QED
            BY <2>2, <2>3, <3>1
    <2>5. QED
        BY <2>2, <2>3, <2>4 DEF View!Segments
<1>3. QED
    BY <1>1, <1>2

(* Every step is a step of the view: a step that displays, a row or an epoch of the log. *)
LEMMA ViewSteps ==
    ASSUME IInv, IInv', [Next]_vars
    PROVE  [View!Next]_(View!vars)
<1>1. Moves
    BY StepKept DEF IInv
<1>2. (IInv => Viewed /\ viewed \in View!Segments)'
    BY ViewedIs, ViewedIsSegment, PTL
<1>3. Viewed /\ Viewed' /\ viewed' \in View!Segments'
    BY <1>2, ViewedIs
<1>4. CASE len' = len /\ Succeeds(cursor, cursor')
    <2>1. viewed' \in View!Segments
        <3>1. viewed' \in View!Segments'
            BY <1>3
        <3>2. View!Segments' = View!Segments
            BY <1>4 DEF View!Segments, View!Segment
        <3>3. QED
            BY <3>1, <3>2
    <2>2. View!NotOlder(viewed', viewed)
        <3>1. CASE cursor = None
            BY <3>1, <1>3 DEF Viewed, View!NotOlder
        <3>2. CASE cursor # None /\ cursor' = None
            <4>1. cursor.epoch < Len(len)
                BY <1>4, <3>2 DEF Succeeds, Onward, epoch
            <4>2. viewed' = <<>> /\ viewed # <<>> /\ viewed[1].epoch = cursor.epoch
                BY <1>3, <3>2 DEF Viewed
            <4>3. QED
                BY <4>1, <4>2 DEF View!NotOlder
        <3>3. CASE cursor # None /\ cursor' # None
            <4>1. \/ cursor.epoch < cursor'.epoch
                  \/ cursor.epoch = cursor'.epoch /\ cursor.endSeq <= cursor'.endSeq
                BY <1>4, <3>3 DEF Succeeds, Onward
            <4>2. /\ viewed # <<>> /\ viewed[1].epoch = cursor.epoch
                  /\ viewed[Len(viewed)].seq = cursor.endSeq /\ cursor \in Displayable
                BY <1>3, <3>3 DEF Viewed
            <4>3. /\ viewed' # <<>> /\ viewed'[1].epoch = cursor'.epoch
                  /\ viewed'[Len(viewed')].seq = cursor'.endSeq /\ cursor' \in Displayable'
                BY <1>3, <3>3 DEF Viewed
            <4>4. /\ cursor.epoch \in Int /\ cursor'.epoch \in Int
                  /\ cursor.endSeq \in Int /\ cursor'.endSeq \in Int
                BY <4>2, <4>3 DEF Displayable, Cursor
            <4>5. QED
                BY <4>1, <4>2, <4>3, <4>4 DEF View!NotOlder
        <3>4. QED
            BY <3>1, <3>2, <3>3
    <2>3. View!Display
        BY <1>4, <2>1, <2>2 DEF View!Display, viewed
    <2>4. QED
        BY <2>3 DEF View!Next
<1>5. CASE /\ UNCHANGED View0
           /\ len' = [len EXCEPT ![epoch] = @ + 1] \/ len' = Append(len, 0)
    <2>1. viewed' = viewed
        <3>1. current' = current
            BY <1>5 DEF View0, current, ofCursor, unkept
        <3>2. QED
            BY <3>1 DEF viewed
    <2>2. len # <<>>
        <3>1. Len(len) # 0
            BY DEF IInv, Kept, Good, Sizes, epoch
        <3>2. QED
            BY <3>1, EmptySeq
    <2>3. View!RowAdded \/ View!NewEpoch
        BY <1>5, <2>1, <2>2 DEF View!RowAdded, View!NewEpoch, viewed, epoch
    <2>4. QED
        BY <2>3 DEF View!Next
<1>6. QED
    BY <1>1, <1>4, <1>5 DEF Moves

(* The timeline of the daemon and the list of the app implement the view of TimelineView: the list *)
(* is always a segment of one log, it is replaced only by one that is not older, and it is given   *)
(* up only for a newer epoch.                                                                      *)
THEOREM TimelineImplementsView == Spec => ImplementsView
<1>1. IInv /\ IInv' /\ [Next]_vars => [View!Next]_(View!vars)
    BY ViewSteps
<1>2. QED
    BY <1>1, ViewBegins, TimelineInvariant, PTL DEF Spec, ImplementsView, View!Spec

=============================================================================
