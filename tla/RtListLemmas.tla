---------------------------- MODULE RtListLemmas ----------------------------
(* What the operations of RtList do to a list of any length.               *)
EXTENDS RtList, WellFoundedInduction, TLAPS

(* The order of the natural numbers as a well-founded relation.            *)
LEMMA NatOrder ==
  \E R : IsWellFoundedOn(R, Nat) /\ \A i, j \in Nat : <<j, i>> \in R <=> j < i
<1>1. IsWellFoundedOn(OpToRel(<, Nat), Nat)
  BY NatLessThanWellFounded
<1>2. \A i, j \in Nat : <<j, i>> \in OpToRel(<, Nat) <=> j < i
  BY DEF OpToRel
<1> QED BY <1>1, <1>2, Zenon

(* A set of natural numbers that is not empty has a least element.         *)
LEMMA LeastNatural ==
  ASSUME NEW T \in SUBSET Nat, T # {}
  PROVE  \E i \in T : \A j \in T : i <= j
<1>1. PICK R : IsWellFoundedOn(R, Nat) /\ \A i, j \in Nat : <<j, i>> \in R <=> j < i
  BY NatOrder
<1>2. PICK i \in T : \A j \in T : ~ (<<j, i>> \in R)
  BY <1>1, WFMin
<1>3. \A j \in T : ~ (j < i)
  BY <1>1, <1>2
<1> QED BY <1>3

(* Where an element is, for a list that holds it.                          *)
LEMMA PositionFacts ==
  ASSUME NEW S, NEW q \in Seq(S), NEW e, Occurs(q, e)
  PROVE  Position(q, e) \in 1 .. Len(q) /\ q[Position(q, e)] = e
BY DEF Occurs, Position

(* rt_list_insert_before at any place gives a list that is one longer and  *)
(* holds what it held and the new node.                                    *)
LEMMA InsertFacts ==
  ASSUME NEW S, NEW q \in Seq(S), NEW e \in S, NEW p \in 1 .. Len(q) + 1
  PROVE  /\ ListInsertBefore(q, p, e) \in Seq(S)
         /\ Len(ListInsertBefore(q, p, e)) = Len(q) + 1
         /\ \A x : Occurs(ListInsertBefore(q, p, e), x) <=> x = e \/ Occurs(q, x)
<1> DEFINE r == ListInsertBefore(q, p, e)
<1>1. r \in Seq(S) /\ Len(r) = Len(q) + 1
  BY DEF ListInsertBefore
<1>2. ASSUME NEW x, Occurs(r, x) PROVE x = e \/ Occurs(q, x)
  <2>1. PICK i \in 1 .. Len(q) + 1 : r[i] = x
    BY <1>1, <1>2 DEF Occurs
  <2>2. CASE i < p
    BY <2>1, <2>2 DEF ListInsertBefore, Occurs
  <2>3. CASE i = p
    BY <2>1, <2>3 DEF ListInsertBefore
  <2>4. CASE i > p
    <3>1. i - 1 \in 1 .. Len(q) /\ q[i - 1] = x
      BY <2>1, <2>4 DEF ListInsertBefore
    <3> QED BY <3>1 DEF Occurs
  <2> QED BY <2>2, <2>3, <2>4
<1>3. Occurs(r, e)
  <2>1. p \in 1 .. Len(r) /\ r[p] = e
    BY <1>1 DEF ListInsertBefore
  <2> QED BY <2>1 DEF Occurs
<1>4. ASSUME NEW x, Occurs(q, x) PROVE Occurs(r, x)
  <2>1. PICK i \in 1 .. Len(q) : q[i] = x
    BY <1>4 DEF Occurs
  <2>2. CASE i < p
    <3>1. i \in 1 .. Len(r) /\ r[i] = x
      BY <1>1, <2>1, <2>2 DEF ListInsertBefore
    <3> QED BY <3>1 DEF Occurs
  <2>3. CASE i >= p
    <3>1. i + 1 \in 1 .. Len(r) /\ r[i + 1] = x
      BY <1>1, <2>1, <2>3 DEF ListInsertBefore
    <3> QED BY <3>1 DEF Occurs
  <2> QED BY <2>2, <2>3
<1> HIDE DEF r
<1> QED BY <1>1, <1>2, <1>3, <1>4 DEF r

(* Inserting a node that is not in the list keeps every node single.       *)
LEMMA InsertNoDuplicates ==
  ASSUME NEW S, NEW q \in Seq(S), NEW e \in S, NEW p \in 1 .. Len(q) + 1,
         NoDuplicates(q), ~ Occurs(q, e)
  PROVE  NoDuplicates(ListInsertBefore(q, p, e))
<1> DEFINE r == ListInsertBefore(q, p, e)
           old(i) == IF i < p THEN i ELSE i - 1
<1>1. r \in Seq(S) /\ Len(r) = Len(q) + 1
  BY DEF ListInsertBefore
<1>2. \A i \in 1 .. Len(r) : i # p => old(i) \in 1 .. Len(q) /\ r[i] = q[old(i)]
  BY <1>1 DEF ListInsertBefore
<1>3. r[p] = e
  BY DEF ListInsertBefore
<1>4. ASSUME NEW i \in 1 .. Len(r), NEW j \in 1 .. Len(r), r[i] = r[j] PROVE i = j
  <2>1. CASE i = p /\ j # p
    BY <1>2, <1>3, <1>4, <2>1 DEF Occurs
  <2>2. CASE i # p /\ j = p
    BY <1>2, <1>3, <1>4, <2>2 DEF Occurs
  <2>3. CASE i # p /\ j # p
    <3>1. old(i) = old(j)
      <4>1. old(i) \in 1 .. Len(q) /\ old(j) \in 1 .. Len(q) /\ q[old(i)] = q[old(j)]
        BY <1>2, <1>4, <2>3
      <4> HIDE DEF old
      <4> QED BY <4>1 DEF NoDuplicates
    <3> QED BY <1>1, <2>3, <3>1
  <2> QED BY <2>1, <2>2, <2>3
<1> HIDE DEF r
<1> QED BY <1>4 DEF NoDuplicates, r

(* Taking out the first node, as rt_ipc_list_resume does.                  *)
LEMMA TailFacts ==
  ASSUME NEW S, NEW q \in Seq(S), q # <<>>, NoDuplicates(q)
  PROVE  /\ Head(q) \in S /\ Occurs(q, Head(q))
         /\ Tail(q) \in Seq(S) /\ NoDuplicates(Tail(q))
         /\ \A x : Occurs(Tail(q), x) <=> Occurs(q, x) /\ x # Head(q)
<1>1. Len(q) \in Nat /\ Len(q) > 0 /\ Head(q) = q[1] /\ Head(q) \in S
  OBVIOUS
<1>2. Tail(q) \in Seq(S) /\ Len(Tail(q)) = Len(q) - 1
      /\ \A i \in 1 .. Len(q) - 1 : Tail(q)[i] = q[i + 1]
  BY <1>1
<1>3. Occurs(q, Head(q))
  BY <1>1 DEF Occurs
<1>4. NoDuplicates(Tail(q))
  BY <1>1, <1>2 DEF NoDuplicates
<1>5. ASSUME NEW x, Occurs(Tail(q), x) PROVE Occurs(q, x) /\ x # Head(q)
  <2>1. PICK i \in 1 .. Len(q) - 1 : Tail(q)[i] = x
    BY <1>2, <1>5 DEF Occurs
  <2>2. i + 1 \in 1 .. Len(q) /\ q[i + 1] = x /\ i + 1 # 1
    BY <1>1, <1>2, <2>1
  <2>3. x # q[1]
    BY <1>1, <2>2 DEF NoDuplicates
  <2> QED BY <1>1, <2>2, <2>3 DEF Occurs
<1>6. ASSUME NEW x, Occurs(q, x), x # Head(q) PROVE Occurs(Tail(q), x)
  <2>1. PICK i \in 1 .. Len(q) : q[i] = x
    BY <1>6 DEF Occurs
  <2>2. i - 1 \in 1 .. Len(q) - 1 /\ Tail(q)[i - 1] = x
    BY <1>1, <1>2, <1>6, <2>1
  <2> QED BY <1>2, <2>2 DEF Occurs
<1> QED BY <1>1, <1>2, <1>3, <1>4, <1>5, <1>6

(* rt_list_remove on a list that holds a node at most once leaves exactly  *)
(* the other nodes, each once.                                             *)
LEMMA RemoveFacts ==
  ASSUME NEW S, NEW q \in Seq(S), NEW e, NoDuplicates(q)
  PROVE  /\ ListRemove(q, e) \in Seq(S)
         /\ NoDuplicates(ListRemove(q, e))
         /\ \A x : Occurs(ListRemove(q, e), x) <=> Occurs(q, x) /\ x # e
<1>1. CASE ~ Occurs(q, e)
  BY <1>1 DEF ListRemove, Occurs
<1>2. CASE Occurs(q, e)
  <2> DEFINE p == Position(q, e)
             r == ListRemove(q, e)
             old(i) == IF i < p THEN i ELSE i + 1
  <2>1. p \in 1 .. Len(q) /\ q[p] = e
    BY <1>2, PositionFacts
  <2> HIDE DEF p
  <2>2. r = [i \in 1 .. Len(q) - 1 |-> IF i < p THEN q[i] ELSE q[i + 1]]
    BY <1>2 DEF ListRemove, p
  <2> HIDE DEF r
  <2>3. r \in Seq(S) /\ Len(r) = Len(q) - 1
    BY <2>1, <2>2
  <2>4. \A i \in 1 .. Len(r) : old(i) \in 1 .. Len(q) /\ r[i] = q[old(i)] /\ old(i) # p
    BY <2>1, <2>2, <2>3
  <2>5. \A i, j \in 1 .. Len(r) : old(i) = old(j) => i = j
    BY <2>1, <2>3
  <2>6. \A k \in 1 .. Len(q) : k # p => \E i \in 1 .. Len(r) : old(i) = k
    <3> TAKE k \in 1 .. Len(q)
    <3> HAVE k # p
    <3>1. CASE k < p
      BY <2>1, <2>3, <3>1
    <3>2. CASE k > p
      <4>1. k - 1 \in 1 .. Len(r) /\ old(k - 1) = k
        BY <2>1, <2>3, <3>2
      <4> QED BY <4>1
    <3> QED BY <2>1, <3>1, <3>2
  <2> HIDE DEF old
  <2>7. NoDuplicates(r)
    BY <2>4, <2>5 DEF NoDuplicates
  <2>8. ASSUME NEW x, Occurs(r, x) PROVE Occurs(q, x) /\ x # e
    <3>1. PICK i \in 1 .. Len(r) : r[i] = x
      BY <2>8 DEF Occurs
    <3>2. x = q[old(i)] /\ old(i) \in 1 .. Len(q) /\ old(i) # p
      BY <2>4, <3>1
    <3>3. x # e
      BY <2>1, <3>2 DEF NoDuplicates
    <3> QED BY <3>2, <3>3 DEF Occurs
  <2>9. ASSUME NEW x, Occurs(q, x), x # e PROVE Occurs(r, x)
    <3>1. PICK k \in 1 .. Len(q) : q[k] = x
      BY <2>9 DEF Occurs
    <3>2. PICK i \in 1 .. Len(r) : old(i) = k
      BY <2>1, <2>6, <2>9, <3>1
    <3> QED BY <2>4, <3>1, <3>2 DEF Occurs
  <2> QED BY <2>3, <2>7, <2>8, <2>9 DEF r
<1> QED BY <1>1, <1>2

(* Nobody is in the empty list, and somebody is in every other one.        *)
LEMMA EmptyFacts ==
  ASSUME NEW S
  PROVE  /\ <<>> \in Seq(S) /\ NoDuplicates(<<>>) /\ \A x : ~ Occurs(<<>>, x)
         /\ \A q \in Seq(S) : q # <<>> <=> \E x \in S : Occurs(q, x)
<1>1. <<>> \in Seq(S) /\ NoDuplicates(<<>>) /\ \A x : ~ Occurs(<<>>, x)
  BY DEF NoDuplicates, Occurs
<1>2. ASSUME NEW q \in Seq(S), q # <<>> PROVE \E x \in S : Occurs(q, x)
  <2>1. 1 \in 1 .. Len(q) /\ q[1] \in S
    BY <1>2
  <2> QED BY <2>1 DEF Occurs
<1> QED BY <1>1, <1>2

(* In a list that holds each node once, the place of the i-th node is i.   *)
LEMMA PositionOf ==
  ASSUME NEW S, NEW q \in Seq(S), NoDuplicates(q), NEW i \in 1 .. Len(q)
  PROVE  Position(q, q[i]) = i
<1>1. Occurs(q, q[i])
  BY DEF Occurs
<1>2. Position(q, q[i]) \in 1 .. Len(q) /\ q[Position(q, q[i])] = q[i]
  BY <1>1, PositionFacts
<1> HIDE DEF Position
<1> QED BY <1>2 DEF NoDuplicates

(* Taking a node out and putting it last leaves the others in the order    *)
(* they were in, and before it.                                            *)
LEMMA RemoveKeepsOrder ==
  ASSUME NEW S, NEW q \in Seq(S), NoDuplicates(q), NEW e, NEW a, NEW b,
         Occurs(q, a), Occurs(q, b), a # e, b # e,
         Position(q, a) < Position(q, b)
  PROVE  Position(ListRemove(q, e), a) < Position(ListRemove(q, e), b)
<1>1. CASE ~ Occurs(q, e)
  BY <1>1 DEF ListRemove
<1>2. CASE Occurs(q, e)
  <2> DEFINE p == Position(q, e)
             r == ListRemove(q, e)
             new(i) == IF i < p THEN i ELSE i - 1
  <2>1. p \in 1 .. Len(q) /\ q[p] = e
    BY <1>2, PositionFacts
  <2>2. PICK i \in 1 .. Len(q) : Position(q, a) = i /\ q[i] = a
    BY PositionFacts
  <2>3. PICK j \in 1 .. Len(q) : Position(q, b) = j /\ q[j] = b
    BY PositionFacts
  <2>4. i # p /\ j # p /\ i < j
    BY <2>1, <2>2, <2>3
  <2>5. r = [k \in 1 .. Len(q) - 1 |-> IF k < p THEN q[k] ELSE q[k + 1]]
    BY <1>2 DEF ListRemove
  <2>6. r \in Seq(S) /\ NoDuplicates(r)
    BY RemoveFacts
  <2> HIDE DEF p, r
  <2>7. Len(r) = Len(q) - 1
    BY <2>1, <2>5
  <2>8. /\ new(i) \in 1 .. Len(r) /\ r[new(i)] = a
        /\ new(j) \in 1 .. Len(r) /\ r[new(j)] = b
        /\ new(i) < new(j)
    BY <2>1, <2>2, <2>3, <2>4, <2>5, <2>7
  <2> HIDE DEF new
  <2>9. Position(r, r[new(i)]) = new(i) /\ Position(r, r[new(j)]) = new(j)
    BY <2>6, <2>8, PositionOf
  <2>10. Position(r, a) < Position(r, b)
    BY <2>8, <2>9
  <2> QED BY <2>10 DEF r
<1> QED BY <1>1, <1>2

LEMMA AppendKeepsOrder ==
  ASSUME NEW S, NEW q \in Seq(S), NoDuplicates(q), NEW e \in S, ~ Occurs(q, e)
  PROVE  /\ ListAddTail(q, e) \in Seq(S) /\ NoDuplicates(ListAddTail(q, e))
         /\ \A x : Occurs(ListAddTail(q, e), x) <=> x = e \/ Occurs(q, x)
         /\ \A x : Occurs(q, x) => /\ Position(ListAddTail(q, e), x) = Position(q, x)
                                   /\ Position(q, x) < Position(ListAddTail(q, e), e)
<1> DEFINE r == ListAddTail(q, e)
<1>1. Len(q) \in Nat /\ Len(q) + 1 \in 1 .. Len(q) + 1
  OBVIOUS
<1>2. /\ r \in Seq(S) /\ NoDuplicates(r) /\ Len(r) = Len(q) + 1
      /\ \A x : Occurs(r, x) <=> x = e \/ Occurs(q, x)
  BY <1>1, InsertFacts, InsertNoDuplicates DEF ListAddTail
<1>3. r[Len(q) + 1] = e /\ \A i \in 1 .. Len(q) : r[i] = q[i]
  BY <1>1 DEF ListAddTail, ListInsertBefore
<1> HIDE DEF r
<1>4. ASSUME NEW x, Occurs(q, x)
      PROVE  Position(r, x) = Position(q, x) /\ Position(q, x) < Position(r, e)
  <2>1. PICK i \in 1 .. Len(q) : Position(q, x) = i /\ q[i] = x
    BY <1>4, PositionFacts
  <2>2. Position(r, r[i]) = i /\ Position(r, r[Len(q) + 1]) = Len(q) + 1
    BY <1>1, <1>2, <2>1, PositionOf
  <2> QED BY <1>1, <1>3, <2>1, <2>2
<1> QED BY <1>2, <1>4 DEF r
----------------------------------------------------------------------------
(* A list in the order of a relation R.                                    *)
SortedIn(q, R) == \A i, j \in 1 .. Len(q) : i < j => <<q[i], q[j]>> \in R

(* Inserting at the place where the order wants the node, ...              *)
LEMMA InsertSortedIn ==
  ASSUME NEW S, NEW q \in Seq(S), NEW e \in S, NEW p \in 1 .. Len(q) + 1, NEW R,
         SortedIn(q, R),
         \A i \in 1 .. Len(q) : i < p => <<q[i], e>> \in R,
         \A i \in 1 .. Len(q) : p <= i => <<e, q[i]>> \in R
  PROVE  SortedIn(ListInsertBefore(q, p, e), R)
<1> DEFINE r == ListInsertBefore(q, p, e)
<1>1. /\ Len(r) = Len(q) + 1
      /\ \A i \in 1 .. Len(q) + 1 :
           r[i] = IF i < p THEN q[i] ELSE IF i = p THEN e ELSE q[i - 1]
  BY DEF ListInsertBefore
<1> HIDE DEF r
<1>2. ASSUME NEW i \in 1 .. Len(r), NEW j \in 1 .. Len(r), i < j
      PROVE  <<r[i], r[j]>> \in R
  <2>1. CASE j < p
    <3>1. i \in 1 .. Len(q) /\ j \in 1 .. Len(q) /\ r[i] = q[i] /\ r[j] = q[j]
      BY <1>1, <1>2, <2>1
    <3> QED BY <1>2, <3>1 DEF SortedIn
  <2>2. CASE j = p
    BY <1>1, <1>2, <2>2
  <2>3. CASE j > p /\ i < p
    <3>1. /\ j - 1 \in 1 .. Len(q) /\ i \in 1 .. Len(q) /\ i < j - 1
          /\ r[j] = q[j - 1] /\ r[i] = q[i]
      BY <1>1, <1>2, <2>3
    <3> QED BY <3>1 DEF SortedIn
  <2>4. CASE j > p /\ i = p
    <3>1. j - 1 \in 1 .. Len(q) /\ p <= j - 1 /\ r[j] = q[j - 1] /\ r[i] = e
      BY <1>1, <1>2, <2>4
    <3> QED BY <3>1
  <2>5. CASE j > p /\ i > p
    <3>1. /\ j - 1 \in 1 .. Len(q) /\ i - 1 \in 1 .. Len(q) /\ i - 1 < j - 1
          /\ r[j] = q[j - 1] /\ r[i] = q[i - 1]
      BY <1>1, <1>2, <2>5
    <3> QED BY <3>1 DEF SortedIn
  <2> QED BY <1>1, <1>2, <2>1, <2>2, <2>3, <2>4, <2>5
<1> QED BY <1>2 DEF SortedIn, r

(* ... taking the first node out, or any node, keeps the order, ...        *)
LEMMA TailSortedIn ==
  ASSUME NEW S, NEW q \in Seq(S), q # <<>>, NEW R, SortedIn(q, R)
  PROVE  SortedIn(Tail(q), R)
<1>1. Len(q) \in Nat /\ Len(Tail(q)) = Len(q) - 1
      /\ \A i \in 1 .. Len(q) - 1 : Tail(q)[i] = q[i + 1]
  OBVIOUS
<1>2. ASSUME NEW i \in 1 .. Len(Tail(q)), NEW j \in 1 .. Len(Tail(q)), i < j
      PROVE  <<Tail(q)[i], Tail(q)[j]>> \in R
  <2>1. i + 1 \in 1 .. Len(q) /\ j + 1 \in 1 .. Len(q) /\ i + 1 < j + 1
    BY <1>1, <1>2
  <2> QED BY <1>1, <2>1 DEF SortedIn
<1> QED BY <1>2 DEF SortedIn

LEMMA RemoveSortedIn ==
  ASSUME NEW S, NEW q \in Seq(S), NEW e, NEW R, SortedIn(q, R)
  PROVE  SortedIn(ListRemove(q, e), R)
<1>1. CASE ~ Occurs(q, e)
  BY <1>1 DEF ListRemove
<1>2. CASE Occurs(q, e)
  <2> DEFINE p == Position(q, e)
             r == ListRemove(q, e)
             old(i) == IF i < p THEN i ELSE i + 1
  <2>1. p \in 1 .. Len(q)
    BY <1>2, PositionFacts
  <2>2. r = [i \in 1 .. Len(q) - 1 |-> IF i < p THEN q[i] ELSE q[i + 1]]
    BY <1>2 DEF ListRemove
  <2> HIDE DEF p, r
  <2>3. Len(r) = Len(q) - 1
    BY <2>1, <2>2
  <2>4. \A i \in 1 .. Len(r) : old(i) \in 1 .. Len(q) /\ r[i] = q[old(i)]
    BY <2>1, <2>2, <2>3
  <2>5. \A i, j \in 1 .. Len(r) : i < j => old(i) < old(j)
    BY <2>1, <2>3
  <2> HIDE DEF old
  <2>6. SortedIn(r, R)
    BY <2>4, <2>5 DEF SortedIn
  <2> QED BY <2>6 DEF r
<1> QED BY <1>1, <1>2

(* ... and so does a relation that keeps the pairs of the list.            *)
LEMMA SortedInOther ==
  ASSUME NEW S, NEW q \in Seq(S), NEW R, NEW Q, SortedIn(q, R),
         \A a, b \in S : Occurs(q, a) /\ Occurs(q, b) /\ <<a, b>> \in R => <<a, b>> \in Q
  PROVE  SortedIn(q, Q)
<1>1. ASSUME NEW i \in 1 .. Len(q), NEW j \in 1 .. Len(q), i < j
      PROVE  <<q[i], q[j]>> \in Q
  <2>1. Occurs(q, q[i]) /\ Occurs(q, q[j]) /\ q[i] \in S /\ q[j] \in S
    BY DEF Occurs
  <2>2. <<q[i], q[j]>> \in R
    BY <1>1 DEF SortedIn
  <2> QED BY <2>1, <2>2
<1> QED BY <1>1 DEF SortedIn
----------------------------------------------------------------------------
(* Blocks that are chained by a link in each of them, as the free blocks   *)
(* of a memory pool and the blocks of a message queue are.                 *)
Walked(first, n, link) ==
  LET node[i \in 1 .. n] == IF i = 1 THEN first ELSE link[node[i - 1]]
  IN [i \in 1 .. n |-> node[i]]

(* c is what one meets from `first' on, until a link holds `end'.          *)
Chain(c, link, first, end) ==
  /\ first = IF c = <<>> THEN end ELSE c[1]
  /\ \A i \in 1 .. Len(c) : link[c[i]] = IF i = Len(c) THEN end ELSE c[i + 1]

(* Walking along a chain for its length, as a recursive function does.     *)
LEMMA WalkIsChain ==
  ASSUME NEW B, NEW c \in Seq(B), NEW link, NEW first, NEW end, Chain(c, link, first, end)
  PROVE  Walked(first, Len(c), link) = c
<1> DEFINE n == Len(c)
           Walk(f) == f = [i \in 1 .. n |-> IF i = 1 THEN first ELSE link[f[i - 1]]]
           node == CHOOSE f : Walk(f)
<1>1. Walk(c)
  <2>1. \A i \in 1 .. n : c[i] = IF i = 1 THEN first ELSE link[c[i - 1]]
    <3> TAKE i \in 1 .. n
    <3>1. CASE i = 1
      BY <3>1 DEF Chain
    <3>2. CASE i # 1
      <4>1. i - 1 \in 1 .. Len(c) /\ i - 1 # Len(c) /\ (i - 1) + 1 = i
        BY <3>2
      <4>2. link[c[i - 1]] = c[(i - 1) + 1]
        BY <4>1, Zenon DEF Chain
      <4> QED BY <3>2, <4>1, <4>2
    <3> QED BY <3>1, <3>2
  <2>2. c = [i \in 1 .. n |-> c[i]]
    OBVIOUS
  <2> QED BY <2>1, <2>2
<1>2. Walk(node)
  <2> HIDE DEF Walk
  <2> QED BY <1>1
<1>3. \A i \in 1 .. n : node[i] = c[i]
  <2>1. SUFFICES ASSUME {i \in 1 .. n : node[i] # c[i]} # {} PROVE FALSE
    OBVIOUS
  <2> HIDE DEF node
  <2>2. {i \in 1 .. n : node[i] # c[i]} \in SUBSET Nat
    OBVIOUS
  <2>3. PICK k \in {i \in 1 .. n : node[i] # c[i]} :
          \A j \in {i \in 1 .. n : node[i] # c[i]} : k <= j
    BY <2>1, <2>2, LeastNatural
  <2>4. node[k] = (IF k = 1 THEN first ELSE link[node[k - 1]])
        /\ c[k] = (IF k = 1 THEN first ELSE link[c[k - 1]])
    BY <1>1, <1>2
  <2>5. k # 1
    BY <2>3, <2>4
  <2>6. k - 1 \in 1 .. n /\ ~ (k <= k - 1)
    BY <2>5
  <2>7. node[k - 1] = c[k - 1]
    BY <2>3, <2>6
  <2> QED BY <2>3, <2>4, <2>5, <2>7
<1>4. Walked(first, n, link) = [i \in 1 .. n |-> node[i]]
  BY DEF Walked
<1> HIDE DEF node
<1> QED BY <1>3, <1>4

(* The first block of a chain comes out, ...                               *)
LEMMA ChainWithoutFirst ==
  ASSUME NEW B, NEW c \in Seq(B), NEW link, NEW first, NEW end, Chain(c, link, first, end),
         c # <<>>
  PROVE  first = Head(c) /\ Chain(Tail(c), link, link[first], end)
<1>1. PICK d \in Seq(B) :
        /\ d = Tail(c) /\ Len(d) = Len(c) - 1 /\ \A i \in 1 .. Len(d) : d[i] = c[i + 1]
  <2>1. /\ Tail(c) \in Seq(B) /\ Len(Tail(c)) = Len(c) - 1
        /\ \A i \in 1 .. Len(c) - 1 : Tail(c)[i] = c[i + 1]
    OBVIOUS
  <2> QED BY <2>1, Zenon
<1>2. first = c[1] /\ Head(c) = c[1] /\ Len(c) \in Nat /\ Len(c) > 0
  BY DEF Chain
<1>3. \A j \in 1 .. Len(c) : link[c[j]] = IF j = Len(c) THEN end ELSE c[j + 1]
  BY DEF Chain
<1>4. d = <<>> <=> Len(d) = 0
  OBVIOUS
<1>5. link[first] = IF d = <<>> THEN end ELSE d[1]
  <2>1. 1 \in 1 .. Len(c)
    BY <1>2
  <2>2. link[c[1]] = IF 1 = Len(c) THEN end ELSE c[1 + 1]
    BY <1>3, <2>1
  <2>3. Len(c) # 1 => 1 \in 1 .. Len(d)
    BY <1>1, <1>2
  <2> QED BY <1>1, <1>2, <1>4, <2>2, <2>3
<1>6. ASSUME NEW i \in 1 .. Len(d)
      PROVE  link[d[i]] = IF i = Len(d) THEN end ELSE d[i + 1]
  <2>1. i + 1 \in 1 .. Len(c) /\ d[i] = c[i + 1]
    BY <1>1, <1>2
  <2>2. link[c[i + 1]] = IF i + 1 = Len(c) THEN end ELSE c[(i + 1) + 1]
    BY <1>3, <2>1
  <2>3. i + 1 = Len(c) <=> i = Len(d)
    BY <1>1, <1>2
  <2>4. i # Len(d) => i + 1 \in 1 .. Len(d)
    OBVIOUS
  <2> QED BY <1>1, <2>1, <2>2, <2>3, <2>4
<1> QED BY <1>1, <1>2, <1>5, <1>6 DEF Chain

(* ... a block goes in before it, ...                                      *)
LEMMA ChainWithFirst ==
  ASSUME NEW B, NEW c \in Seq(B), NEW link, NEW first, NEW end, Chain(c, link, first, end),
         NEW b \in B, NEW new, new[b] = first, \A x : Occurs(c, x) => new[x] = link[x]
  PROVE  Chain(<<b>> \o c, new, b, end)
<1>1. /\ <<b>> \o c \in Seq(B) /\ Len(<<b>> \o c) = Len(c) + 1 /\ (<<b>> \o c)[1] = b
      /\ \A i \in 1 .. Len(c) : (<<b>> \o c)[i + 1] = c[i]
  OBVIOUS
<1>2. \A i \in 1 .. Len(c) : new[c[i]] = IF i = Len(c) THEN end ELSE c[i + 1]
  BY DEF Chain, Occurs
<1>3. ASSUME NEW i \in 1 .. Len(c) + 1
      PROVE  new[(<<b>> \o c)[i]] = IF i = Len(c) + 1 THEN end ELSE (<<b>> \o c)[i + 1]
  <2>1. CASE i = 1
    BY <1>1, <2>1 DEF Chain
  <2>2. CASE i # 1
    <3>1. i - 1 \in 1 .. Len(c) /\ (i - 1) + 1 = i
      BY <2>2
    <3>2. (<<b>> \o c)[i] = c[i - 1]
      BY <1>1, <3>1
    <3>3. new[c[i - 1]] = IF i - 1 = Len(c) THEN end ELSE c[i]
      BY <1>2, <3>1
    <3>4. i # Len(c) + 1 => i \in 1 .. Len(c) /\ (<<b>> \o c)[i + 1] = c[i]
      BY <1>1
    <3> QED BY <3>1, <3>2, <3>3, <3>4
  <2> QED BY <2>1, <2>2
<1>4. <<b>> \o c # <<>>
  BY <1>1
<1> QED BY <1>1, <1>3, <1>4 DEF Chain

(* ... and the links of other blocks do not matter.                        *)
LEMMA ChainElsewhere ==
  ASSUME NEW B, NEW c \in Seq(B), NEW link, NEW first, NEW end, Chain(c, link, first, end),
         NEW new, \A x : Occurs(c, x) => new[x] = link[x]
  PROVE  Chain(c, new, first, end)
BY DEF Chain, Occurs

(* A node goes in before the first one of a list.                          *)
LEMMA PushFacts ==
  ASSUME NEW S, NEW q \in Seq(S), NEW e \in S, NoDuplicates(q), ~ Occurs(q, e)
  PROVE  /\ <<e>> \o q \in Seq(S) /\ Len(<<e>> \o q) = Len(q) + 1
         /\ NoDuplicates(<<e>> \o q)
         /\ \A x : Occurs(<<e>> \o q, x) <=> x = e \/ Occurs(q, x)
<1>1. <<e>> \o q = ListInsertBefore(q, 1, e)
  <2>1. /\ <<e>> \o q \in Seq(S) /\ Len(<<e>> \o q) = Len(q) + 1
        /\ \A i \in 1 .. Len(q) + 1 : (<<e>> \o q)[i] = IF i = 1 THEN e ELSE q[i - 1]
    OBVIOUS
  <2>2. /\ ListInsertBefore(q, 1, e) \in Seq(S)
        /\ Len(ListInsertBefore(q, 1, e)) = Len(q) + 1
    BY InsertFacts
  <2>3. \A i \in 1 .. Len(q) + 1 :
          ListInsertBefore(q, 1, e)[i] = IF i = 1 THEN e ELSE q[i - 1]
    BY DEF ListInsertBefore
  <2>4. \A a, b \in Seq(S) : Len(a) = Len(b) /\ (\A i \in 1 .. Len(a) : a[i] = b[i]) => a = b
    OBVIOUS
  <2> HIDE DEF ListInsertBefore
  <2> QED BY <2>1, <2>2, <2>3, <2>4
<1>2. 1 \in 1 .. Len(q) + 1
  OBVIOUS
<1>3. /\ ListInsertBefore(q, 1, e) \in Seq(S) /\ Len(ListInsertBefore(q, 1, e)) = Len(q) + 1
      /\ NoDuplicates(ListInsertBefore(q, 1, e))
      /\ \A x : Occurs(ListInsertBefore(q, 1, e), x) <=> x = e \/ Occurs(q, x)
  BY <1>2, InsertFacts, InsertNoDuplicates
<1> QED BY <1>1, <1>3, Zenon

(* A node goes in behind the last one of a list, ...                       *)
LEMMA AppendFacts ==
  ASSUME NEW S, NEW q \in Seq(S), NEW e \in S, NoDuplicates(q), ~ Occurs(q, e)
  PROVE  /\ Append(q, e) \in Seq(S) /\ Len(Append(q, e)) = Len(q) + 1
         /\ NoDuplicates(Append(q, e))
         /\ \A x : Occurs(Append(q, e), x) <=> x = e \/ Occurs(q, x)
<1>1. Append(q, e) = ListAddTail(q, e)
  <2>1. /\ Append(q, e) \in Seq(S) /\ Len(Append(q, e)) = Len(q) + 1
        /\ \A i \in 1 .. Len(q) + 1 : Append(q, e)[i] = IF i < Len(q) + 1 THEN q[i] ELSE e
    OBVIOUS
  <2>2. Len(q) + 1 \in 1 .. Len(q) + 1
    OBVIOUS
  <2>3. /\ ListAddTail(q, e) \in Seq(S) /\ Len(ListAddTail(q, e)) = Len(q) + 1
    BY <2>2, InsertFacts DEF ListAddTail
  <2>4. \A i \in 1 .. Len(q) + 1 : ListAddTail(q, e)[i] = IF i < Len(q) + 1 THEN q[i] ELSE e
    BY DEF ListAddTail, ListInsertBefore
  <2>5. \A a, b \in Seq(S) : Len(a) = Len(b) /\ (\A i \in 1 .. Len(a) : a[i] = b[i]) => a = b
    OBVIOUS
  <2> QED BY <2>1, <2>3, <2>4, <2>5
<1>2. Len(q) + 1 \in 1 .. Len(q) + 1
  OBVIOUS
<1>3. /\ ListAddTail(q, e) \in Seq(S) /\ Len(ListAddTail(q, e)) = Len(q) + 1
      /\ NoDuplicates(ListAddTail(q, e))
      /\ \A x : Occurs(ListAddTail(q, e), x) <=> x = e \/ Occurs(q, x)
  BY <1>2, InsertFacts, InsertNoDuplicates DEF ListAddTail
<1> QED BY <1>1, <1>3, Zenon

(* ... and a block behind the last one of a chain.                         *)
LEMMA ChainWithLast ==
  ASSUME NEW B, NEW c \in Seq(B), NEW link, NEW first, NEW end, Chain(c, link, first, end),
         NoDuplicates(c), NEW b \in B, NEW new, new[b] = end,
         \A i \in 1 .. Len(c) : new[c[i]] = IF i = Len(c) THEN b ELSE link[c[i]]
  PROVE  Chain(Append(c, b), new, IF c = <<>> THEN b ELSE first, end)
<1>1. PICK d \in Seq(B) :
        /\ d = Append(c, b) /\ Len(d) = Len(c) + 1
        /\ d[Len(c) + 1] = b /\ \A i \in 1 .. Len(c) : d[i] = c[i]
  <2>1. /\ Append(c, b) \in Seq(B) /\ Len(Append(c, b)) = Len(c) + 1
        /\ Append(c, b)[Len(c) + 1] = b /\ \A i \in 1 .. Len(c) : Append(c, b)[i] = c[i]
    OBVIOUS
  <2> QED BY <2>1, Zenon
<1>2. \A i \in 1 .. Len(c) : link[c[i]] = IF i = Len(c) THEN end ELSE c[i + 1]
  BY DEF Chain
<1>3. d # <<>> /\ Len(c) \in Nat
  BY <1>1
<1>4. d[1] = IF c = <<>> THEN b ELSE first
  <2>1. c = <<>> <=> Len(c) = 0
    OBVIOUS
  <2>2. c # <<>> => 1 \in 1 .. Len(c)
    OBVIOUS
  <2> QED BY <1>1, <2>1, <2>2 DEF Chain
<1>5. ASSUME NEW i \in 1 .. Len(d)
      PROVE  new[d[i]] = IF i = Len(d) THEN end ELSE d[i + 1]
  <2>1. CASE i = Len(d)
    BY <1>1, <2>1
  <2>2. CASE i # Len(d)
    <3>1. i \in 1 .. Len(c)
      BY <1>1, <1>3, <2>2
    <3>2. CASE i = Len(c)
      BY <1>1, <3>1, <3>2
    <3>3. CASE i # Len(c)
      <4>1. i + 1 \in 1 .. Len(c)
        BY <3>1, <3>3
      <4>2. new[c[i]] = c[i + 1]
        BY <1>2, <3>1, <3>3
      <4> QED BY <1>1, <2>2, <3>1, <4>1, <4>2
    <3> QED BY <3>2, <3>3
  <2> QED BY <2>1, <2>2
<1> QED BY <1>1, <1>3, <1>4, <1>5 DEF Chain

(* The blocks of one chain go, one after the other, before the first of    *)
(* another.                                                                *)
MovedBefore(B, c, f, link, first, end, new) ==
  /\ c \in Seq(B) /\ f \in Seq(B) /\ NoDuplicates(c) /\ NoDuplicates(f)
  /\ \A x : ~ (Occurs(c, x) /\ Occurs(f, x))
  /\ Chain(f, link, first, end)
  /\ \A i \in 1 .. Len(c) : new[c[i]] = IF i = 1 THEN first ELSE c[i - 1]
  /\ \A x : Occurs(f, x) => new[x] = link[x]

LEMMA ChainReversed ==
  ASSUME NEW B, NEW c, NEW f, NEW link, NEW first, NEW end, NEW new,
         MovedBefore(B, c, f, link, first, end, new)
  PROVE  \E r \in Seq(B) :
           /\ Len(r) = Len(c) + Len(f) /\ NoDuplicates(r)
           /\ \A x : Occurs(r, x) <=> Occurs(c, x) \/ Occurs(f, x)
           /\ Chain(r, new, IF c = <<>> THEN first ELSE c[Len(c)], end)
<1>0. /\ c \in Seq(B) /\ f \in Seq(B) /\ NoDuplicates(c) /\ NoDuplicates(f)
      /\ \A x : ~ (Occurs(c, x) /\ Occurs(f, x))
      /\ Chain(f, link, first, end)
      /\ \A i \in 1 .. Len(c) : new[c[i]] = IF i = 1 THEN first ELSE c[i - 1]
      /\ \A x : Occurs(f, x) => new[x] = link[x]
  BY DEF MovedBefore
<1> USE <1>0
<1>1. PICK n \in Nat, m \in Nat : n = Len(c) /\ m = Len(f)
  OBVIOUS
<1> DEFINE r == [i \in 1 .. n + m |-> IF i <= n THEN c[n + 1 - i] ELSE f[i - n]]
<1>2. /\ \A i \in 1 .. n : n + 1 - i \in 1 .. n /\ c[i] \in B /\ r[i] = c[n + 1 - i]
      /\ \A i \in 1 .. m : n + i \in 1 .. n + m /\ f[i] \in B /\ r[n + i] = f[i]
      /\ \A i \in 1 .. n + m : i <= n => i \in 1 .. n
      /\ \A i \in 1 .. n + m : i > n => i - n \in 1 .. m /\ r[i] = f[i - n]
  BY <1>1
<1>3. r \in [1 .. n + m -> B]
  <2>1. ASSUME NEW i \in 1 .. n + m PROVE r[i] \in B
    <3>1. CASE i <= n
      BY <1>2, <3>1
    <3>2. CASE i > n
      BY <1>2, <3>2
    <3> QED BY <3>1, <3>2
  <2> QED BY <2>1
<1>4. r \in Seq(B) /\ Len(r) = n + m
  <2>1. r \in [1 .. n + m -> B] /\ n + m \in Nat /\ DOMAIN r = 1 .. n + m
    BY <1>3
  <2> HIDE <1>0 DEF r
  <2> QED BY <2>1
<1> HIDE DEF r
<1>5. ASSUME NEW x PROVE Occurs(r, x) <=> Occurs(c, x) \/ Occurs(f, x)
  <2>1. ASSUME Occurs(r, x) PROVE Occurs(c, x) \/ Occurs(f, x)
    <3>1. PICK i \in 1 .. n + m : r[i] = x
      BY <1>4, <2>1 DEF Occurs
    <3>2. CASE i <= n
      BY <1>1, <1>2, <3>1, <3>2 DEF Occurs
    <3>3. CASE i > n
      BY <1>1, <1>2, <3>1, <3>3 DEF Occurs
    <3> QED BY <3>2, <3>3
  <2>2. ASSUME Occurs(c, x) PROVE Occurs(r, x)
    <3>1. PICK i \in 1 .. n : c[i] = x
      BY <1>1, <2>2 DEF Occurs
    <3>2. n + 1 - i \in 1 .. n /\ n + 1 - (n + 1 - i) = i /\ n + 1 - i \in 1 .. n + m
      OBVIOUS
    <3>3. r[n + 1 - i] = c[n + 1 - (n + 1 - i)]
      BY <1>2, <3>2
    <3> QED BY <1>4, <3>1, <3>2, <3>3 DEF Occurs
  <2>3. ASSUME Occurs(f, x) PROVE Occurs(r, x)
    <3>1. PICK i \in 1 .. m : f[i] = x
      BY <1>1, <2>3 DEF Occurs
    <3> QED BY <1>2, <1>4, <3>1 DEF Occurs
  <2> QED BY <2>1, <2>2, <2>3
<1>6. NoDuplicates(r)
  <2>1. SUFFICES ASSUME NEW i \in 1 .. n + m, NEW j \in 1 .. n + m, r[i] = r[j] PROVE i = j
    BY <1>4 DEF NoDuplicates
  <2>2. CASE i <= n /\ j <= n
    <3>1. n + 1 - i \in 1 .. n /\ n + 1 - j \in 1 .. n /\ c[n + 1 - i] = c[n + 1 - j]
      BY <1>2, <2>1, <2>2
    <3>2. n + 1 - i = n + 1 - j
      BY <1>1, <3>1 DEF NoDuplicates
    <3> QED BY <3>2
  <2>3. CASE i > n /\ j > n
    <3>1. i - n \in 1 .. m /\ j - n \in 1 .. m /\ f[i - n] = f[j - n]
      BY <1>2, <2>1, <2>3
    <3>2. i - n = j - n
      BY <1>1, <3>1 DEF NoDuplicates
    <3> QED BY <3>2
  <2>4. CASE i <= n /\ j > n
    <3>1. n + 1 - i \in 1 .. n /\ j - n \in 1 .. m /\ c[n + 1 - i] = f[j - n]
      BY <1>2, <2>1, <2>4
    <3>2. Occurs(c, f[j - n]) /\ Occurs(f, f[j - n])
      BY <1>1, <3>1 DEF Occurs
    <3> QED BY <3>2
  <2>5. CASE i > n /\ j <= n
    <3>1. n + 1 - j \in 1 .. n /\ i - n \in 1 .. m /\ c[n + 1 - j] = f[i - n]
      BY <1>2, <2>1, <2>5
    <3>2. Occurs(c, f[i - n]) /\ Occurs(f, f[i - n])
      BY <1>1, <3>1 DEF Occurs
    <3> QED BY <3>2
  <2> QED BY <2>2, <2>3, <2>4, <2>5
<1>7. \A i \in 1 .. m : link[f[i]] = IF i = m THEN end ELSE f[i + 1]
  BY <1>1 DEF Chain
<1>8. \A i \in 1 .. m : new[f[i]] = IF i = m THEN end ELSE f[i + 1]
  BY <1>1, <1>7 DEF Occurs
<1>9. first = IF m = 0 THEN end ELSE f[1]
  <2>1. f = <<>> <=> m = 0
    BY <1>1
  <2> QED BY <2>1 DEF Chain
<1>10. ASSUME NEW i \in 1 .. n + m
       PROVE  new[r[i]] = IF i = n + m THEN end ELSE r[i + 1]
  <2>1. CASE i < n
    <3>1. /\ r[i] = c[n + 1 - i] /\ n + 1 - i \in 1 .. n /\ n + 1 - i # 1
          /\ i + 1 \in 1 .. n /\ n + 1 - (i + 1) = n + 1 - i - 1 /\ i # n + m
      BY <1>2, <2>1
    <3>2. new[c[n + 1 - i]] = c[n + 1 - i - 1]
      BY <1>1, <3>1
    <3>3. r[i + 1] = c[n + 1 - (i + 1)]
      BY <1>2, <3>1
    <3> QED BY <3>1, <3>2, <3>3
  <2>2. CASE i = n
    <3>1. r[i] = c[1] /\ 1 \in 1 .. n
      BY <1>2, <2>2
    <3>2. new[r[i]] = first
      BY <1>1, <3>1
    <3>3. m # 0 => 1 \in 1 .. m /\ r[n + 1] = f[1]
      BY <1>2
    <3> QED BY <1>9, <2>2, <3>2, <3>3
  <2>3. CASE i > n
    <3>1. i - n \in 1 .. m /\ r[i] = f[i - n] /\ (i = n + m <=> i - n = m)
      BY <1>2, <2>3
    <3>2. i # n + m => i - n + 1 \in 1 .. m /\ n + (i - n + 1) = i + 1
      BY <3>1
    <3>3. i # n + m => r[i + 1] = f[i - n + 1]
      BY <1>2, <3>2
    <3> QED BY <1>8, <3>1, <3>3
  <2> QED BY <2>1, <2>2, <2>3
<1>11. (IF c = <<>> THEN first ELSE c[Len(c)]) = IF r = <<>> THEN end ELSE r[1]
  <2>1. (c = <<>> <=> n = 0) /\ (r = <<>> <=> n + m = 0)
    BY <1>1, <1>4
  <2>2. CASE n = 0
    <3>1. m # 0 => 1 \in 1 .. m /\ r[n + 1] = f[1]
      BY <1>2
    <3> QED BY <1>9, <2>1, <2>2, <3>1
  <2>3. CASE n # 0
    <3>1. 1 \in 1 .. n /\ n + 1 - 1 = n
      BY <2>3
    <3>2. r[1] = c[n]
      BY <1>2, <3>1
    <3> QED BY <1>1, <2>1, <2>3, <3>2
  <2> QED BY <2>2, <2>3
<1> QED BY <1>1, <1>4, <1>5, <1>6, <1>10, <1>11 DEF Chain
=============================================================================
