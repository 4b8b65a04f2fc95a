----------------------------- MODULE QueueLemmas -----------------------------
(***************************************************************************)
(* What the operations on queues of the models do, told by what a queue    *)
(* holds: append at the end, take the head, remove an element from within. *)
(* Used by the proofs about the pool, its start-up, the event loop's       *)
(* callbacks and the worker's pipes.                                       *)
(***************************************************************************)
EXTENDS Naturals, Integers, Sequences, SequencesExt, SequenceTheorems, TLAPS

Distinct(q) == \A i, j \in 1..Len(q) : q[i] = q[j] => i = j

AtMostOne(q, A) == \A i, j \in 1..Len(q) : q[i] \in A /\ q[j] \in A => i = j

LEMMA AppendFacts ==
  ASSUME NEW S, NEW q \in Seq(S), NEW x \in S
  PROVE  /\ Append(q, x) \in Seq(S) /\ Len(Append(q, x)) = Len(q) + 1
         /\ \A y : Contains(Append(q, x), y) <=> Contains(q, y) \/ y = x
         /\ Distinct(q) /\ ~Contains(q, x) => Distinct(Append(q, x))
<1>1. /\ Append(q, x) \in Seq(S) /\ Len(Append(q, x)) = Len(q) + 1
      /\ \A i \in 1..Len(q) : Append(q, x)[i] = q[i]
      /\ Append(q, x)[Len(q) + 1] = x
  BY AppendProperties
<1>2. Len(q) \in Nat
  BY LenProperties
<1>3. \A y : Contains(Append(q, x), y) <=> Contains(q, y) \/ y = x
  BY <1>1, <1>2 DEF Contains
<1>4. ASSUME Distinct(q), ~Contains(q, x) PROVE Distinct(Append(q, x))
  BY <1>1, <1>2, <1>4 DEF Contains, Distinct
<1> QED BY <1>1, <1>3, <1>4

LEMMA TailFacts ==
  ASSUME NEW S, NEW q \in Seq(S), q # <<>>
  PROVE  /\ Head(q) \in S /\ Contains(q, Head(q))
         /\ Tail(q) \in Seq(S) /\ Len(Tail(q)) = Len(q) - 1
         /\ \A y : Contains(Tail(q), y) => Contains(q, y)
         /\ \A y : Contains(q, y) => Contains(Tail(q), y) \/ y = Head(q)
         /\ Distinct(q) => Distinct(Tail(q)) /\ ~Contains(Tail(q), Head(q))
<1>1. /\ Head(q) \in S /\ Head(q) = q[1] /\ Len(q) \in Nat /\ Len(q) > 0
      /\ Tail(q) \in Seq(S) /\ Len(Tail(q)) = Len(q) - 1
      /\ \A i \in 1..Len(Tail(q)) : Tail(q)[i] = q[i + 1]
  BY HeadTailProperties, EmptySeq, LenProperties, ElementOfSeq
<1>2. Contains(q, Head(q)) /\ \A y : Contains(Tail(q), y) => Contains(q, y)
  BY <1>1 DEF Contains
<1>3. ASSUME NEW y, Contains(q, y), y # Head(q) PROVE Contains(Tail(q), y)
  <2>1. PICK i \in 1..Len(q) : q[i] = y
    BY <1>3 DEF Contains
  <2>2. i - 1 \in 1..Len(Tail(q)) /\ Tail(q)[i - 1] = y
    BY <1>1, <1>3, <2>1
  <2> QED BY <2>2 DEF Contains
<1>4. ASSUME Distinct(q) PROVE Distinct(Tail(q)) /\ ~Contains(Tail(q), Head(q))
  BY <1>1, <1>4 DEF Contains, Distinct
<1> QED BY <1>1, <1>2, <1>3, <1>4

LEMMA RemoveFirstFacts ==
  ASSUME NEW S, NEW q \in Seq(S), NEW x, Distinct(q)
  PROVE  /\ RemoveFirst(q, x) \in Seq(S) /\ Len(RemoveFirst(q, x)) <= Len(q)
         /\ Distinct(RemoveFirst(q, x))
         /\ \A y : Contains(RemoveFirst(q, x), y) <=> Contains(q, y) /\ y # x
<1>0. Len(q) \in Nat
  BY LenProperties
<1>1. CASE ~\E i \in 1..Len(q) : q[i] = x
  BY <1>0, <1>1 DEF RemoveFirst, Contains
<1>2. CASE \E i \in 1..Len(q) : q[i] = x
  <2> DEFINE I == {i \in 1..Len(q) : q[i] = x}
             k == SelectInSeq(q, LAMBDA v : v = x)
  <2>1. PICK i \in 1..Len(q) : q[i] = x
    BY <1>2
  <2>2. I = {i}
    BY <2>1, <1>0 DEF Distinct
  <2>3. k = Min(I)
    BY <2>2 DEF SelectInSeq
  <2>4. Min(I) = i
    BY <2>1, <2>2, <1>0 DEF Min
  <2>5. RemoveFirst(q, x) = RemoveAt(q, i)
    BY <1>2, <2>3, <2>4 DEF RemoveFirst
  <2> DEFINE t == RemoveAt(q, i)
             a == SubSeq(q, 1, i - 1)
             b == SubSeq(q, i + 1, Len(q))
  <2>6. /\ a \in Seq(S) /\ Len(a) = i - 1 /\ \A j \in 1..i - 1 : a[j] = q[j]
        /\ b \in Seq(S) /\ Len(b) = Len(q) - i
        /\ \A j \in 1..Len(q) - i : b[j] = q[i + j]
    <3>1. /\ 1 \in 1..Len(q) + 1 /\ i - 1 \in 0..Len(q)
          /\ i + 1 \in 1..Len(q) + 1 /\ Len(q) \in 0..Len(q)
      BY <1>0, <2>1
    <3>2. \A m \in 1..Len(q) + 1 : \A n \in 0..Len(q) :
            m..n \subseteq 1..Len(q)
      BY <1>0
    <3> QED BY <1>0, <2>1, <3>1, <3>2, SubSeqProperties
  <2>7. /\ t \in Seq(S) /\ Len(t) = Len(q) - 1
        /\ \A j \in 1..Len(t) : t[j] = IF j < i THEN q[j] ELSE q[j + 1]
    <3> HIDE DEF a, b
    <3>1. t = a \o b
      BY DEF t, RemoveAt, a, b
    <3>2. /\ a \o b \in Seq(S) /\ Len(a \o b) = Len(a) + Len(b)
          /\ \A j \in 1..Len(a) + Len(b) :
               (a \o b)[j] = IF j <= Len(a) THEN a[j] ELSE b[j - Len(a)]
      BY <2>6, ConcatProperties
    <3> HIDE DEF t
    <3>3. Len(t) = Len(q) - 1
      BY <1>0, <2>1, <2>6, <3>1, <3>2
    <3>4. ASSUME NEW j \in 1..Len(t) PROVE t[j] = IF j < i THEN q[j] ELSE q[j + 1]
      <4>1. CASE j < i
        BY <1>0, <2>1, <2>6, <3>1, <3>2, <3>3, <4>1
      <4>2. CASE ~(j < i)
        <5>1. j - (i - 1) \in 1..Len(q) - i /\ i + (j - (i - 1)) = j + 1
          BY <1>0, <2>1, <3>3, <4>2
        <5>2. t[j] = b[j - (i - 1)]
          BY <1>0, <2>1, <2>6, <3>1, <3>2, <3>3, <4>2
        <5> QED BY <2>6, <4>2, <5>1, <5>2
      <4> QED BY <4>1, <4>2
    <3> QED BY <3>1, <3>2, <3>3, <3>4
  <2> HIDE DEF t, a, b
  <2>8. Distinct(t)
    BY <1>0, <2>1, <2>7 DEF Distinct
  <2>9. ASSUME NEW y PROVE Contains(t, y) <=> Contains(q, y) /\ y # x
    <3>1. ASSUME NEW j \in 1..Len(t) PROVE Contains(q, t[j]) /\ t[j] # x
      <4>1. CASE j < i
        BY <1>0, <2>1, <2>7, <4>1 DEF Distinct, Contains
      <4>2. CASE ~(j < i)
        BY <1>0, <2>1, <2>7, <4>2 DEF Distinct, Contains
      <4> QED BY <4>1, <4>2
    <3>2. ASSUME NEW j \in 1..Len(q), q[j] = y, y # x PROVE Contains(t, y)
      <4>1. CASE j < i
        BY <1>0, <2>1, <2>7, <3>2, <4>1 DEF Contains
      <4>2. CASE j > i
        <5>1. j - 1 \in 1..Len(t) /\ t[j - 1] = q[j]
          BY <1>0, <2>1, <2>7, <4>2
        <5> QED BY <3>2, <5>1 DEF Contains
      <4> QED BY <1>0, <2>1, <3>2, <4>1, <4>2
    <3> QED BY <3>1, <3>2 DEF Contains
  <2> QED BY <1>0, <2>5, <2>7, <2>8, <2>9 DEF t
<1> QED BY <1>1, <1>2

(* A queue that holds at most one element of A.                            *)
LEMMA AppendAtMostOne ==
  ASSUME NEW S, NEW q \in Seq(S), NEW x \in S, NEW A, AtMostOne(q, A),
         x \in A => \A y \in A : ~Contains(q, y)
  PROVE  AtMostOne(Append(q, x), A)
<1>1. /\ Len(Append(q, x)) = Len(q) + 1 /\ Len(q) \in Nat
      /\ \A i \in 1..Len(q) : Append(q, x)[i] = q[i]
      /\ Append(q, x)[Len(q) + 1] = x
  BY AppendProperties, LenProperties
<1>2. ASSUME NEW i \in 1..Len(q), x \in A PROVE q[i] \notin A
  BY <1>2 DEF Contains
<1> QED BY <1>1, <1>2 DEF AtMostOne

LEMMA TailAtMostOne ==
  ASSUME NEW S, NEW q \in Seq(S), q # <<>>, NEW A, AtMostOne(q, A)
  PROVE  /\ AtMostOne(Tail(q), A)
         /\ Head(q) \in A => \A y \in A : ~Contains(Tail(q), y)
<1>1. /\ Head(q) = q[1] /\ Len(q) \in Nat /\ Len(q) > 0
      /\ Len(Tail(q)) = Len(q) - 1
      /\ \A i \in 1..Len(Tail(q)) : Tail(q)[i] = q[i + 1]
  BY HeadTailProperties, EmptySeq, LenProperties, ElementOfSeq
<1>2. AtMostOne(Tail(q), A)
  BY <1>1 DEF AtMostOne
<1>3. ASSUME Head(q) \in A, NEW i \in 1..Len(Tail(q)) PROVE Tail(q)[i] \notin A
  <2>1. 1 \in 1..Len(q) /\ i + 1 \in 1..Len(q) /\ i + 1 # 1
    BY <1>1
  <2> QED BY <1>1, <1>3, <2>1 DEF AtMostOne
<1> QED BY <1>2, <1>3 DEF Contains
=============================================================================
