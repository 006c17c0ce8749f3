------------------------------ MODULE Counting ------------------------------
(***************************************************************************)
(* The laws of counting of module Counts, for every finite set and every   *)
(* queue.                                                                  *)
(***************************************************************************)
EXTENDS Counts, FiniteSetTheorems, TLAPS

\* Two sets that differ at most by one element x.
LEMMA MoveOne ==
    ASSUME NEW A, NEW B, NEW x, IsFiniteSet(A), A \ {x} = B \ {x}
    PROVE  /\ IsFiniteSet(B)
           /\ Cardinality(A) \in Nat /\ Cardinality(B) \in Nat
           /\ Cardinality(B) = Cardinality(A) + One(x \in B) - One(x \in A)
<1> DEFINE C == A \ {x}
<1>1. /\ IsFiniteSet(C)
      /\ Cardinality(C) = IF x \in A THEN Cardinality(A) - 1 ELSE Cardinality(A)
  BY FS_RemoveElement
<1>2. B = IF x \in B THEN C \cup {x} ELSE C
  OBVIOUS
<1>3. x \notin C
  OBVIOUS
<1>4. IsFiniteSet(C \cup {x}) /\ Cardinality(C \cup {x}) = Cardinality(C) + 1
  BY <1>1, <1>3, FS_AddElement
<1>5. IsFiniteSet(B)
  BY <1>1, <1>2, <1>4
<1>6. Cardinality(A) \in Nat /\ Cardinality(B) \in Nat /\ Cardinality(C) \in Nat
  BY <1>1, <1>5, FS_CardinalityType
<1>7. Cardinality(B) = IF x \in B THEN Cardinality(C) + 1 ELSE Cardinality(C)
  BY <1>2, <1>4
<1> HIDE DEF C
<1> QED BY <1>1, <1>5, <1>6, <1>7 DEF One

\* A queue has finitely many places.
LEMMA PlacesFinite ==
    ASSUME NEW S, NEW q \in Seq(S), NEW T
    PROVE  /\ IsFiniteSet(PlacesIn(q, T))
           /\ CountIn(q, T) \in Nat
           /\ CountIn(q, T) = 0 <=> \A i \in 1..Len(q) : q[i] \notin T
<1>1. PlacesIn(q, T) \in SUBSET (1..Len(q)) /\ Len(q) \in Nat
  BY DEF PlacesIn
<1>2. IsFiniteSet(1..Len(q))
  BY <1>1, FS_Interval
<1>3. IsFiniteSet(PlacesIn(q, T))
  BY <1>1, <1>2, FS_Subset, Zenon
<1>4. CountIn(q, T) = 0 <=> PlacesIn(q, T) = {}
  BY <1>3, FS_EmptySet DEF CountIn
<1> QED BY <1>3, <1>4, FS_CardinalityType, Zenon DEF CountIn, PlacesIn

\* Appending adds at most one place.
LEMMA CountAppend ==
    ASSUME NEW S, NEW q \in Seq(S), NEW x \in S, NEW T
    PROVE  CountIn(Append(q, x), T) = CountIn(q, T) + One(x \in T)
<1> DEFINE n == Len(q) + 1
<1>1. /\ Len(q) \in Nat /\ Len(Append(q, x)) = n
      /\ \A i \in 1..Len(q) : Append(q, x)[i] = q[i]
      /\ Append(q, x)[n] = x
  OBVIOUS
<1>2. PlacesIn(q, T) \ {n} = PlacesIn(Append(q, x), T) \ {n}
  BY <1>1 DEF PlacesIn
<1>3. (n \in PlacesIn(Append(q, x), T) <=> x \in T) /\ n \notin PlacesIn(q, T)
  BY <1>1 DEF PlacesIn
<1>4. IsFiniteSet(PlacesIn(q, T))
  BY PlacesFinite, Zenon
<1> HIDE DEF n
<1>5. /\ Cardinality(PlacesIn(q, T)) \in Nat
      /\ Cardinality(PlacesIn(Append(q, x), T)) = Cardinality(PlacesIn(q, T))
           + One(n \in PlacesIn(Append(q, x), T)) - One(n \in PlacesIn(q, T))
  BY <1>2, <1>4, MoveOne, Zenon
<1> QED BY <1>3, <1>5 DEF CountIn, One

\* Taking the head takes away at most one place.
LEMMA CountTail ==
    ASSUME NEW S, NEW q \in Seq(S), q # <<>>, NEW T
    PROVE  CountIn(Tail(q), T) = CountIn(q, T) - One(Head(q) \in T)
<1> DEFINE A == PlacesIn(q, T)
           B == PlacesIn(Tail(q), T)
           f == [i \in B |-> i + 1]
<1>1. /\ Len(q) \in Nat \ {0} /\ Len(Tail(q)) = Len(q) - 1 /\ Head(q) = q[1]
      /\ Tail(q) \in Seq(S)
      /\ \A i \in 1..(Len(q) - 1) : Tail(q)[i] = q[i + 1]
  OBVIOUS
<1>2. IsFiniteSet(A) /\ IsFiniteSet(B)
  BY <1>1, PlacesFinite, Zenon
<1>3. f \in Bijection(B, A \ {1})
  <2>1. f \in [B -> A \ {1}]
    BY <1>1 DEF PlacesIn
  <2>2. \A i, j \in B : f[i] = f[j] => i = j
    BY DEF PlacesIn
  <2>3. ASSUME NEW k \in A \ {1} PROVE \E i \in B : f[i] = k
    <3>1. k - 1 \in B /\ f[k - 1] = k
      BY <1>1 DEF PlacesIn
    <3> QED BY <3>1, Zenon
  <2> HIDE DEF A, B, f
  <2> QED BY <2>1, <2>2, <2>3, Zenon DEF Bijection, Injection, Surjection, IsInjective
<1>4. Cardinality(A \ {1}) = Cardinality(B)
  BY <1>2, <1>3, FS_Bijection, Zenon DEF ExistsBijection
<1>5. Cardinality(A \ {1}) = IF 1 \in A THEN Cardinality(A) - 1 ELSE Cardinality(A)
  BY <1>2, FS_RemoveElement, Zenon
<1>6. 1 \in A <=> Head(q) \in T
  BY <1>1 DEF PlacesIn
<1>7. Cardinality(A) \in Nat
  BY <1>2, FS_CardinalityType
<1>8. CountIn(q, T) = Cardinality(A) /\ CountIn(Tail(q), T) = Cardinality(B)
  BY DEF CountIn
<1> HIDE DEF A, B
<1> QED BY <1>4, <1>5, <1>6, <1>7, <1>8 DEF One

\* The laws of the sets hold.
THEOREM SetsCounted == PartLaw /\ MoveLaw /\ SplitLaw
<1>1. PartLaw
  BY FS_Subset, FS_CardinalityType, FS_EmptySet, Zenon DEF PartLaw
<1>2. MoveLaw
  BY MoveOne, Zenon DEF MoveLaw
<1>3. ASSUME NEW A, IsFiniteSet(A), NEW B \in SUBSET A
      PROVE  Cardinality(A \ B) = Cardinality(A) - Cardinality(B)
  <2>1. A \cap B = B /\ IsFiniteSet(B)
    BY <1>3, FS_Subset
  <2>2. /\ Cardinality(A \ B) = Cardinality(A) - Cardinality(A \cap B)
    BY <1>3, FS_Difference, Zenon
  <2> QED BY <2>1, <2>2
<1> QED BY <1>1, <1>2, <1>3, Zenon DEF SplitLaw

\* So do those of the queues.
THEOREM QueuesCounted == QueueInLaw
  BY PlacesFinite, CountAppend, CountTail DEF QueueInLaw

\* And those for one element, which is a set of its own, that the proofs about
\* sessions use.
THEOREM Counted == CountLaws
<1>1. \A q, y : Count(q, y) = CountIn(q, {y})
  BY Zenon DEF Count, CountIn, Places, PlacesIn
<1>2. QueueLaw
  <2>1. <<>> \in Seq({}) /\ \A i \in 1..Len(<<>>) : FALSE
    OBVIOUS
  <2>2. \A T : CountIn(<<>>, T) = 0
    BY <2>1, PlacesFinite, Zenon
  <2> QED BY <1>1, <2>2, PlacesFinite, Zenon DEF QueueLaw
<1>3. ASSUME NEW S, NEW q \in Seq(S), NEW x \in S, NEW y
      PROVE  Count(Append(q, x), y) = Count(q, y) + One(x = y)
  <2>1. CountIn(Append(q, x), {y}) = CountIn(q, {y}) + One(x \in {y})
    BY CountAppend, Zenon
  <2>2. Count(q, y) = CountIn(q, {y}) /\ Count(Append(q, x), y) = CountIn(Append(q, x), {y})
    BY <1>1, Zenon
  <2> QED BY <2>1, <2>2 DEF One
<1>4. ASSUME NEW S, NEW q \in Seq(S), NEW y, q # <<>>
      PROVE  Count(Tail(q), y) = Count(q, y) - One(Head(q) = y)
  <2>1. CountIn(Tail(q), {y}) = CountIn(q, {y}) - One(Head(q) \in {y})
    BY <1>4, CountTail, Zenon
  <2>2. Count(q, y) = CountIn(q, {y}) /\ Count(Tail(q), y) = CountIn(Tail(q), {y})
    BY <1>1, Zenon
  <2> QED BY <2>1, <2>2 DEF One
<1>5. AppendLaw /\ TailLaw
  BY <1>3, <1>4, Zenon DEF AppendLaw, TailLaw
<1> QED BY <1>2, <1>5, SetsCounted DEF CountLaws

=============================================================================
