------------------------------- MODULE Counts -------------------------------
(***************************************************************************)
(* How many elements of a queue, or how many threads, satisfy a condition, *)
(* and the laws by which a step changes the number.  The reference         *)
(* counters of the caster are compared with such numbers.  The laws are    *)
(* proved in Counting; a proof that uses them takes them as a hypothesis,  *)
(* which its last theorem discharges.                                      *)
(***************************************************************************)
EXTENDS Integers, Sequences, FiniteSets

\* The places of y in a queue, and their number
Places(q, y) == {i \in 1..Len(q) : q[i] = y}
Count(q, y) == Cardinality(Places(q, y))

\* The places of the elements of a set in a queue, and their number
PlacesIn(q, T) == {i \in 1..Len(q) : q[i] \in T}
CountIn(q, T) == Cardinality(PlacesIn(q, T))

\* 1 for what holds, 0 for what does not
One(b) == IF b THEN 1 ELSE 0

\* The parts of a finite set are finite, and only the empty one has size 0.
PartLaw ==
    \A S : IsFiniteSet(S) =>
      \A W \in SUBSET S :
        IsFiniteSet(W) /\ Cardinality(W) \in Nat /\ (Cardinality(W) = 0 <=> W = {})

\* Two sets that differ at most by one element
MoveLaw ==
    \A A, B, x : IsFiniteSet(A) /\ A \ {x} = B \ {x} =>
      Cardinality(B) = Cardinality(A) + One(x \in B) - One(x \in A)

\* A queue has finitely many places; the empty one has none.
QueueLaw ==
    /\ \A S : \A q \in Seq(S) : \A y :
         Count(q, y) \in Nat /\ (Count(q, y) = 0 <=> \A i \in 1..Len(q) : q[i] # y)
    /\ \A y : Count(<<>>, y) = 0

\* Appending adds a place of what is appended, taking the head removes one.
AppendLaw ==
    \A S : \A q \in Seq(S), x \in S : \A y :
      Count(Append(q, x), y) = Count(q, y) + One(x = y)
TailLaw ==
    \A S : \A q \in Seq(S) : \A y :
      q # <<>> => Count(Tail(q), y) = Count(q, y) - One(Head(q) = y)

\* The same for the elements that belong to a set
QueueInLaw ==
    \A S : \A q \in Seq(S) : \A T :
      /\ CountIn(q, T) \in Nat
      /\ CountIn(q, T) = 0 <=> \A i \in 1..Len(q) : q[i] \notin T
      /\ \A x \in S : CountIn(Append(q, x), T) = CountIn(q, T) + One(x \in T)
      /\ q # <<>> => CountIn(Tail(q), T) = CountIn(q, T) - One(Head(q) \in T)

\* Taking a part out of a finite set
SplitLaw ==
    \A A : IsFiniteSet(A) =>
      \A B \in SUBSET A : Cardinality(A \ B) = Cardinality(A) - Cardinality(B)

CountLaws == PartLaw /\ MoveLaw /\ QueueLaw /\ AppendLaw /\ TailLaw

=============================================================================
