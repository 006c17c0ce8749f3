---------------------------- MODULE StackProofs ----------------------------
(***************************************************************************)
(* For stacks of any length: replacing the table of a host leaves the      *)
(* stack sorted with one table for each host.                              *)
(*                                                                         *)
(* It rests on the first place where a test holds (SelectInSeq).  A table  *)
(* is inserted at the first place of no more priority: all before it have  *)
(* more, and all after it, by the order of the stack, no more.             *)
(***************************************************************************)
EXTENDS SourcetableStack, WellFoundedInduction, SequenceTheorems, TLAPS

\* A set of natural numbers that is not empty has a least element.
LEMMA LeastNat ==
  ASSUME NEW S, S \subseteq Nat, S # {}
  PROVE  Min(S) \in S /\ \A y \in S : Min(S) <= y
<1> DEFINE R == {ss \in Nat \X Nat : ss[1] < ss[2]}
<1>0. IsWellFoundedOn(R, Nat)
  BY NatLessThanWellFounded DEF OpToRel
<1>1. PICK x \in S : \A y \in S : ~(<<y, x>> \in R)
  <2> HIDE DEF R
  <2> QED BY <1>0, WFMin
<1>2. ASSUME NEW y \in S
      PROVE  x <= y
  <2>1. x \in Nat /\ y \in Nat
    OBVIOUS
  <2>2. ~(y < x)
    BY <1>1, <2>1
  <2> HIDE DEF R
  <2> QED BY <2>1, <2>2
<1> QED BY <1>2 DEF Min

\* The places 1 .. n where a test holds, and the first of them.
First(S) == IF S # {} THEN Min(S) ELSE 0

LEMMA FirstPlace ==
  ASSUME NEW n \in Nat, NEW S, S \subseteq 1 .. n
  PROVE  /\ First(S) \in 0 .. n
         /\ First(S) = 0 <=> S = {}
         /\ S # {} => First(S) \in S /\ \A j \in S : First(S) <= j
<1>1. S \subseteq Nat
  OBVIOUS
<1>2. CASE S = {}
  BY <1>2 DEF First
<1>3. CASE S # {}
  <2>1. First(S) \in S /\ \A j \in S : First(S) <= j
    BY <1>1, <1>3, LeastNat DEF First
  <2>2. First(S) \in 1 .. n
    BY <2>1
  <2> HIDE DEF First
  <2> QED BY <1>3, <2>1, <2>2
<1> QED BY <1>2, <1>3

\* The elements of a sequence after InsertAt.
LEMMA InsertAtElements ==
  ASSUME NEW T, NEW s \in Seq(T), NEW i \in 1 .. Len(s), NEW t \in T
  PROVE  /\ InsertAt(s, i, t) \in Seq(T)
         /\ Len(InsertAt(s, i, t)) = Len(s) + 1
         /\ \A j \in 1 .. Len(s) + 1 :
              InsertAt(s, i, t)[j] = IF j < i THEN s[j] ELSE IF j = i THEN t ELSE s[j - 1]
<1> DEFINE a == SubSeq(s, 1, i - 1)
           b == SubSeq(s, i, Len(s))
           c == a \o <<t>>
<1>1. Len(s) \in Nat /\ \A j \in 1 .. Len(s) : s[j] \in T
  BY LenProperties
<1>2. a \in Seq(T) /\ Len(a) = i - 1 /\ \A j \in 1 .. i - 1 : a[j] = s[j]
  <2>1. \A j \in 1 .. i - 1 : s[j] \in T
    BY <1>1
  <2> QED BY <1>1, <2>1, SubSeqProperties
<1>3. b \in Seq(T) /\ Len(b) = Len(s) - i + 1
      /\ \A j \in 1 .. Len(s) - i + 1 : b[j] = s[i + j - 1]
  <2>1. \A j \in i .. Len(s) : s[j] \in T
    BY <1>1
  <2> QED BY <1>1, <2>1, SubSeqProperties
<1>7. InsertAt(s, i, t) = c \o b
  BY DEF InsertAt
<1> HIDE DEF a, b
<1>4. <<t>> \in Seq(T) /\ Len(<<t>>) = 1 /\ <<t>>[1] = t
  OBVIOUS
<1>5. c \in Seq(T) /\ Len(c) = i
      /\ \A j \in 1 .. i : c[j] = IF j < i THEN s[j] ELSE t
  BY <1>2, <1>4, ConcatProperties
<1> HIDE DEF c
<1>6. c \o b \in Seq(T) /\ Len(c \o b) = Len(s) + 1
      /\ \A j \in 1 .. Len(s) + 1 : (c \o b)[j] = IF j <= i THEN c[j] ELSE b[j - i]
  <2>1. Len(c) + Len(b) = Len(s) + 1 /\ Len(c) = i
    BY <1>1, <1>3, <1>5
  <2>2. c \o b \in Seq(T) /\ Len(c \o b) = Len(c) + Len(b)
        /\ \A j \in 1 .. Len(c) + Len(b) :
             (c \o b)[j] = IF j <= Len(c) THEN c[j] ELSE b[j - Len(c)]
    BY <1>3, <1>5, ConcatProperties
  <2> QED BY <2>1, <2>2
<1>8. ASSUME NEW j \in 1 .. Len(s) + 1
      PROVE  (c \o b)[j] = IF j < i THEN s[j] ELSE IF j = i THEN t ELSE s[j - 1]
  <2>1. CASE j <= i
    BY <1>1, <1>5, <1>6, <2>1
  <2>2. CASE ~(j <= i)
    <3>1. j - i \in 1 .. Len(s) - i + 1 /\ i + (j - i) - 1 = j - 1
      BY <1>1, <2>2
    <3> QED BY <1>1, <1>3, <1>6, <2>2, <3>1
  <2> QED BY <2>1, <2>2
<1> QED BY <1>6, <1>7, <1>8

\* The elements of a sequence after RemoveAt.
LEMMA RemoveAtElements ==
  ASSUME NEW T, NEW s \in Seq(T), NEW i \in 1 .. Len(s)
  PROVE  /\ RemoveAt(s, i) \in Seq(T)
         /\ Len(RemoveAt(s, i)) = Len(s) - 1
         /\ \A j \in 1 .. Len(s) - 1 :
              RemoveAt(s, i)[j] = IF j < i THEN s[j] ELSE s[j + 1]
<1> DEFINE a == SubSeq(s, 1, i - 1)
           b == SubSeq(s, i + 1, Len(s))
<1>1. Len(s) \in Nat /\ \A j \in 1 .. Len(s) : s[j] \in T
  BY LenProperties
<1>2. a \in Seq(T) /\ Len(a) = i - 1 /\ \A j \in 1 .. i - 1 : a[j] = s[j]
  <2>1. \A j \in 1 .. i - 1 : s[j] \in T
    BY <1>1
  <2> QED BY <1>1, <2>1, SubSeqProperties
<1>3. b \in Seq(T) /\ Len(b) = Len(s) - i
      /\ \A j \in 1 .. Len(s) - i : b[j] = s[i + j]
  <2>1. \A j \in i + 1 .. Len(s) : s[j] \in T
    BY <1>1
  <2> QED BY <1>1, <2>1, SubSeqProperties
<1>6. RemoveAt(s, i) = a \o b
  BY DEF RemoveAt
<1> HIDE DEF a, b
<1>4. a \o b \in Seq(T) /\ Len(a \o b) = Len(s) - 1
      /\ \A j \in 1 .. Len(s) - 1 : (a \o b)[j] = IF j <= i - 1 THEN a[j] ELSE b[j - (i - 1)]
  <2>1. Len(a) + Len(b) = Len(s) - 1 /\ Len(a) = i - 1
    BY <1>1, <1>2, <1>3
  <2>2. a \o b \in Seq(T) /\ Len(a \o b) = Len(a) + Len(b)
        /\ \A j \in 1 .. Len(a) + Len(b) :
             (a \o b)[j] = IF j <= Len(a) THEN a[j] ELSE b[j - Len(a)]
    BY <1>2, <1>3, ConcatProperties
  <2> QED BY <2>1, <2>2
<1>5. ASSUME NEW j \in 1 .. Len(s) - 1
      PROVE  (a \o b)[j] = IF j < i THEN s[j] ELSE s[j + 1]
  <2>1. CASE j < i
    BY <1>1, <1>2, <1>4, <2>1
  <2>2. CASE ~(j < i)
    <3>1. j - (i - 1) \in 1 .. Len(s) - i /\ i + (j - (i - 1)) = j + 1
      BY <1>1, <2>2
    <3> QED BY <1>1, <1>3, <1>4, <2>2, <3>1
  <2> QED BY <2>1, <2>2
<1> QED BY <1>4, <1>5, <1>6

----------------------------------------------------------------------------
(* Stacks: sequences of a set T of tables.                                 *)

\* Where _stack_replace finds the table of a host and the place of a new one.
HostAt(stack, host) == {i \in 1 .. Len(stack) : stack[i].host = host}
PlaceFor(stack, t) == {i \in 1 .. Len(stack) : t.priority >= stack[i].priority}

LEMMA RemovedAtFirst ==
  ASSUME NEW T, NEW stack \in Seq(T), NEW host
  PROVE  Removed(stack, host) = IF HostAt(stack, host) = {} THEN stack
                                ELSE RemoveAt(stack, First(HostAt(stack, host)))
BY DEF Removed, RemoveFirstMatch, SelectInSeq, HostAt, First

LEMMA InsertedAtFirst ==
  ASSUME NEW T, NEW stack \in Seq(T), NEW t \in T
  PROVE  Inserted(stack, t) = IF First(PlaceFor(stack, t)) = 0 THEN Append(stack, t)
                              ELSE InsertAt(stack, First(PlaceFor(stack, t)), t)
BY DEF Inserted, SelectInSeq, PlaceFor, First

\* Removing the table of a host (stack_replace_host without a table) leaves the
\* others in order, and none of that host, for every stack and host.
THEOREM RemovedIsSorted ==
  ASSUME NEW T, NEW stack \in Seq(T), NEW host, Sorted(stack)
  PROVE  /\ Removed(stack, host) \in Seq(T)
         /\ Sorted(Removed(stack, host))
         /\ HostAt(Removed(stack, host), host) = {}
<1> DEFINE n == Len(stack)
           i == First(HostAt(stack, host))
           r == Removed(stack, host)
<1>1. n \in Nat
  BY LenProperties
<1>2. HostAt(stack, host) \subseteq 1 .. n
  BY DEF HostAt
<1>3. CASE HostAt(stack, host) = {}
  BY <1>3, RemovedAtFirst
<1>4. CASE HostAt(stack, host) # {}
  <2>1. i \in HostAt(stack, host) /\ i \in 1 .. n /\ r = RemoveAt(stack, i)
    BY <1>1, <1>2, <1>4, FirstPlace, RemovedAtFirst
  <2>2. stack[i].host = host
    BY <2>1 DEF HostAt
  <2> HIDE DEF i, r
  <2>3. /\ r \in Seq(T)
        /\ Len(r) = n - 1
        /\ \A j \in 1 .. n - 1 : r[j] = IF j < i THEN stack[j] ELSE stack[j + 1]
    BY <2>1, RemoveAtElements
  <2> HIDE DEF n
  <2>4. Sorted(r)
    <3>1. SUFFICES ASSUME NEW j \in 1 .. n - 1, NEW k \in 1 .. n - 1, j < k
                   PROVE  r[j].priority >= r[k].priority /\ r[j].host # r[k].host
      BY <2>3 DEF Sorted
    <3> DEFINE j1 == IF j < i THEN j ELSE j + 1
               k1 == IF k < i THEN k ELSE k + 1
    <3>2. j1 \in 1 .. n /\ k1 \in 1 .. n /\ j1 < k1
      BY <1>1, <2>1, <3>1
    <3>3. r[j] = stack[j1] /\ r[k] = stack[k1]
      BY <2>3
    <3> HIDE DEF j1, k1
    <3> QED BY <3>2, <3>3 DEF Sorted, n
  <2>5. ASSUME NEW j \in 1 .. n - 1
        PROVE  r[j].host # host
    <3>1. CASE j < i
      <4>1. j \in 1 .. n /\ r[j] = stack[j]
        BY <1>1, <2>1, <2>3, <3>1
      <4> QED BY <2>1, <2>2, <3>1, <4>1 DEF Sorted, n
    <3>2. CASE ~(j < i)
      <4>1. j + 1 \in 1 .. n /\ i < j + 1 /\ r[j] = stack[j + 1]
        BY <1>1, <2>1, <2>3, <3>2
      <4> QED BY <2>1, <2>2, <4>1 DEF Sorted, n
    <3> QED BY <3>1, <3>2
  <2> QED BY <2>3, <2>4, <2>5 DEF HostAt, r
<1> QED BY <1>3, <1>4

\* A table of a host that has none in the stack is put in order.
LEMMA InsertedIsSorted ==
  ASSUME NEW T, \A x \in T : x.priority \in Int,
         NEW stack \in Seq(T), NEW t \in T, Sorted(stack), HostAt(stack, t.host) = {}
  PROVE  Inserted(stack, t) \in Seq(T) /\ Sorted(Inserted(stack, t))
<1> DEFINE n == Len(stack)
           i == First(PlaceFor(stack, t))
           r == Inserted(stack, t)
<1>1. n \in Nat /\ \A j \in 1 .. n : stack[j] \in T
  BY LenProperties
<1>2. PlaceFor(stack, t) \subseteq 1 .. n
  BY DEF PlaceFor
<1>3. /\ i \in 0 .. n
      /\ i = 0 <=> PlaceFor(stack, t) = {}
      /\ PlaceFor(stack, t) # {} =>
           i \in PlaceFor(stack, t) /\ \A j \in PlaceFor(stack, t) : i <= j
  BY <1>1, <1>2, FirstPlace
<1>4. \A j \in 1 .. n : stack[j].host # t.host
  BY DEF HostAt
<1>5. r = IF i = 0 THEN Append(stack, t) ELSE InsertAt(stack, i, t)
  BY InsertedAtFirst
<1>6. \A j \in 1 .. n : stack[j].priority \in Int
  BY <1>1
<1>7. t.priority \in Int
  OBVIOUS
<1>8. \A j, k \in 1 .. n :
        j < k => stack[j].priority >= stack[k].priority /\ stack[j].host # stack[k].host
  BY DEF Sorted
<1>9. \A j \in 1 .. n : j \in PlaceFor(stack, t) <=> t.priority >= stack[j].priority
  BY DEF PlaceFor
<1> HIDE DEF n, i, r
<1>10. CASE i = 0
  <2>1. /\ r \in Seq(T) /\ Len(r) = n + 1
        /\ \A j \in 1 .. n : r[j] = stack[j]
        /\ r[n + 1] = t
    BY <1>5, <1>10, AppendProperties DEF n
  <2>2. ASSUME NEW j \in 1 .. n + 1, NEW k \in 1 .. n + 1, j < k
        PROVE  r[j].priority >= r[k].priority /\ r[j].host # r[k].host
    <3>1. j \in 1 .. n /\ r[j] = stack[j]
      BY <1>1, <2>1, <2>2
    <3>2. CASE k = n + 1
      <4>1. ~(t.priority >= stack[j].priority)
        BY <1>3, <1>9, <1>10, <3>1
      <4> QED BY <1>4, <1>6, <1>7, <2>1, <3>1, <3>2, <4>1
    <3>3. CASE k # n + 1
      <4>1. k \in 1 .. n
        BY <1>1, <3>3
      <4> QED BY <1>8, <2>1, <2>2, <3>1, <4>1
    <3> QED BY <3>2, <3>3
  <2> QED BY <2>1, <2>2 DEF Sorted, r
<1>11. CASE i # 0
  <2>1. i \in 1 .. n
    BY <1>1, <1>3, <1>11
  <2>2. /\ r \in Seq(T) /\ Len(r) = n + 1
        /\ \A j \in 1 .. n + 1 :
             r[j] = IF j < i THEN stack[j] ELSE IF j = i THEN t ELSE stack[j - 1]
    <3>1. r = InsertAt(stack, i, t)
      BY <1>5, <1>11
    <3>2. i \in 1 .. Len(stack)
      BY <2>1 DEF n
    <3>3. /\ InsertAt(stack, i, t) \in Seq(T)
          /\ Len(InsertAt(stack, i, t)) = Len(stack) + 1
          /\ \A j \in 1 .. Len(stack) + 1 :
               InsertAt(stack, i, t)[j] = IF j < i THEN stack[j]
                                          ELSE IF j = i THEN t ELSE stack[j - 1]
      BY <3>2, InsertAtElements
    <3> QED BY <3>1, <3>3 DEF n
  <2>3. \A j \in 1 .. n : j < i => stack[j].priority > t.priority
    BY <1>3, <1>6, <1>7, <1>9, <1>11
  <2>4. \A j \in 1 .. n : i <= j => t.priority >= stack[j].priority
    <3>1. t.priority >= stack[i].priority
      BY <1>3, <1>9, <1>11, <2>1
    <3>2. \A j \in 1 .. n : i <= j => i = j \/ i < j
      BY <2>1
    <3> QED BY <1>6, <1>7, <1>8, <2>1, <3>1, <3>2
  <2>5. ASSUME NEW j \in 1 .. n + 1, NEW k \in 1 .. n + 1, j < k
        PROVE  r[j].priority >= r[k].priority /\ r[j].host # r[k].host
    <3>1. CASE j = i
      <4>1. k - 1 \in 1 .. n /\ i <= k - 1 /\ r[k] = stack[k - 1] /\ r[j] = t
        BY <1>1, <2>1, <2>2, <2>5, <3>1
      <4> QED BY <1>4, <2>4, <4>1
    <3>2. CASE k = i
      <4>1. j \in 1 .. n /\ j < i /\ r[j] = stack[j] /\ r[k] = t
        BY <1>1, <2>1, <2>2, <2>5, <3>2
      <4> QED BY <1>4, <1>6, <1>7, <2>3, <4>1
    <3>3. CASE j # i /\ k # i
      <4> DEFINE j1 == IF j < i THEN j ELSE j - 1
                 k1 == IF k < i THEN k ELSE k - 1
      <4>1. j1 \in 1 .. n /\ k1 \in 1 .. n /\ j1 < k1
        BY <1>1, <2>1, <2>5, <3>3
      <4>2. r[j] = stack[j1] /\ r[k] = stack[k1]
        BY <2>2, <3>3
      <4> HIDE DEF j1, k1
      <4> QED BY <1>8, <4>1, <4>2
    <3> QED BY <3>1, <3>2, <3>3
  <2> QED BY <2>2, <2>5 DEF Sorted, r
<1> QED BY <1>10, <1>11 DEF r

\* _stack_replace: a table that replaces the one of its host, or is added, leaves
\* the stack by decreasing priority with one table for each host, for every stack
\* and whatever its priority and the one it replaces.
THEOREM ReplacedIsSorted ==
  ASSUME NEW T, \A x \in T : x.priority \in Int,
         NEW stack \in Seq(T), NEW t \in T, Sorted(stack)
  PROVE  Replaced(stack, t) \in Seq(T) /\ Sorted(Replaced(stack, t))
<1>1. /\ Removed(stack, t.host) \in Seq(T)
      /\ Sorted(Removed(stack, t.host))
      /\ HostAt(Removed(stack, t.host), t.host) = {}
  BY RemovedIsSorted
<1> QED BY <1>1, InsertedIsSorted DEF Replaced
=============================================================================
