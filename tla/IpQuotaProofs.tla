--------------------------- MODULE IpQuotaProofs ---------------------------
(***************************************************************************)
(* For every finite set of sessions, every set of addresses and every      *)
(* table of quotas: the counts are exact and no address has more admitted  *)
(* connections than its quota.                                             *)
(*                                                                         *)
(* The quota is checked on a count that is stale.  What makes it safe is   *)
(* that a session compares the count it was given when it was counted:     *)
(* take the sessions that would pass (Passing); when one joins them, all   *)
(* of them are counted at that moment, so they are at most as many as the  *)
(* count that was found within the quota.                                  *)
(***************************************************************************)
EXTENDS IpQuota, FiniteSetTheorems, TLAPS

\* The sessions counted at an address that pass, or would pass, the check.
Passing(a) == {s \in CountedAt(a) : seen[s] <= Quota[a]}

PassingBounded ==
    \A a \in Addrs : Quota[a] >= 0 => Cardinality(Passing(a)) <= Quota[a]

\* A session is open only if the count it saw was within the quota.
OpenPassed ==
    \A s \in Sessions :
      (phase[s] = "open" /\ counted[s]) => ~OverQuota(addr[s], seen[s])

\* A session about to be unlinked is no longer counted.
DiscountedOnce == \A s \in Sessions : phase[s] = "discounted" => ~counted[s]

\* The inductive invariant.
IInv ==
    /\ TypeOK
    /\ CountExact
    /\ PassingBounded
    /\ OpenPassed
    /\ DiscountedOnce
    /\ CountedIsListed

-----------------------------------------------------------------------------

\* Counted sessions are finitely many, and so are those of any subset.
LEMMA CountedFinite ==
    \A a : /\ IsFiniteSet(CountedAt(a)) /\ Cardinality(CountedAt(a)) \in Nat
           /\ IsFiniteSet(Passing(a)) /\ Cardinality(Passing(a)) \in Nat
           /\ Cardinality(Passing(a)) <= Cardinality(CountedAt(a))
<1> SUFFICES ASSUME NEW a
             PROVE  /\ IsFiniteSet(CountedAt(a)) /\ Cardinality(CountedAt(a)) \in Nat
                    /\ IsFiniteSet(Passing(a)) /\ Cardinality(Passing(a)) \in Nat
                    /\ Cardinality(Passing(a)) <= Cardinality(CountedAt(a))
  OBVIOUS
<1>1. CountedAt(a) \subseteq Sessions /\ Passing(a) \subseteq CountedAt(a)
  BY DEF CountedAt, Passing
<1>2. IsFiniteSet(CountedAt(a))
  BY <1>1, SessionsAssumption, FS_Subset
<1> QED BY <1>1, <1>2, FS_Subset, FS_CardinalityType

\* The same after a step.
LEMMA CountedFinitePrime ==
    \A a : /\ IsFiniteSet(CountedAt(a)') /\ Cardinality(CountedAt(a)') \in Nat
           /\ IsFiniteSet(Passing(a)') /\ Cardinality(Passing(a)') \in Nat
           /\ Cardinality(Passing(a)') <= Cardinality(CountedAt(a)')
<1> SUFFICES ASSUME NEW a
             PROVE  /\ IsFiniteSet(CountedAt(a)') /\ Cardinality(CountedAt(a)') \in Nat
                    /\ IsFiniteSet(Passing(a)') /\ Cardinality(Passing(a)') \in Nat
                    /\ Cardinality(Passing(a)') <= Cardinality(CountedAt(a)')
  OBVIOUS
<1>1. CountedAt(a)' \subseteq Sessions /\ Passing(a)' \subseteq CountedAt(a)'
  BY DEF CountedAt, Passing
<1>2. IsFiniteSet(CountedAt(a)')
  BY <1>1, SessionsAssumption, FS_Subset
<1> QED BY <1>1, <1>2, FS_Subset, FS_CardinalityType

\* Counting one more session, or one less, at an address.
LEMMA OneMore ==
    ASSUME NEW S, IsFiniteSet(S), NEW x
    PROVE  /\ x \notin S => Cardinality(S \cup {x}) = Cardinality(S) + 1
           /\ x \in S => Cardinality(S \ {x}) = Cardinality(S) - 1
           /\ Cardinality(S) \in Nat
           /\ x \in S => Cardinality(S) >= 1
<1>1. Cardinality(S) \in Nat
  BY FS_CardinalityType
<1>2. ASSUME x \in S PROVE Cardinality(S) >= 1
  BY <1>1, <1>2, FS_EmptySet
<1> QED BY <1>1, <1>2, FS_AddElement, FS_RemoveElement

\* A step that moves a session from one address to another (or counts it for
\* the first time) keeps the counts exact and the passing sessions bounded.
LEMMA MoveStep ==
    ASSUME IInv, NEW s \in Sessions, NEW b \in Addrs,
           ipcount' = Incr(LeaveAddress(s), b),
           counted' = [counted EXCEPT ![s] = TRUE],
           addr' = [addr EXCEPT ![s] = b],
           seen' = [seen EXCEPT ![s] = ipcount'[b]]
    PROVE  /\ ipcount' \in [Addrs -> Nat]
           /\ seen' \in [Sessions -> Nat]
           /\ CountExact' /\ PassingBounded'
<1> USE QuotaAssumption DEF IInv
<1> DEFINE rest(a) == CountedAt(a) \ {s}
<1>1. \A a \in Addrs : /\ IsFiniteSet(rest(a))
                       /\ Cardinality(rest(a)) \in Nat
                       /\ LeaveAddress(s)[a] = Cardinality(rest(a))
  <2> TAKE a \in Addrs
  <2>1. IsFiniteSet(CountedAt(a)) /\ IsFiniteSet(rest(a))
    BY CountedFinite, FS_Subset
  <2>2. ipcount[a] = Cardinality(CountedAt(a)) /\ ipcount[a] \in Nat
    BY DEF CountExact, TypeOK
  <2>3. Cardinality(rest(a)) \in Nat
    BY <2>1, FS_CardinalityType
  <2>4. CASE counted[s] /\ addr[s] = a
    <3>1. s \in CountedAt(a)
      BY <2>4 DEF CountedAt
    <3>2. Cardinality(rest(a)) = ipcount[a] - 1 /\ ipcount[a] >= 1
      BY <2>1, <2>2, <3>1, OneMore
    <3>3. LeaveAddress(s)[a] = ipcount[a] - 1
      BY <2>2, <2>4, <3>2 DEF LeaveAddress, Decr, TypeOK
    <3> QED BY <2>1, <2>3, <3>2, <3>3
  <2>5. CASE ~(counted[s] /\ addr[s] = a)
    <3>1. rest(a) = CountedAt(a)
      BY <2>5 DEF CountedAt
    <3>2. LeaveAddress(s)[a] = ipcount[a]
      BY <2>5 DEF LeaveAddress, Decr, TypeOK
    <3> QED BY <2>1, <2>2, <2>3, <3>1, <3>2
  <2> QED BY <2>4, <2>5
<1>2. \A a \in Addrs : CountedAt(a)' = IF a = b THEN rest(a) \cup {s} ELSE rest(a)
  BY DEF CountedAt, TypeOK
<1>3. LeaveAddress(s) \in [Addrs -> Nat]
  BY DEF LeaveAddress, Decr, TypeOK
<1>4. ipcount' \in [Addrs -> Nat]
  BY <1>3 DEF Incr
<1>5. \A a \in Addrs :
        ipcount'[a] = IF a = b THEN Cardinality(rest(a)) + 1 ELSE Cardinality(rest(a))
  BY <1>1, <1>3 DEF Incr
<1>6. CountExact'
  <2>1. ASSUME NEW a \in Addrs PROVE ipcount'[a] = Cardinality(CountedAt(a)')
    <3>1. CASE a = b
      <4>1. Cardinality(rest(a) \cup {s}) = Cardinality(rest(a)) + 1
        BY <1>1, OneMore
      <4> QED BY <1>2, <1>5, <3>1, <4>1
    <3>2. CASE a # b
      BY <1>2, <1>5, <3>2
    <3> QED BY <3>1, <3>2
  <2> QED BY <2>1 DEF CountExact
<1>7. seen' \in [Sessions -> Nat] /\ \A r \in Sessions :
        seen'[r] = IF r = s THEN ipcount'[b] ELSE seen[r]
  BY <1>4 DEF TypeOK
<1>8. PassingBounded'
  <2>1. ASSUME NEW a \in Addrs, Quota[a] >= 0
        PROVE  Cardinality(Passing(a)') <= Quota[a]
    <3>1. CASE a = b /\ ipcount'[b] <= Quota[b]
      <4>1. Cardinality(Passing(a)') <= Cardinality(CountedAt(a)')
        BY CountedFinitePrime
      <4>2. Cardinality(CountedAt(a)') = ipcount'[b]
        BY <1>6, <3>1 DEF CountExact
      <4> QED BY <3>1, <4>1, <4>2, CountedFinitePrime
    <3>2. CASE ~(a = b /\ ipcount'[b] <= Quota[b])
      <4>1. Passing(a)' \subseteq Passing(a)
        <5>1. ASSUME NEW r \in Passing(a)' PROVE r \in Passing(a)
          <6>1. r \in CountedAt(a)' /\ seen'[r] <= Quota[a] /\ r \in Sessions
            BY DEF Passing, CountedAt
          <6>2. r # s
            BY <1>2, <1>7, <3>2, <6>1
          <6>3. r \in CountedAt(a)
            BY <1>2, <6>1, <6>2
          <6> QED BY <1>7, <6>1, <6>2, <6>3 DEF Passing
        <5> QED BY <5>1
      <4>2. Cardinality(Passing(a)') <= Cardinality(Passing(a))
        BY <4>1, CountedFinite, FS_Subset
      <4> QED BY <2>1, <4>2, CountedFinite, CountedFinitePrime DEF PassingBounded
    <3> QED BY <3>1, <3>2
  <2> QED BY <2>1 DEF PassingBounded
<1> QED BY <1>4, <1>6, <1>7, <1>8

\* A step that changes neither the counts nor who is counted where.
LEMMA FrameStep ==
    ASSUME IInv, UNCHANGED <<counted, addr, seen, ipcount>>
    PROVE  CountExact' /\ PassingBounded'
BY DEF IInv, CountExact, PassingBounded, Passing, CountedAt

\* Discounting a session, as Discount does.
LEMMA DiscountStep ==
    ASSUME IInv, NEW s \in Sessions, Discount(s)
    PROVE  ipcount' \in [Addrs -> Nat] /\ CountExact' /\ PassingBounded'
<1> USE QuotaAssumption DEF IInv
<1>1. \A a \in Addrs : CountedAt(a)' = CountedAt(a) \ {s}
  BY DEF Discount, StopCounting, CountedAt, TypeOK
<1>2. \A a \in Addrs : Passing(a)' = Passing(a) \ {s}
  BY <1>1 DEF Passing, Discount
<1>3. ipcount' \in [Addrs -> Nat]
  BY DEF Discount, Decr, TypeOK
<1>4. ASSUME NEW a \in Addrs PROVE ipcount'[a] = Cardinality(CountedAt(a)')
  <2>1. ipcount[a] = Cardinality(CountedAt(a)) /\ ipcount[a] \in Nat
    BY DEF CountExact, TypeOK
  <2>2. CASE counted[s] /\ addr[s] = a
    <3>1. s \in CountedAt(a)
      BY <2>2 DEF CountedAt
    <3>2. Cardinality(CountedAt(a) \ {s}) = ipcount[a] - 1 /\ ipcount[a] >= 1
      BY <2>1, <3>1, CountedFinite, OneMore
    <3>3. ipcount'[a] = ipcount[a] - 1
      BY <2>1, <2>2, <3>2 DEF Discount, Decr, TypeOK
    <3> QED BY <1>1, <3>2, <3>3
  <2>3. CASE ~(counted[s] /\ addr[s] = a)
    <3>1. CountedAt(a) \ {s} = CountedAt(a)
      BY <2>3 DEF CountedAt
    <3>2. ipcount'[a] = ipcount[a]
      BY <2>3 DEF Discount, Decr, TypeOK
    <3> QED BY <1>1, <2>1, <3>1, <3>2
  <2> QED BY <2>2, <2>3
<1>5. ASSUME NEW a \in Addrs, Quota[a] >= 0
      PROVE  Cardinality(Passing(a)') <= Quota[a]
  <2>1. Passing(a)' \subseteq Passing(a)
    BY <1>2
  <2>2. Cardinality(Passing(a)') <= Cardinality(Passing(a))
    BY <2>1, CountedFinite, FS_Subset
  <2> QED BY <1>5, <2>2, CountedFinite, CountedFinitePrime DEF PassingBounded
<1> QED BY <1>3, <1>4, <1>5 DEF CountExact, PassingBounded

\* Every step preserves the invariant.
LEMMA StepIInv == IInv /\ [Next]_vars => IInv'
<1> SUFFICES ASSUME IInv, [Next]_vars PROVE IInv'
  OBVIOUS
<1> USE SessionsAssumption, QuotaAssumption DEF IInv
<1>1. CASE UNCHANGED vars
  BY <1>1, FrameStep DEF vars, TypeOK, OpenPassed, OverQuota, DiscountedOnce,
                         CountedIsListed
<1>2. ASSUME NEW s \in Sessions, NEW a \in Addrs, Accept(s, a) PROVE IInv'
  <2>1. ~counted[s] /\ LeaveAddress(s) = ipcount
    BY <1>2 DEF Accept, CountedIsListed, LeaveAddress
  <2>2. ipcount' \in [Addrs -> Nat] /\ seen' \in [Sessions -> Nat] /\ CountExact'
        /\ PassingBounded'
    BY <1>2, <2>1, MoveStep DEF Accept
  <2>3. TypeOK'
    BY <1>2, <2>2 DEF Accept, Goto, TypeOK, Phases
  <2>4. OpenPassed' /\ DiscountedOnce' /\ CountedIsListed'
    BY <1>2 DEF Accept, Goto, TypeOK, OpenPassed, OverQuota,
              DiscountedOnce, CountedIsListed
  <2> QED BY <2>2, <2>3, <2>4
<1>3. ASSUME NEW s \in Sessions, NEW a \in Addrs, Forward(s, a) PROVE IInv'
  <2>1. ipcount' \in [Addrs -> Nat] /\ seen' \in [Sessions -> Nat] /\ CountExact'
        /\ PassingBounded'
    BY <1>3, MoveStep DEF Forward
  <2>2. TypeOK'
    BY <1>3, <2>1 DEF Forward, Goto, TypeOK, Phases
  <2>3. OpenPassed' /\ DiscountedOnce' /\ CountedIsListed'
    BY <1>3 DEF Forward, Goto, TypeOK, OpenPassed, OverQuota,
              DiscountedOnce, CountedIsListed
  <2> QED BY <2>1, <2>2, <2>3
<1>4. ASSUME NEW s \in Sessions, NEW a \in Addrs, Connect(s, a) PROVE IInv'
  <2>1. ~counted[s]
    BY <1>4 DEF Connect, CountedIsListed
  <2>2. \A b \in Addrs : CountedAt(b)' = CountedAt(b) /\ Passing(b)' = Passing(b)
    BY <1>4, <2>1 DEF Connect, CountedAt, Passing, TypeOK
  <2>3. CountExact' /\ PassingBounded'
    BY <1>4, <2>2 DEF Connect, CountExact, PassingBounded
  <2>4. TypeOK' /\ OpenPassed' /\ DiscountedOnce' /\ CountedIsListed'
    BY <1>4, <2>1 DEF Connect, Goto, TypeOK, Phases, OpenPassed, OverQuota,
                      DiscountedOnce, CountedIsListed
  <2> QED BY <2>3, <2>4
<1>5. ASSUME NEW s \in Sessions,
             List(s) \/ CheckQuota(s) \/ CheckForward(s) \/ Fail(s) \/ End(s)
      PROVE  IInv'
  <2>1. CountExact' /\ PassingBounded'
    BY <1>5, FrameStep DEF List, CheckQuota, CheckForward, Fail, End
  <2>2. CASE List(s)
    BY <2>1, <2>2 DEF List, Goto, TypeOK, Phases, OpenPassed, OverQuota,
              DiscountedOnce, CountedIsListed
  <2>3. CASE CheckQuota(s) \/ CheckForward(s)
    BY <2>1, <2>3 DEF CheckQuota, CheckForward, Goto, TypeOK, Phases, OpenPassed,
                      OverQuota, DiscountedOnce, CountedIsListed
  <2>4. CASE Fail(s) \/ End(s)
    BY <2>1, <2>4 DEF Fail, End, Goto, TypeOK, Phases, OpenPassed, OverQuota,
                      DiscountedOnce, CountedIsListed
  <2> QED BY <1>5, <2>2, <2>3, <2>4
<1>6. ASSUME NEW s \in Sessions, Discount(s) PROVE IInv'
  <2>1. ipcount' \in [Addrs -> Nat] /\ CountExact' /\ PassingBounded'
    BY <1>6, DiscountStep
  <2>2. TypeOK' /\ OpenPassed' /\ DiscountedOnce' /\ CountedIsListed'
    BY <1>6, <2>1 DEF Discount, StopCounting, Goto, TypeOK, Phases, OpenPassed,
                      OverQuota, DiscountedOnce, CountedIsListed
  <2> QED BY <2>1, <2>2
<1>7. ASSUME NEW s \in Sessions, Unlink(s) PROVE IInv'
  <2>1. CountExact' /\ PassingBounded'
    BY <1>7, FrameStep DEF Unlink
  <2> QED BY <1>7, <2>1 DEF Unlink, Goto, TypeOK, Phases, OpenPassed, OverQuota,
                            DiscountedOnce, CountedIsListed
<1> QED BY <1>1, <1>2, <1>3, <1>4, <1>5, <1>6, <1>7 DEF Next

\* The inductive invariant holds throughout.
THEOREM Invariance == Spec => []IInv
<1>1. Init => IInv
  <2> SUFFICES ASSUME Init PROVE IInv
    OBVIOUS
  <2>1. \A a : CountedAt(a) = {} /\ Passing(a) = {}
    BY DEF Init, CountedAt, Passing
  <2>2. Cardinality({}) = 0
    BY FS_EmptySet
  <2>3. CountExact
    BY <2>1, <2>2 DEF Init, CountExact
  <2>4. PassingBounded
    BY <2>1, <2>2, QuotaAssumption DEF PassingBounded
  <2>5. TypeOK /\ OpenPassed /\ DiscountedOnce /\ CountedIsListed
    BY DEF Init, TypeOK, Phases, OpenPassed, DiscountedOnce, CountedIsListed
  <2> QED BY <2>3, <2>4, <2>5 DEF IInv
<1> QED BY <1>1, StepIInv, PTL DEF Spec

\* The counts of connections by address are exact in every reachable state,
\* whatever the order of accepts, moves, failures and unlinks.
THEOREM CountsAreExact == Spec => []CountExact
BY Invariance, PTL DEF IInv

\* No session leaves the list, and its slot is never reused, while counted.
THEOREM UnlinkedIsDiscounted == Spec => []CountedIsListed
BY Invariance, PTL DEF IInv

\* An address never has more admitted connections than its quota.
THEOREM QuotaIsRespected == Spec => []QuotaRespected
<1>1. IInv => QuotaRespected
  <2> SUFFICES ASSUME IInv, NEW a \in Addrs, Quota[a] >= 0
               PROVE  Cardinality(AdmittedAt(a)) <= Quota[a]
    BY DEF QuotaRespected
  <2>1. AdmittedAt(a) \subseteq Passing(a)
    BY QuotaAssumption DEF IInv, AdmittedAt, CountedAt, Passing, OpenPassed, OverQuota, TypeOK
  <2>2. IsFiniteSet(AdmittedAt(a)) /\ Cardinality(AdmittedAt(a)) <= Cardinality(Passing(a))
    BY <2>1, CountedFinite, FS_Subset
  <2>3. Cardinality(AdmittedAt(a)) \in Nat
    BY <2>2, FS_CardinalityType
  <2> QED BY <2>2, <2>3, CountedFinite, QuotaAssumption DEF IInv, PassingBounded
<1> QED BY <1>1, Invariance, PTL

-----------------------------------------------------------------------------
(* The quotas implement the atomic gate.  The mapping takes the count that *)
(* a session was told, which is exact when it is told, for the verdict of  *)
(* the gate.                                                               *)

\* The gate counts with the same operator.
LEMMA SameCardinality == \A S : Gate!Cardinality(S) = Cardinality(S)
BY DEF Gate!Cardinality, Cardinality

\* A step that leaves a session alone leaves what it is to the gate.
LEMMA SameStanding ==
    ASSUME NEW r \in Sessions, phase'[r] = phase[r], counted'[r] = counted[r],
           addr'[r] = addr[r], seen'[r] = seen[r]
    PROVE  Standing(r)' = Standing(r)
BY DEF Standing, OverQuota

\* A session that is counted at an address, for the first time or because it
\* moves there, arrives at the gate.
LEMMA ArriveStep ==
    ASSUME IInv, CountExact', NEW s \in Sessions, NEW b \in Addrs,
           Standing(s) \in {"out", "in"},
           NEW p \in {"counted", "moved"}, Goto(s, p),
           counted' = [counted EXCEPT ![s] = TRUE],
           addr' = [addr EXCEPT ![s] = b],
           seen' = [seen EXCEPT ![s] = ipcount'[b]]
    PROVE  Gate!Arrive(s, b)
<1> USE DEF IInv
<1>1. \A a \in Addrs :
        CountedAt(a)' = IF a = b THEN CountedAt(a) \cup {s} ELSE CountedAt(a) \ {s}
  BY DEF CountedAt, TypeOK
<1>2. seen'[s] = Cardinality(CountedAt(b) \cup {s})
  <2>1. seen'[s] = ipcount'[b]
    BY DEF TypeOK
  <2>2. ipcount'[b] = Cardinality(CountedAt(b)')
    BY DEF CountExact
  <2>3. CountedAt(b)' = CountedAt(b) \cup {s}
    BY <1>1
  <2> QED BY <2>1, <2>2, <2>3
<1>3. phase'[s] = p /\ counted'[s] /\ addr'[s] = b
  BY DEF Goto, TypeOK
<1>4. Standing(s)' = IF OverQuota(b, seen'[s]) THEN "excess" ELSE "fits"
  BY <1>3 DEF Standing, OverQuota
<1>5. Gate!Fits(s, b) <=> ~OverQuota(b, seen'[s])
  <2>1. Cardinality(CountedAt(b) \cup {s}) \in Nat /\ Quota[b] \in Int
    BY CountedFinite, FS_AddElement, FS_CardinalityType, QuotaAssumption
  <2>2. seen'[s] \in Nat /\ Quota[b] \in Int
    BY <1>2, <2>1
  <2>3. ~OverQuota(b, seen'[s]) <=> (Quota[b] >= 0 => seen'[s] <= Quota[b])
    BY <2>2 DEF OverQuota
  <2> QED BY <1>2, <2>3, SameCardinality DEF Gate!Fits
<1>6. \A r \in Sessions \ {s} : Standing(r)' = Standing(r)
  BY SameStanding DEF Goto, TypeOK
<1>7. [r \in Sessions |-> Standing(r)]'
        = [[r \in Sessions |-> Standing(r)] EXCEPT
             ![s] = IF Gate!Fits(s, b) THEN "fits" ELSE "excess"]
  BY <1>4, <1>5, <1>6
<1>8. [a \in Addrs |-> CountedAt(a)]'
        = [a \in Addrs |-> IF a = b THEN [c \in Addrs |-> CountedAt(c)][a] \cup {s}
                                    ELSE [c \in Addrs |-> CountedAt(c)][a] \ {s}]
  BY <1>1
<1> QED BY <1>7, <1>8 DEF Gate!Arrive

\* A step of one session that changes no count is a change of its standing.
LEMMA BecomeStep ==
    ASSUME IInv, NEW s \in Sessions, NEW p, Goto(s, p),
           UNCHANGED <<counted, addr, seen, ipcount>>
    PROVE  /\ [r \in Sessions |-> Standing(r)]'
                = [[r \in Sessions |-> Standing(r)] EXCEPT ![s] = Standing(s)']
           /\ [a \in Addrs |-> CountedAt(a)]' = [a \in Addrs |-> CountedAt(a)]
           /\ phase'[s] = p
<1>1. \A r \in Sessions \ {s} : Standing(r)' = Standing(r)
  BY SameStanding DEF Goto, IInv, TypeOK
<1>2. phase'[s] = p
  BY DEF Goto, IInv, TypeOK
<1> QED BY <1>1, <1>2 DEF CountedAt

\* Every step is a step of the gate, or none.
LEMMA GateStep == IInv /\ CountExact' /\ [Next]_vars => [Gate!Next]_(Gate!vars)
<1> SUFFICES ASSUME IInv, CountExact', [Next]_vars PROVE Gate!Next \/ UNCHANGED Gate!vars
  OBVIOUS
<1> DEFINE standing == [r \in Sessions |-> Standing(r)]
           present == [a \in Addrs |-> CountedAt(a)]
<1>1. CASE UNCHANGED vars
  BY <1>1 DEF vars, Gate!vars, Standing, OverQuota, CountedAt
<1>2. ASSUME NEW s \in Sessions, NEW a \in Addrs, Accept(s, a)
      PROVE  Gate!Next
  <2>1. Standing(s) = "out"
    BY <1>2 DEF Accept, Standing, IInv, CountedIsListed
  <2>2. Gate!Arrive(s, a)
    BY <1>2, <2>1, ArriveStep DEF Accept
  <2> QED BY <2>2 DEF Gate!Next
<1>3. ASSUME NEW s \in Sessions, NEW a \in Addrs, Forward(s, a)
      PROVE  Gate!Next
  <2>1. Standing(s) = "in"
    BY <1>3 DEF Forward, Standing
  <2>2. Gate!Arrive(s, a)
    BY <1>3, <2>1, ArriveStep DEF Forward
  <2> QED BY <2>2 DEF Gate!Next
<1>4. ASSUME NEW s \in Sessions, NEW a \in Addrs, Connect(s, a)
      PROVE  UNCHANGED Gate!vars
  <2>1. ~counted[s] /\ counted' = counted /\ ~counted'[s]
    BY <1>4 DEF Connect, IInv, CountedIsListed
  <2>2. Standing(s) = "out" /\ Standing(s)' = "out"
    BY <2>1 DEF Standing
  <2>3. \A r \in Sessions \ {s} : Standing(r)' = Standing(r)
    BY <1>4, SameStanding DEF Connect, Goto, IInv, TypeOK
  <2>4. \A b \in Addrs : CountedAt(b)' = CountedAt(b)
    BY <1>4, <2>1 DEF Connect, CountedAt, IInv, TypeOK
  <2> QED BY <2>2, <2>3, <2>4 DEF Gate!vars
<1>5. ASSUME NEW s \in Sessions, List(s) PROVE UNCHANGED Gate!vars
  <2>1. Standing(s)' = Standing(s)
    BY <1>5, BecomeStep DEF List, Standing, OverQuota
  <2> QED BY <1>5, <2>1, BecomeStep DEF List, Gate!vars
<1>6. ASSUME NEW s \in Sessions, CheckQuota(s) \/ CheckForward(s)
      PROVE  Gate!Next \/ UNCHANGED Gate!vars
  <2>1. PICK p \in {"open", "closing", "ended"} :
          /\ Goto(s, p)
          /\ p = "open" <=> ~OverQuota(addr[s], seen[s])
    BY <1>6 DEF CheckQuota, CheckForward
  <2>2. UNCHANGED <<counted, addr, seen, ipcount>> /\ phase[s] \in {"listed", "moved"}
    BY <1>6 DEF CheckQuota, CheckForward
  <2>3. phase'[s] = p /\ present' = present
        /\ standing' = [standing EXCEPT ![s] = Standing(s)']
    BY <2>1, <2>2, BecomeStep
  <2>4. CASE ~counted[s]
    <3>1. Standing(s)' = Standing(s)
      BY <2>2, <2>4 DEF Standing
    <3> QED BY <2>3, <3>1 DEF Gate!vars
  <2>5. CASE counted[s] /\ OverQuota(addr[s], seen[s])
    <3>1. Standing(s) = "excess" /\ Standing(s)' = "leaving"
      BY <2>1, <2>2, <2>3, <2>5 DEF Standing
    <3> QED BY <2>3, <3>1 DEF Gate!Next, Gate!TurnAway, Gate!Become
  <2>6. CASE counted[s] /\ ~OverQuota(addr[s], seen[s])
    <3>1. Standing(s) = "fits" /\ Standing(s)' = "in"
      BY <2>1, <2>2, <2>3, <2>6 DEF Standing
    <3> QED BY <2>3, <3>1 DEF Gate!Next, Gate!LetIn, Gate!Become
  <2> QED BY <2>4, <2>5, <2>6
<1>7. ASSUME NEW s \in Sessions, Fail(s) \/ End(s)
      PROVE  Gate!Next \/ UNCHANGED Gate!vars
  <2>1. PICK p \in {"closing", "ended"} : Goto(s, p)
    BY <1>7 DEF Fail, End
  <2>2. UNCHANGED <<counted, addr, seen, ipcount>> /\ phase[s] \in {"open", "closing"}
    BY <1>7 DEF Fail, End
  <2>3. phase'[s] = p /\ present' = present
        /\ standing' = [standing EXCEPT ![s] = Standing(s)']
    BY <2>1, <2>2, BecomeStep
  <2>4. CASE counted[s] /\ phase[s] = "open"
    <3>1. Standing(s) = "in" /\ Standing(s)' = "leaving"
      BY <2>1, <2>2, <2>3, <2>4 DEF Standing
    <3> QED BY <2>3, <3>1 DEF Gate!Next, Gate!Leave, Gate!Become
  <2>5. CASE ~(counted[s] /\ phase[s] = "open")
    <3>1. Standing(s)' = Standing(s)
      BY <2>1, <2>2, <2>3, <2>5 DEF Standing
    <3> QED BY <2>3, <3>1 DEF Gate!vars
  <2> QED BY <2>4, <2>5
<1>8. ASSUME NEW s \in Sessions, Discount(s)
      PROVE  Gate!Next \/ UNCHANGED Gate!vars
  <2>1. \A r \in Sessions \ {s} : Standing(r)' = Standing(r)
    BY <1>8, SameStanding DEF Discount, StopCounting, Goto, IInv, TypeOK
  <2>2. ~counted'[s]
    BY <1>8 DEF Discount, StopCounting, IInv, TypeOK
  <2>3. Standing(s)' = "out"
    BY <2>2 DEF Standing
  <2>4. \A a \in Addrs : CountedAt(a)' = CountedAt(a) \ {s}
    BY <1>8 DEF Discount, StopCounting, CountedAt, IInv, TypeOK
  <2>5. CASE counted[s]
    <3>1. Standing(s) = "leaving"
      BY <1>8, <2>5 DEF Discount, Standing
    <3>2. Gate!Depart(s)
      BY <2>1, <2>3, <2>4, <3>1 DEF Gate!Depart
    <3> QED BY <3>2 DEF Gate!Next
  <2>6. CASE ~counted[s]
    <3>1. Standing(s) = "out"
      BY <2>6 DEF Standing
    <3>2. \A a \in Addrs : CountedAt(a)' = CountedAt(a)
      BY <2>4, <2>6 DEF CountedAt
    <3> QED BY <2>1, <2>3, <3>1, <3>2 DEF Gate!vars
  <2> QED BY <2>5, <2>6
<1>9. ASSUME NEW s \in Sessions, Unlink(s) PROVE UNCHANGED Gate!vars
  <2>1. ~counted[s] /\ counted' = counted /\ ~counted'[s]
    BY <1>9 DEF Unlink, IInv, DiscountedOnce
  <2>2. Standing(s)' = Standing(s)
    BY <2>1 DEF Standing
  <2> QED BY <1>9, <2>2, BecomeStep DEF Unlink, Gate!vars
<1> QED BY <1>1, <1>2, <1>3, <1>4, <1>5, <1>6, <1>7, <1>8, <1>9 DEF Next

\* Counting, listing and checking in separate steps, with trusted proxies that
\* change the address, implement the gate that compares atomically, for every
\* set of sessions and addresses and every table of quotas.
THEOREM ImplementsGate == Spec => IsAGate
<1>1. Init => Gate!Init
  <2> SUFFICES ASSUME Init PROVE Gate!Init
    OBVIOUS
  <2>1. \A a \in Addrs : CountedAt(a) = {}
    BY DEF Init, CountedAt
  <2>2. \A s \in Sessions : Standing(s) = "out"
    BY DEF Init, Standing
  <2> QED BY <2>1, <2>2 DEF Gate!Init
<1>2. IInv => CountExact
  BY DEF IInv
<1> QED BY <1>1, <1>2, Invariance, GateStep, PTL DEF Spec, IsAGate, Gate!Spec
=============================================================================
