--------------------------- MODULE AdmissionGate ---------------------------
(***************************************************************************)
(* What the quotas by IP address promise.  A connection is compared with   *)
(* the quota of its address by one atomic step, among the connections that *)
(* are present at the address at that moment.  It is let in if and only if *)
(* it fits, however late.                                                  *)
(***************************************************************************)
EXTENDS Integers, FiniteSets

CONSTANTS Sessions, Addrs,
          Quota       \* most connections of each address, no limit if negative

VARIABLES present,    \* the connections present at each address
          is          \* what each connection is

Init ==
    /\ present = [a \in Addrs |-> {}]
    /\ is = [s \in Sessions |-> "out"]

Fits(s, a) == Quota[a] >= 0 => Cardinality(present[a] \cup {s}) <= Quota[a]

\* A connection arrives at an address, from outside or from another address.
Arrive(s, a) ==
    /\ is[s] \in {"out", "in"}
    /\ is' = [is EXCEPT ![s] = IF Fits(s, a) THEN "fits" ELSE "excess"]
    /\ present' = [b \in Addrs |-> IF b = a THEN present[b] \cup {s}
                                            ELSE present[b] \ {s}]

Become(s, from, to) ==
    /\ is[s] = from
    /\ is' = [is EXCEPT ![s] = to]
    /\ UNCHANGED present

LetIn(s) == Become(s, "fits", "in")
TurnAway(s) == Become(s, "excess", "leaving")
Leave(s) == Become(s, "in", "leaving")

\* A connection that leaves makes room at its address.
Depart(s) ==
    /\ is[s] = "leaving"
    /\ is' = [is EXCEPT ![s] = "out"]
    /\ present' = [a \in Addrs |-> present[a] \ {s}]

Next ==
    \E s \in Sessions :
      \/ \E a \in Addrs : Arrive(s, a)
      \/ LetIn(s) \/ TurnAway(s) \/ Leave(s) \/ Depart(s)

vars == <<present, is>>
Spec == Init /\ [][Next]_vars
=============================================================================
