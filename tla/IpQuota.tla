------------------------------ MODULE IpQuota ------------------------------
(***************************************************************************)
(* Connection quotas by IP address (caster/ntrip_common.c, ntripsrv.c).    *)
(*                                                                         *)
(* Every incoming connection is counted in caster->ntrips.ipcount under    *)
(* its remote address when it is registered, moves to another address when *)
(* a trusted proxy announces one in a header, and is discounted when it is *)
(* unlinked.  The count is changed under quotalock; the comparison with    *)
(* the quota happens later, without it, on the count read then.            *)
(*                                                                         *)
(* An entry of ipcount that is absent stands for 0 here: hash_table_incr() *)
(* creates it and hash_table_decr() deletes it at zero.                    *)
(***************************************************************************)
EXTENDS Integers, FiniteSets

CONSTANTS
    Sessions,   \* struct ntrip_state; a slot is reused once freed
    Addrs,      \* IP addresses
    Trusted,    \* addresses in trusted_http_proxy_prefixes
    Quota       \* prefix_table_get_quota() by address, -1 if none applies

ASSUME SessionsAssumption == IsFiniteSet(Sessions)
ASSUME QuotaAssumption == Trusted \subseteq Addrs /\ Quota \in [Addrs -> Int]

VARIABLES
    phase,      \* where each session is in its life
    counted,    \* st->counted
    addr,       \* st->remote_addr
    seen,       \* the count the session was told when last counted
    ipcount,    \* caster->ntrips.ipcount
    ntrips      \* caster->ntrips.queue

vars == <<phase, counted, addr, seen, ipcount, ntrips>>

Phases == {"none", "counted", "listed", "open", "moved", "closing", "ended",
           "discounted"}

Init ==
    /\ phase = [s \in Sessions |-> "none"]
    /\ counted = [s \in Sessions |-> FALSE]
    /\ addr \in [Sessions -> Addrs]
    /\ seen = [s \in Sessions |-> 0]
    /\ ipcount = [a \in Addrs |-> 0]
    /\ ntrips = {}

Goto(s, p) == phase' = [phase EXCEPT ![s] = p]

\* hash_table_incr() and hash_table_decr() on a count.
Incr(count, a) == [count EXCEPT ![a] = @ + 1]
Decr(count, a) == [count EXCEPT ![a] = IF @ > 0 THEN @ - 1 ELSE @]

\* ntrip_quota_check(), with the quota of ntrip_quota_get().
OverQuota(a, count) == Quota[a] >= 0 /\ count > Quota[a]

-----------------------------------------------------------------------------

\* ntripsrv_listener_cb(): a new connection, counted by ntrip_register_check().
Accept(s, a) ==
    /\ phase[s] = "none"
    /\ addr' = [addr EXCEPT ![s] = a]
    /\ counted' = [counted EXCEPT ![s] = TRUE]
    /\ ipcount' = Incr(ipcount, a)
    /\ seen' = [seen EXCEPT ![s] = ipcount'[a]]
    /\ Goto(s, "counted")
    /\ UNCHANGED ntrips

\* ntripcli: an outgoing connection is listed but never counted.
Connect(s, a) ==
    /\ phase[s] = "none"
    /\ addr' = [addr EXCEPT ![s] = a]
    /\ ntrips' = ntrips \cup {s}
    /\ Goto(s, "open")
    /\ UNCHANGED <<counted, seen, ipcount>>

\* _ntrip_register(): insertion in the list of sessions.
List(s) ==
    /\ phase[s] = "counted"
    /\ ntrips' = ntrips \cup {s}
    /\ Goto(s, "listed")
    /\ UNCHANGED <<counted, addr, seen, ipcount>>

\* Mutant: the connection itself is not compared with the quota.
CheckQuotaMutant(s) ==
    /\ phase[s] = "listed"
    /\ Goto(s, IF OverQuota(addr[s], seen[s] - 1) THEN "ended" ELSE "open")
    /\ UNCHANGED <<counted, addr, seen, ipcount, ntrips>>

\* _ntrip_register(): the check, on the count read earlier; ntrip_decref_end()
\* if it fails.
CheckQuota(s) ==
    /\ phase[s] = "listed"
    /\ Goto(s, IF OverQuota(addr[s], seen[s]) THEN "ended" ELSE "open")
    /\ UNCHANGED <<counted, addr, seen, ipcount, ntrips>>

\* Mutant: the previous address is not discounted.
LeaveAddressMutant(s) == ipcount

\* ntrip_quota_change(): discount the previous address of a counted session.
LeaveAddress(s) == IF counted[s] THEN Decr(ipcount, addr[s]) ELSE ipcount

\* _handle_forwarded_header(): the peer is a trusted proxy, the connection moves
\* to the address it announces.  Only incoming connections, which are counted,
\* carry headers.
Forward(s, a) ==
    /\ phase[s] = "open"
    /\ counted[s]
    /\ addr[s] \in Trusted
    /\ ipcount' = Incr(LeaveAddress(s), a)
    /\ counted' = [counted EXCEPT ![s] = TRUE]
    /\ addr' = [addr EXCEPT ![s] = a]
    /\ seen' = [seen EXCEPT ![s] = ipcount'[a]]
    /\ Goto(s, "moved")
    /\ UNCHANGED ntrips

\* Mutant: a connection is turned away also when it was told it was the last to fit.
CheckForwardMutant(s) ==
    /\ phase[s] = "moved"
    /\ Goto(s, IF OverQuota(addr[s], seen[s] + 1) THEN "closing" ELSE "open")
    /\ UNCHANGED <<counted, addr, seen, ipcount, ntrips>>

\* The check that follows; a connection over quota is left in
\* NTRIP_WAIT_CLOSE, still listed and still counted.
CheckForward(s) ==
    /\ phase[s] = "moved"
    /\ Goto(s, IF OverQuota(addr[s], seen[s]) THEN "closing" ELSE "open")
    /\ UNCHANGED <<counted, addr, seen, ipcount, ntrips>>

\* An error reply: NTRIP_WAIT_CLOSE.
Fail(s) ==
    /\ phase[s] = "open"
    /\ Goto(s, "closing")
    /\ UNCHANGED <<counted, addr, seen, ipcount, ntrips>>

\* ntrip_decref_end(), from an event, a timeout or an administrator.
End(s) ==
    /\ phase[s] \in {"open", "closing"}
    /\ Goto(s, "ended")
    /\ UNCHANGED <<counted, addr, seen, ipcount, ntrips>>

\* ntrip_quota_decr() clears the flag.
StopCounting(s) == [counted EXCEPT ![s] = FALSE]

\* ntrip_deferred_free2(), first half, under quotalock.
Discount(s) ==
    /\ phase[s] = "ended"
    /\ ipcount' = IF counted[s] THEN Decr(ipcount, addr[s]) ELSE ipcount
    /\ counted' = StopCounting(s)
    /\ Goto(s, "discounted")
    /\ UNCHANGED <<addr, seen, ntrips>>

\* Mutant: a session that ended leaves the list before it is discounted.
UnlinkMutant(s) ==
    /\ phase[s] \in {"ended", "discounted"}
    /\ ntrips' = ntrips \ {s}
    /\ Goto(s, "none")
    /\ UNCHANGED <<counted, addr, seen, ipcount>>

\* ntrip_deferred_free2(), second half; the slot can be used again.
Unlink(s) ==
    /\ phase[s] = "discounted"
    /\ ntrips' = ntrips \ {s}
    /\ Goto(s, "none")
    /\ UNCHANGED <<counted, addr, seen, ipcount>>

Next ==
    \E s \in Sessions :
      \/ \E a \in Addrs : Accept(s, a) \/ Connect(s, a) \/ Forward(s, a)
      \/ List(s) \/ CheckQuota(s) \/ CheckForward(s) \/ Fail(s) \/ End(s)
      \/ Discount(s) \/ Unlink(s)

Spec == Init /\ [][Next]_vars

-----------------------------------------------------------------------------
(* Properties *)

\* Type invariant of the quota accounting.
TypeOK ==
    /\ phase \in [Sessions -> Phases]
    /\ counted \in [Sessions -> BOOLEAN]
    /\ addr \in [Sessions -> Addrs]
    /\ seen \in [Sessions -> Nat]
    /\ ipcount \in [Addrs -> Nat]
    /\ ntrips \subseteq Sessions

CountedAt(a) == {s \in Sessions : counted[s] /\ addr[s] = a}

\* ipcount is exact at every moment, through address changes and failures, so
\* it never drifts: an address is never blocked by connections that are gone.
CountExact == \A a \in Addrs : ipcount[a] = Cardinality(CountedAt(a))

\* The connections that passed the check of their address.
AdmittedAt(a) == {s \in CountedAt(a) : phase[s] = "open"}

\* Although the check is made without the lock, on a count that is stale by
\* then, the connections admitted for an address never exceed its quota.
QuotaRespected ==
    \A a \in Addrs : Quota[a] >= 0 => Cardinality(AdmittedAt(a)) <= Quota[a]

\* What each session is to the gate: connections to other casters do not pass it.
Standing(s) ==
    CASE ~counted[s] -> "out"
      [] counted[s] /\ phase[s] \in {"counted", "listed", "moved"} ->
           IF OverQuota(addr[s], seen[s]) THEN "excess" ELSE "fits"
      [] counted[s] /\ phase[s] = "open" -> "in"
      [] OTHER -> "leaving"

Gate == INSTANCE AdmissionGate
          WITH present <- [a \in Addrs |-> CountedAt(a)],
               is <- [s \in Sessions |-> Standing(s)]

\* Counting, listing and checking a connection are separate steps, which others
\* come between, and so are its changes of address and its end; together they
\* implement a gate that compares atomically and neither lets in a connection
\* too many nor turns away one that fits.
IsAGate == Gate!Spec

\* A session is discounted no later than it leaves the list: nothing counted
\* is ever unlinked or freed.
CountedIsListed ==
    \A s \in Sessions :
      /\ phase[s] = "none" => ~counted[s] /\ s \notin ntrips
      /\ counted[s] => (s \in ntrips \/ phase[s] = "counted")

=============================================================================
