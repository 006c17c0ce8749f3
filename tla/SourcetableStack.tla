-------------------------- MODULE SourcetableStack --------------------------
(***************************************************************************)
(* The stack of sourcetables of caster/sourcetable.c: the local file, the  *)
(* tables fetched from other casters and those sent by other nodes, in a   *)
(* list by decreasing priority.  A table is a record with its host and     *)
(* port, its priority, the set of its mountpoints and where it comes from. *)
(***************************************************************************)
EXTENDS Naturals, SequencesExt

\* Sourcetables.  by: the fetcher it comes from, or Unfetched if it comes from the
\* local file or from another node
Unfetched == <<>>
Table(host, priority, by, mounts) ==
  [host |-> host, priority |-> priority, by |-> by, mounts |-> mounts]
LocalHost == "LOCAL"

----------------------------------------------------------------------------
\* Mutant: a table is inserted after those of a lower priority.
InsertedMutant(stack, t) ==
  LET i == SelectInSeq(stack, LAMBDA s : t.priority <= s.priority)
  IN IF i = 0 THEN Append(stack, t) ELSE InsertAt(stack, i, t)

Inserted(stack, t) ==
  LET i == SelectInSeq(stack, LAMBDA s : t.priority >= s.priority)
  IN IF i = 0 THEN Append(stack, t) ELSE InsertAt(stack, i, t)

\* stack_replace_host with no table
Removed(stack, host) == RemoveFirstMatch(stack, LAMBDA s : s.host = host)

\* stack_replace_host and stack_replace_local
Replaced(stack, t) == Inserted(Removed(stack, t.host), t)

\* _stack_find_mountpoint for a client, where `live' are the mountpoints that are
\* virtual or have a running source here (livesource_exists): its place in the stack, or 0
FoundIn(stack, m, live) ==
  SelectInSeq(stack, LAMBDA t : m \in t.mounts /\ (t.host # LocalHost \/ m \in live))

\* Mutant: the sources of a table with less priority replace those before.
FlattenMutant(stack, live) ==
  FoldLeft(LAMBDA r, i :
             LET t == stack[i]
                 shown == {m \in t.mounts : t.host # LocalHost \/ m \in live}
             IN [m \in DOMAIN r \cup shown |-> IF m \in shown THEN i ELSE r[m]],
           <<>>, [i \in DOMAIN stack |-> i])

\* stack_flatten: the mountpoints shown to clients, with the place of their table
Flatten(stack, live) ==
  FoldLeft(LAMBDA r, i :
             LET t == stack[i]
                 shown == {m \in t.mounts : t.host # LocalHost \/ m \in live} \ DOMAIN r
             IN [m \in DOMAIN r \cup shown |-> IF m \in shown THEN i ELSE r[m]],
           <<>>, [i \in DOMAIN stack |-> i])

----------------------------------------------------------------------------
(* What _stack_replace keeps.                                              *)

\* The stack is by decreasing priority, with one table for each host.
Sorted(stack) ==
  \A i, j \in 1 .. Len(stack) :
    i < j => stack[i].priority >= stack[j].priority /\ stack[i].host # stack[j].host
=============================================================================
