------------------------- MODULE LivesourceTheorems -------------------------
(***************************************************************************)
(* The steps of Livesource that unsubscribe, subscribe, delete a source    *)
(* and start its fetch keep the invariant of LivesourceProofs; so it holds *)
(* in every reachable state, and with it the properties of Livesource, for *)
(* every number of sources, mountpoints, clients and workers.              *)
(***************************************************************************)
EXTENDS LivesourceProofs, Counting

-----------------------------------------------------------------------------
(* The other steps of the workers *)

\* del_subscriber removes the subscription.
LEMMA RemoveStep ==
    ASSUME Premises, NEW w \in Workers, RemoveSubscription(w)
    PROVE  IInv'
<1>1. /\ pc[w] = "remove" /\ UNCHANGED <<hash, mountpoint, own, args, jobq>>
  BY Zenon DEF RemoveSubscription, tableVars, ownerVars
<1>2. job[w].st \in Clients /\ cap[w] \in Livesources
  BY <1>1, WorkerFacts, JobFacts, Zenon DEF AtLabel
<1>3. PICK l \in Livesources, c \in Clients : l = cap[w] /\ c = job[w].st
  BY <1>2, Zenon
<1>4. refcnt \in [Livesources -> Int] /\ None \in Livesources \cup {None}
  BY DEF Premises, IInv, Types
<1>5. ASSUME AfterRemove(w)
      PROVE  \E label \in Labels \ {"insert", "redistribute"}, j \in Jobs \cup FreeJobs \cup {NoJob} :
               /\ Moves(w, label, j, None) /\ AtLabel(w)'
               /\ \A v \in Workers : (pc'[v] = "insert" <=> pc[v] = "insert")
                                     /\ (pc[v] = "insert" => job'[v] = job[v])
               /\ \A k \in Livesources :
                    /\ w \in Enders(k)' <=> w \in Enders(k)
                    /\ NRunning(k)' = NRunning(k)
                    /\ k = l => NRemoving(k)' = NRemoving(k) - 1
                    /\ k # l => NRemoving(k)' = NRemoving(k)
  <2>1. PICK label \in Labels \ {"insert", "redistribute"}, j \in Jobs \cup FreeJobs \cup {NoJob} :
             /\ Moves(w, label, j, None) /\ AtLabel(w)'
             /\ \A k \in Livesources : /\ w \in Running(k)' <=> w \in Running(k)
                                       /\ w \notin Removing(k)'
                                       /\ w \in Enders(k)' <=> w \in Enders(k)
    BY <1>1, <1>5, AfterRemoveFacts
  <2>2. /\ pc'[w] = label
        /\ \A v \in Workers : v # w => pc'[v] = pc[v] /\ job'[v] = job[v] /\ cap'[v] = cap[v]
    BY <1>4, <2>1, MovesFacts
  <2>3. \A v \in Workers : (pc'[v] = "insert" <=> pc[v] = "insert")
                           /\ (pc[v] = "insert" => job'[v] = job[v])
    BY <1>1, <2>2, Zenon
  <2>4. ASSUME NEW k \in Livesources
        PROVE  /\ NRunning(k)' = NRunning(k)
               /\ k = l => NRemoving(k)' = NRemoving(k) - 1
               /\ k # l => NRemoving(k)' = NRemoving(k)
    <3>1. w \in Removing(k) <=> k = l
      BY <1>1, <1>3, Zenon DEF Removing
    <3> QED BY <2>1, <2>2, <3>1, WorkerMove, Zenon
  <2> QED BY <2>1, <2>3, <2>4, Zenon
<1>6. mountpoint[l] # None /\ pc[w] # "insert"
  <2>1. Removing(l) # {}
    BY <1>1, <1>3, Zenon DEF Removing
  <2> QED BY <1>1, <2>1, Born, Zenon
<1>7. \A k \in Livesources : /\ NEntries(k)' = NEntries(k) /\ NOwn(k)' = NOwn(k)
                             /\ NArgs(k)' = NArgs(k) /\ NQueued(k)' = NQueued(k)
  BY <1>1, OthersSame, Zenon
<1>8. CASE /\ AfterRemove(w) /\ refcnt' = [refcnt EXCEPT ![l] = @ - 1]
           /\ UNCHANGED <<subscribers, nsubs, subscription>>
  <2>1. PICK label \in Labels \ {"insert", "redistribute"}, j \in Jobs \cup FreeJobs \cup {NoJob} :
               /\ Moves(w, label, j, None) /\ AtLabel(w)'
               /\ \A k \in Livesources :
                    /\ w \in Enders(k)' <=> w \in Enders(k)
                    /\ NRunning(k)' = NRunning(k)
                    /\ k = l => NRemoving(k)' = NRemoving(k) - 1
                    /\ k # l => NRemoving(k)' = NRemoving(k)
    BY <1>5, <1>8, Zenon
  <2>2. /\ refcnt' \in [Livesources -> Int] /\ refcnt'[l] = refcnt[l] - 1
        /\ \A k \in Livesources : k # l => refcnt'[k] = refcnt[k]
    BY <1>4, <1>8
  <2>3. ASSUME NEW k \in Livesources
        PROVE  refcnt'[k] = References(k)' /\ (mountpoint[k] = None => refcnt'[k] = 0)
    <3>1. NSubs(k)' = NSubs(k)
      BY <1>8, OthersSame, Zenon
    <3>2. CASE k = l
      <4>1. NRemoving(k)' = NRemoving(k) - 1 /\ refcnt'[k] = refcnt[k] - 1
        BY <2>1, <2>2, <3>2, Zenon
      <4>2. refcnt'[k] = References(k)'
        BY <1>7, <2>1, <3>1, <4>1, Ledger, Zenon DEF References, SumLaw
      <4> QED BY <1>6, <3>2, <4>2, Zenon
    <3>3. CASE k # l
      <4>1. References(k)' = References(k)
        BY <1>7, <2>1, <3>1, <3>3, Zenon DEF References
      <4> QED BY <2>2, <3>3, <4>1, Zenon DEF Premises, IInv, SourceInv
    <3> QED BY <3>2, <3>3
  <2> QED BY <1>1, <1>4, <1>6, <1>8, <2>1, <2>2, <2>3, MoveStep, Zenon
<1>9. CASE /\ AfterRemove(w) /\ refcnt' = [refcnt EXCEPT ![l] = @ - 2]
           /\ c \in subscribers[l] /\ Remove(c, l)
  <2>1. PICK label \in Labels \ {"insert", "redistribute"}, j \in Jobs \cup FreeJobs \cup {NoJob} :
               /\ Moves(w, label, j, None) /\ AtLabel(w)'
               /\ \A v \in Workers : (pc'[v] = "insert" <=> pc[v] = "insert")
                                     /\ (pc[v] = "insert" => job'[v] = job[v])
               /\ \A k \in Livesources :
                    /\ w \in Enders(k)' <=> w \in Enders(k)
                    /\ NRunning(k)' = NRunning(k)
                    /\ k = l => NRemoving(k)' = NRemoving(k) - 1
                    /\ k # l => NRemoving(k)' = NRemoving(k)
    BY <1>5, <1>9, Zenon
  <2>2. /\ refcnt' \in [Livesources -> Int] /\ refcnt'[l] = refcnt[l] - 2
        /\ \A k \in Livesources : k # l => refcnt'[k] = refcnt[k]
    BY <1>4, <1>9
  <2>3. PICK removed \in SUBSET subscribers[l] : removed = {c} /\ Cardinality(removed) = 1
    <3>1. {c} \in SUBSET subscribers[l]
      BY <1>9
    <3>2. Cardinality({c}) = 1
      <4>1. IsFiniteSet({}) /\ Cardinality({}) = 0
        <5>1. {} \in SUBSET Clients
          OBVIOUS
        <5> QED BY <5>1, FiniteAssumption DEF Premises, PartLaw
      <4>2. {} \ {c} = {c} \ {c} /\ c \in {c} /\ c \notin {}
        OBVIOUS
      <4>3. Cardinality({c}) = Cardinality({}) + 1
        BY <4>1, <4>2, Moved, Zenon
      <4> QED BY <4>1, <4>3
    <3> QED BY <3>1, <3>2, Zenon
  <2>4. /\ subscribers' = [subscribers EXCEPT ![l] = @ \ removed]
        /\ nsubs' = [nsubs EXCEPT ![l] = @ - Cardinality(removed)]
        /\ subscription' = [d \in Clients |-> IF d \in removed THEN None ELSE subscription[d]]
    <3>1. subscription \in [Clients -> Livesources \cup {None}]
      BY Zenon DEF Premises, IInv, Types
    <3>2. /\ subscribers' = [subscribers EXCEPT ![l] = @ \ {c}]
          /\ nsubs' = [nsubs EXCEPT ![l] = @ - 1]
          /\ subscription' = [subscription EXCEPT ![c] = None]
      BY <1>9, Zenon DEF Remove
    <3> QED BY <2>3, <3>1, <3>2, Zenon
  <2>5. /\ subscribers' \in [Livesources -> SUBSET Clients]
        /\ nsubs' \in [Livesources -> Int]
        /\ subscription' \in [Clients -> Livesources \cup {None}]
        /\ Inserting' /\ SubscribedWhereListed' /\ NsubsExact'
        /\ NSubs(l)' = NSubs(l) - 1
        /\ \A k \in Livesources : k # l => NSubs(k)' = NSubs(k)
    <3>1. \A v \in Workers : (pc'[v] = "insert" <=> pc[v] = "insert")
                             /\ (pc[v] = "insert" => job'[v] = job[v])
      BY <2>1, Zenon
    <3> QED BY <2>3, <2>4, <3>1, Unlisted, ZenonT(30)
  <2>6. ASSUME NEW k \in Livesources
        PROVE  refcnt'[k] = References(k)' /\ (mountpoint[k] = None => refcnt'[k] = 0)
    <3>1. CASE k = l
      <4>1. /\ NRemoving(k)' = NRemoving(k) - 1 /\ NSubs(k)' = NSubs(k) - 1
            /\ refcnt'[k] = refcnt[k] - 2
        BY <2>1, <2>2, <2>5, <3>1, Zenon
      <4>2. refcnt'[k] = References(k)'
        BY <1>7, <2>1, <4>1, Ledger, Zenon DEF References, SumLaw
      <4> QED BY <1>6, <3>1, <4>2, Zenon
    <3>2. CASE k # l
      <4>1. References(k)' = References(k)
        BY <1>7, <2>1, <2>5, <3>2, Zenon DEF References
      <4> QED BY <2>2, <3>2, <4>1, Zenon DEF Premises, IInv, SourceInv
    <3> QED BY <3>1, <3>2, Zenon
  <2>7. label \in Labels \ {"redistribute"}
    BY Zenon
  <2> QED BY <1>1, <1>4, <2>1, <2>2, <2>5, <2>6, <2>7, Carry, Zenon
<1>10. CASE UNCHANGED <<subVars, refcnt, workerVars>>
  BY <1>1, <1>10, Stutter, Zenon DEF subVars, workerVars, invVars
<1> QED BY <1>3, <1>8, <1>9, <1>10, Zenon DEF RemoveSubscription, subVars

\* add_subscriber, under the lock of the source
LEMMA InsertStep ==
    ASSUME Premises, NEW w \in Workers, InsertSubscriber(w)
    PROVE  IInv'
<1>1. /\ pc[w] = "insert" /\ pc' = [pc EXCEPT ![w] = "unref"]
      /\ UNCHANGED <<hash, mountpoint, own, args, jobq, job, cap, subscription>>
  BY Zenon DEF InsertSubscriber, Goto, tableVars, ownerVars
<1>2. /\ job[w] \in Jobs \cup FreeJobs \cup {NoJob} /\ job[w] \in Jobs
      /\ job[w].st \in Clients /\ job[w].ls \in Livesources
      /\ cap[w] \in Livesources \cup {None}
  BY <1>1, WorkerFacts, JobFacts, Zenon DEF AtLabel
<1>3. PICK l \in Livesources, c \in Clients : l = job[w].ls /\ c = job[w].st
  BY <1>2, Zenon
<1>4. /\ subscribers' = [subscribers EXCEPT ![l] = @ \cup {c}]
      /\ nsubs' = [nsubs EXCEPT ![l] = @ + 1]
      /\ refcnt' = [refcnt EXCEPT ![l] = @ + 1]
      /\ Moves(w, "unref", job[w], cap[w])
  BY <1>1, <1>3, WorkerFacts, Zenon DEF InsertSubscriber, Moves
<1>5. "unref" \in Labels \ {"redistribute"} /\ "unref" \in Labels
  BY DEF Labels
<1>6. /\ pc'[w] = "unref" /\ job'[w] = job[w] /\ cap'[w] = cap[w]
      /\ \A v \in Workers : v # w => pc'[v] = pc[v] /\ job'[v] = job[v] /\ cap'[v] = cap[v]
  BY <1>2, <1>4, <1>5, MovesFacts, Zenon
<1>7. AtLabel(w)'
  BY <1>2, <1>6, Zenon DEF AtLabel
<1>8. /\ subscribers \in [Livesources -> SUBSET Clients] /\ nsubs \in [Livesources -> Int]
      /\ refcnt \in [Livesources -> Int]
      /\ subscription \in [Clients -> Livesources \cup {None}]
      /\ Inserting /\ SubscribedWhereListed /\ NsubsExact /\ None \notin Livesources
  BY NoneAssumption, Zenon DEF Premises, IInv, Types
<1>9. /\ subscribers' \in [Livesources -> SUBSET Clients] /\ nsubs' \in [Livesources -> Int]
      /\ refcnt' \in [Livesources -> Int]
      /\ subscribers'[l] = subscribers[l] \cup {c} /\ nsubs'[l] = nsubs[l] + 1
      /\ refcnt'[l] = refcnt[l] + 1
      /\ \A k \in Livesources : k # l =>
           subscribers'[k] = subscribers[k] /\ nsubs'[k] = nsubs[k] /\ refcnt'[k] = refcnt[k]
  BY <1>4, <1>8
<1>10. subscription[c] = l /\ c \notin subscribers[l]
  BY <1>1, <1>3, <1>8, Zenon DEF Inserting
<1>11. Inserting'
  <2>1. ASSUME NEW v \in Workers, pc'[v] = "insert"
        PROVE  /\ v # w /\ pc[v] = "insert" /\ job'[v] = job[v]
               /\ job[v].st # c /\ job[v].ls \in Livesources
    <3>1. v # w /\ pc[v] = "insert" /\ job'[v] = job[v]
      BY <1>6, <2>1, Zenon
    <3>2. job[v].st # c
      BY <1>1, <1>3, <1>8, <3>1, Zenon DEF Inserting
    <3>3. job[v].ls \in Livesources
      BY <3>1, AtLabelFacts, JobFacts, Zenon DEF AtLabel
    <3> QED BY <3>1, <3>2, <3>3, Zenon
  <2>2. ASSUME NEW v \in Workers, pc'[v] = "insert"
        PROVE  /\ subscription'[job'[v].st] = job'[v].ls
               /\ job'[v].st \notin subscribers'[job'[v].ls]
    <3>1. /\ v # w /\ pc[v] = "insert" /\ job'[v] = job[v]
          /\ job[v].st # c /\ job[v].ls \in Livesources
      BY <2>1, <2>2, Zenon
    <3>2. subscription[job[v].st] = job[v].ls /\ job[v].st \notin subscribers[job[v].ls]
      BY <1>8, <3>1, Zenon DEF Inserting
    <3>3. job[v].st \notin subscribers'[job[v].ls]
      BY <1>9, <3>1, <3>2, Zenon
    <3> QED BY <1>1, <3>1, <3>2, <3>3, Zenon
  <2>3. ASSUME NEW u \in Workers, NEW v \in Workers,
               pc'[u] = "insert", pc'[v] = "insert", job'[u].st = job'[v].st
        PROVE  u = v
    <3>1. pc[u] = "insert" /\ pc[v] = "insert" /\ job[u].st = job[v].st
      BY <1>1, <2>1, <2>3, Zenon
    <3> QED BY <1>8, <3>1, Zenon DEF Inserting
  <2> QED BY <2>2, <2>3, Zenon DEF Inserting
<1>12. SubscribedWhereListed'
  <2>1. ASSUME NEW d \in Clients, NEW k \in Livesources, d \in subscribers'[k]
        PROVE  subscription'[d] = k
    <3>1. d \in subscribers[k] \/ (d = c /\ k = l)
      BY <1>9, <2>1, Zenon
    <3> QED BY <1>1, <1>8, <1>10, <3>1, Zenon DEF SubscribedWhereListed
  <2>2. ASSUME NEW d \in Clients, subscription'[d] # None
        PROVE  \/ d \in subscribers'[subscription'[d]]
               \/ \E v \in Workers :
                    pc'[v] = "insert" /\ job'[v].st = d /\ job'[v].ls = subscription'[d]
    <3>1. subscription'[d] = subscription[d] /\ subscription[d] \in Livesources
      BY <1>1, <1>8, <2>2, Zenon
    <3>2. \/ d \in subscribers[subscription[d]]
          \/ \E v \in Workers : pc[v] = "insert" /\ job[v].st = d /\ job[v].ls = subscription[d]
      BY <1>8, <2>2, <3>1, Zenon DEF SubscribedWhereListed
    <3>3. CASE d \in subscribers[subscription[d]]
      BY <1>9, <3>1, <3>3, Zenon
    <3>4. ASSUME NEW v \in Workers, pc[v] = "insert", job[v].st = d,
                 job[v].ls = subscription[d], v # w
          PROVE  pc'[v] = "insert" /\ job'[v].st = d /\ job'[v].ls = subscription'[d]
      BY <1>6, <3>1, <3>4, Zenon
    <3>5. ASSUME job[w].st = d, job[w].ls = subscription[d]
          PROVE  d \in subscribers'[subscription'[d]]
      <4>1. d = c /\ subscription'[d] = l
        BY <1>3, <3>1, <3>5, Zenon
      <4>2. c \in subscribers'[l]
        BY <1>9, Zenon
      <4> QED BY <4>1, <4>2, Zenon
    <3> QED BY <3>2, <3>3, <3>4, <3>5, Zenon
  <2> QED BY <2>1, <2>2, Zenon DEF SubscribedWhereListed
<1>13. Cardinality(subscribers'[l]) = Cardinality(subscribers[l]) + 1
  <2>1. subscribers[l] \ {c} = subscribers'[l] \ {c} /\ c \in subscribers'[l]
    BY <1>9, Zenon
  <2>2. IsFiniteSet(subscribers[l])
    BY Finite, Zenon
  <2>3. ASSUME NEW B, subscribers[l] \ {c} = B \ {c}, c \in B
        PROVE  Cardinality(B) = Cardinality(subscribers[l]) + 1
    BY <1>10, <2>2, <2>3, Moved, Zenon
  <2> QED BY <2>1, <2>3, Zenon
<1>14. NsubsExact'
  <2>1. nsubs'[l] = Cardinality(subscribers'[l])
    BY <1>8, <1>9, <1>13, Zenon DEF NsubsExact
  <2> QED BY <1>8, <1>9, <2>1, Zenon DEF NsubsExact
<1>15. ASSUME NEW k \in Livesources
       PROVE  /\ w \in Enders(k)' <=> w \in Enders(k)
              /\ refcnt'[k] = References(k)'
              /\ mountpoint[k] = None => refcnt'[k] = 0
  <2>1. /\ w \in Running(k)' <=> w \in Running(k)
        /\ w \in Removing(k)' <=> w \in Removing(k)
        /\ w \in Enders(k)' <=> w \in Enders(k)
        /\ k = l => w \in Running(k)
    BY <1>1, <1>3, <1>6, Zenon DEF Running, Removing, Enders
  <2>2. /\ NRunning(k)' = NRunning(k) /\ NRemoving(k)' = NRemoving(k)
        /\ NEntries(k)' = NEntries(k) /\ NOwn(k)' = NOwn(k)
        /\ NArgs(k)' = NArgs(k) /\ NQueued(k)' = NQueued(k)
    BY <1>1, <1>6, <2>1, WorkerMove, OthersSame, Zenon
  <2>3. CASE k = l
    <3>1. NSubs(k)' = NSubs(k) + 1 /\ refcnt'[k] = refcnt[k] + 1
      BY <1>9, <1>13, <2>3, Zenon DEF NSubs
    <3>2. refcnt'[k] = References(k)'
      BY <2>2, <3>1, Ledger, Zenon DEF References, SumLaw
    <3>3. mountpoint[k] # None
      BY <2>1, <2>3, Born, Zenon
    <3> QED BY <2>1, <3>2, <3>3, Zenon
  <2>4. CASE k # l
    <3>1. NSubs(k)' = NSubs(k)
      BY <1>9, <2>4, Zenon DEF NSubs
    <3>2. References(k)' = References(k)
      BY <2>2, <3>1, Zenon DEF References
    <3> QED BY <1>9, <2>1, <2>4, <3>2, Zenon DEF Premises, IInv, SourceInv
  <2> QED BY <2>3, <2>4, Zenon
<1>16. subscription' \in [Clients -> Livesources \cup {None}]
  BY <1>1, <1>8, Zenon
<1> QED BY <1>1, <1>2, <1>4, <1>5, <1>7, <1>9, <1>11, <1>12, <1>14, <1>15, <1>16, Carry, Zenon

\* A source takes itself out of the table.
LEMMA DeleteStep ==
    ASSUME Premises, NEW w \in Workers, DeleteFromTable(w)
    PROVE  IInv'
<1>1. /\ pc[w] = "delete" /\ pc' = [pc EXCEPT ![w] = "end"]
      /\ UNCHANGED <<mountpoint, own, args, jobq, job, cap, subscribers, nsubs, subscription>>
  BY Zenon DEF DeleteFromTable, Goto, ownerVars, subVars
<1>2. /\ job[w] \in Jobs \cup FreeJobs \cup {NoJob} /\ job[w] \in SourceJobs
      /\ job[w].ls \in Livesources /\ cap[w] \in Livesources \cup {None}
  BY <1>1, WorkerFacts, JobFacts, Zenon DEF AtLabel
<1>3. PICK l \in Livesources : l = job[w].ls
  BY <1>2, Zenon
<1>4. w \in Enders(l)
  BY <1>1, <1>3, Zenon DEF Enders
<1>5. NOwn(l) = 0 /\ NEnding(l) = 0 /\ NEnders(l) = 1 /\ Future(l) = 1
  BY <1>4, OneFuture, Zenon
<1>6. mountpoint[l] # None /\ hash[mountpoint[l]] = l
  BY <1>5, Zenon DEF Premises, IInv, SourceInv
<1>7. /\ hash \in [Mountpoints -> Livesources \cup {None}]
      /\ mountpoint \in [Livesources -> Mountpoints \cup {None}]
      /\ refcnt \in [Livesources -> Int] /\ None \notin Livesources
  BY NoneAssumption, Zenon DEF Premises, IInv, Types
<1>8. PICK m \in Mountpoints : m = mountpoint[l] /\ hash[m] = l
  BY <1>6, <1>7, Zenon
<1>9. /\ hash' = [hash EXCEPT ![m] = None] /\ refcnt' = [refcnt EXCEPT ![l] = @ - 1]
      /\ Moves(w, "end", job[w], cap[w])
  BY <1>1, <1>3, <1>8, WorkerFacts, Zenon DEF DeleteFromTable, Moves
<1>10. /\ pc' \in [Workers -> Labels] /\ pc'[w] = "end" /\ job'[w] = job[w]
       /\ \A v \in Workers : v # w => pc'[v] = pc[v] /\ job'[v] = job[v] /\ cap'[v] = cap[v]
  <2>1. "end" \in Labels
    BY DEF Labels
  <2> QED BY <1>2, <1>9, <2>1, MovesFacts, Zenon
<1>11. /\ hash' \in [Mountpoints -> Livesources \cup {None}]
       /\ refcnt' \in [Livesources -> Int] /\ refcnt'[l] = refcnt[l] - 1
       /\ \A k \in Livesources : k # l => refcnt'[k] = refcnt[k]
       /\ hash'[m] = None /\ \A p \in Mountpoints : p # m => hash'[p] = hash[p]
  BY <1>7, <1>9
<1>12. Types'
  BY <1>1, <1>10, <1>11, Zenon DEF Premises, IInv, Types
<1>13. \A v \in Workers : AtLabel(v)'
  <2>1. AtLabel(w)'
    BY <1>2, <1>10, Zenon DEF AtLabel
  <2> QED BY <1>10, <2>1, OtherLabels, Zenon
<1>14. Inserting' /\ SubscribedWhereListed' /\ NsubsExact'
  <2>1. \A v \in Workers : (pc'[v] = "insert" <=> pc[v] = "insert")
                           /\ (pc[v] = "insert" => job'[v] = job[v])
    BY <1>1, <1>10, Zenon
  <2> QED BY <1>1, <2>1, SubsSame, Zenon
<1>15. TableInv' /\ FetchInv'
  <2>1. TableInv'
    BY <1>1, <1>11, Zenon DEF Premises, IInv, TableInv
  <2>2. \A v \in Workers : pc'[v] = "redistribute" => pc[v] = "redistribute"
    BY <1>10, Zenon
  <2> QED BY <1>1, <2>1, <2>2, Zenon DEF Premises, IInv, FetchInv
<1>16. ASSUME NEW k \in Livesources PROVE SourceInv(k)'
  <2>1. /\ w \in Running(k)' <=> w \in Running(k)
        /\ w \in Removing(k)' <=> w \in Removing(k)
        /\ w \notin Enders(k)' /\ (w \in Enders(k) <=> k = l)
    BY <1>1, <1>3, <1>10, Zenon DEF Running, Removing, Enders
  <2>2. /\ NRunning(k)' = NRunning(k) /\ NRemoving(k)' = NRemoving(k)
        /\ k = l => NEnders(k)' = NEnders(k) - 1
        /\ k # l => NEnders(k)' = NEnders(k)
    BY <1>10, <2>1, WorkerMove, Zenon
  <2>3. /\ NOwn(k)' = NOwn(k) /\ NArgs(k)' = NArgs(k) /\ NSubs(k)' = NSubs(k)
        /\ NQueued(k)' = NQueued(k) /\ NEnding(k)' = NEnding(k)
    BY <1>1, OthersSame, Zenon
  <2>4. /\ k = l => NEntries(k)' = NEntries(k) - 1
        /\ k # l => NEntries(k)' = NEntries(k)
    <3>1. /\ (hash[m] = k <=> None = k) => NEntries(k)' = NEntries(k)
          /\ hash[m] = k /\ None # k => NEntries(k)' = NEntries(k) - 1
      BY <1>9, EntriesMove, Zenon
    <3> QED BY <1>7, <1>8, <3>1, Zenon
  <2>5. CASE k = l
    <3>1. NEntries(k)' = NEntries(k) - 1 /\ refcnt'[k] = refcnt[k] - 1
      BY <1>11, <2>4, <2>5, Zenon
    <3>2. refcnt'[k] = References(k)'
      BY <2>2, <2>3, <3>1, Ledger, Zenon DEF References, SumLaw
    <3>3. Future(k)' = 0
      <4>1. NOwn(k)' = 0 /\ NEnding(k)' = 0 /\ NEnders(k)' = 0
        BY <1>5, <2>2, <2>3, <2>5
      <4> QED BY <4>1 DEF Future
    <3>4. mountpoint'[k] # None
      BY <1>1, <1>6, <2>5, Zenon
    <3> QED BY <3>2, <3>3, <3>4 DEF SourceInv
  <2>6. CASE k # l
    <3>1. References(k)' = References(k) /\ Future(k)' = Future(k)
      BY <2>2, <2>3, <2>4, <2>6, Zenon DEF References, Future
    <3>2. SourceInv(k)
      BY Zenon DEF Premises, IInv
    <3>3. mountpoint[k] # None /\ hash[mountpoint[k]] = k => hash'[mountpoint[k]] = k
      BY <1>7, <1>8, <1>11, <2>6, Zenon
    <3> QED BY <1>1, <1>11, <2>6, <3>1, <3>2, <3>3, SourceSame, Zenon DEF SourceInv
  <2> QED BY <2>5, <2>6
<1> QED BY <1>12, <1>13, <1>14, <1>15, <1>16, Zenon DEF IInv

\* A worker takes the first job of the queue.
LEMMA PopStep ==
    ASSUME Premises, NEW w \in Workers, Pop(w)
    PROVE  IInv'
<1>1. /\ pc[w] = "idle" /\ jobq # <<>> /\ jobq' = Tail(jobq)
      /\ job' = [job EXCEPT ![w] = Head(jobq)]
      /\ pc' = [pc EXCEPT ![w] = FirstLabel(Head(jobq).type)]
      /\ UNCHANGED <<hash, mountpoint, own, args, subscribers, nsubs, subscription, cap, refcnt>>
  BY Zenon DEF Pop, Goto, tableVars, ownerVars, subVars
<1>2. jobq \in Seq(Jobs)
  BY Zenon DEF Premises, IInv, Types
<1>3. Head(jobq) \in Jobs /\ jobq' \in Seq(Jobs)
  BY <1>1, <1>2
<1>4. PICK j \in Jobs : j = Head(jobq)
  BY <1>3, Zenon
<1>5. \/ j \in ClientJobs /\ j.type \in {"add", "switch"}
      \/ j \in SourceJobs /\ j.type \in {"del", "redistribute"}
  BY JobFacts, Zenon
<1>6. PICK label : label = FirstLabel(j.type)
  OBVIOUS
<1>7. /\ j.type = "add" => label = "subscribe"
      /\ j.type = "switch" => label = "switch"
      /\ j.type = "del" => label = "delete"
      /\ j.type = "redistribute" => label = "redistribute"
  BY <1>6 DEF FirstLabel
<1>8. label \in Labels /\ label \in {"subscribe", "switch", "delete", "redistribute"}
  BY <1>5, <1>7 DEF Labels
<1>9. /\ Moves(w, label, j, cap[w]) /\ j \in Jobs \cup FreeJobs \cup {NoJob}
      /\ cap[w] \in Livesources \cup {None}
  BY <1>1, <1>4, <1>6, WorkerFacts, Zenon DEF Moves
<1>10. /\ pc' \in [Workers -> Labels] /\ job' \in [Workers -> Jobs \cup FreeJobs \cup {NoJob}]
       /\ cap' \in [Workers -> Livesources \cup {None}]
       /\ pc'[w] = label /\ job'[w] = j /\ cap'[w] = cap[w]
       /\ \A v \in Workers : v # w => pc'[v] = pc[v] /\ job'[v] = job[v] /\ cap'[v] = cap[v]
  BY <1>8, <1>9, MovesFacts, Zenon
<1>11. Types'
  BY <1>1, <1>3, <1>10, Zenon DEF Premises, IInv, Types
<1>12. \A v \in Workers : AtLabel(v)'
  <2>1. AtLabel(w)'
    BY <1>5, <1>7, <1>10, Zenon DEF AtLabel
  <2> QED BY <1>10, <2>1, OtherLabels, Zenon
<1>13. Inserting' /\ SubscribedWhereListed' /\ NsubsExact' /\ TableInv'
  <2>1. \A v \in Workers : (pc'[v] = "insert" <=> pc[v] = "insert")
                           /\ (pc[v] = "insert" => job'[v] = job[v])
    BY <1>1, <1>8, <1>10, Zenon
  <2> QED BY <1>1, <2>1, SubsSame, TableSame, Zenon
<1>14. FetchInv'
  <2>1. FetchInv
    BY Zenon DEF Premises, IInv
  <2>2. 1 \in 1..Len(jobq) /\ jobq[1] = j
    BY <1>1, <1>2, <1>4
  <2>3. ASSUME NEW i \in 1..Len(jobq')
        PROVE  i + 1 \in 1..Len(jobq) /\ jobq'[i] = jobq[i + 1]
    BY <1>1, <1>2
  <2>4. \A i \in 1..Len(jobq') : jobq'[i].type = "redistribute" => jobq'[i].ls \in args
    BY <2>1, <2>3, Zenon DEF FetchInv
  <2>5. label = "redistribute" => j.type = "redistribute" /\ j.ls \in args
    BY <1>5, <1>7, <2>1, <2>2, Zenon DEF FetchInv
  <2> QED BY <1>1, <1>10, <2>1, <2>4, <2>5, Zenon DEF FetchInv
<1>15. ASSUME NEW k \in Livesources PROVE SourceInv(k)'
  <2>1. /\ w \in Running(k)' <=> j \in Holding(k)
        /\ w \in Enders(k)' <=> j \in Ending(k)
        /\ w \notin Running(k) /\ w \notin Enders(k)
        /\ w \notin Removing(k) /\ w \notin Removing(k)'
    BY <1>1, <1>5, <1>7, <1>10, Zenon DEF Running, Removing, Enders, Holding, Ending
  <2>2. /\ j \in Holding(k) => NQueued(k)' = NQueued(k) - 1 /\ NRunning(k)' = NRunning(k) + 1
        /\ j \notin Holding(k) => NQueued(k)' = NQueued(k) /\ NRunning(k)' = NRunning(k)
        /\ j \in Ending(k) => NEnding(k)' = NEnding(k) - 1 /\ NEnders(k)' = NEnders(k) + 1
        /\ j \notin Ending(k) => NEnding(k)' = NEnding(k) /\ NEnders(k)' = NEnders(k)
        /\ NRemoving(k)' = NRemoving(k)
    <3>1. /\ j \in Holding(k) => NQueued(k)' = NQueued(k) - 1
          /\ j \notin Holding(k) => NQueued(k)' = NQueued(k)
          /\ j \in Ending(k) => NEnding(k)' = NEnding(k) - 1
          /\ j \notin Ending(k) => NEnding(k)' = NEnding(k)
      BY <1>1, <1>4, QueueMove, Zenon
    <3>2. /\ j \in Holding(k) => NRunning(k)' = NRunning(k) + 1
          /\ j \notin Holding(k) => NRunning(k)' = NRunning(k)
          /\ j \in Ending(k) => NEnders(k)' = NEnders(k) + 1
          /\ j \notin Ending(k) => NEnders(k)' = NEnders(k)
          /\ NRemoving(k)' = NRemoving(k)
      BY <1>10, <2>1, WorkerMove, Zenon
    <3> QED BY <3>1, <3>2, Zenon
  <2>3. /\ NEntries(k)' = NEntries(k) /\ NOwn(k)' = NOwn(k) /\ NArgs(k)' = NArgs(k)
        /\ NSubs(k)' = NSubs(k)
    BY <1>1, OthersSame, Zenon
  <2>4. References(k)' = References(k)
    <3>1. CASE j \in Holding(k)
      <4>1. NQueued(k)' = NQueued(k) - 1 /\ NRunning(k)' = NRunning(k) + 1
        BY <2>2, <3>1, Zenon
      <4> QED BY <2>2, <2>3, <4>1, Ledger, Zenon DEF References, SumLaw
    <3>2. CASE j \notin Holding(k)
      BY <2>2, <2>3, <3>2, Zenon DEF References
    <3> QED BY <3>1, <3>2, Zenon
  <2>5. Future(k)' = Future(k)
    <3>1. NEnding(k) \in Nat /\ NEnders(k) \in Nat /\ NOwn(k) \in Nat
      BY CountFacts, Zenon
    <3>2. CASE j \in Ending(k)
      <4>1. NEnding(k)' = NEnding(k) - 1 /\ NEnders(k)' = NEnders(k) + 1 /\ NOwn(k)' = NOwn(k)
        BY <2>2, <2>3, <3>2, Zenon
      <4> QED BY <3>1, <4>1 DEF Future
    <3>3. CASE j \notin Ending(k)
      BY <2>2, <2>3, <3>3, Zenon DEF Future
    <3> QED BY <3>2, <3>3
  <2>6. SourceInv(k)
    BY Zenon DEF Premises, IInv
  <2> QED BY <1>1, <2>4, <2>5, <2>6, Zenon DEF SourceInv
<1> QED BY <1>11, <1>12, <1>13, <1>14, <1>15, Zenon DEF IInv

\* The session that pulls a stream is started, or not.
LEMMA FetchStartStep ==
    ASSUME Premises, NEW w \in Workers, FetchStart(w)
    PROVE  IInv'
<1>1. /\ pc[w] = "redistribute" /\ Moves(w, "idle", NoJob, None)
      /\ UNCHANGED <<hash, mountpoint, jobq, subscribers, nsubs, subscription>>
  BY Zenon DEF FetchStart, Done, Goto, Moves, tableVars, subVars
<1>2. FetchInv
  BY DEF Premises, IInv
<1>3. PICK l \in Livesources : l = job[w].ls
  BY <1>1, WorkerFacts, JobFacts, Zenon DEF AtLabel
<1>4. l \in args /\ w \in Enders(l)
  BY <1>1, <1>2, <1>3, Zenon DEF FetchInv, Enders
<1>5. NOwn(l) = 0 /\ NEnding(l) = 0 /\ NEnders(l) = 1 /\ Future(l) = 1
  BY <1>4, OneFuture, Zenon
<1>6. mountpoint[l] # None /\ hash[mountpoint[l]] = l
  BY <1>5, Zenon DEF Premises, IInv, SourceInv
<1>7. \/ own' = own \cup {l} /\ refcnt' = [refcnt EXCEPT ![l] = @ + 1] /\ args' = args
      \/ own' = own /\ refcnt' = [refcnt EXCEPT ![l] = @ - 1] /\ args' = args \ {l}
      \/ own' = own /\ refcnt' = refcnt /\ args' = args
  BY <1>3, Zenon DEF FetchStart
<1>8. /\ refcnt \in [Livesources -> Int] /\ own \subseteq Livesources /\ args \subseteq Livesources
      /\ (\A i \in 1..Len(jobq) : jobq[i] \in Jobs)
      /\ NoJob \in Jobs \cup FreeJobs \cup {NoJob} /\ None \in Livesources \cup {None}
      /\ "idle" \in Labels
  BY DEF Premises, IInv, Types, Labels
<1>9. /\ pc' \in [Workers -> Labels] /\ job' \in [Workers -> Jobs \cup FreeJobs \cup {NoJob}]
      /\ cap' \in [Workers -> Livesources \cup {None}]
      /\ pc'[w] = "idle" /\ job'[w] = NoJob /\ cap'[w] = None
      /\ \A v \in Workers : v # w => pc'[v] = pc[v] /\ job'[v] = job[v] /\ cap'[v] = cap[v]
  BY <1>1, <1>8, MovesFacts, Zenon
<1>10. /\ refcnt' \in [Livesources -> Int] /\ own' \subseteq Livesources
       /\ args' \subseteq Livesources
       /\ \A k \in Livesources : k # l => /\ refcnt'[k] = refcnt[k]
                                          /\ k \in own' <=> k \in own
                                          /\ k \in args' <=> k \in args
       /\ args \ {l} \subseteq args'
  BY <1>7, <1>8
<1>11. Types'
  BY <1>1, <1>9, <1>10, Zenon DEF Premises, IInv, Types
<1>12. \A v \in Workers : AtLabel(v)'
  <2>1. AtLabel(w)'
    BY <1>9, Zenon DEF AtLabel
  <2> QED BY <1>9, <2>1, OtherLabels, Zenon
<1>13. Inserting' /\ SubscribedWhereListed' /\ NsubsExact' /\ TableInv'
  <2>1. \A v \in Workers : (pc'[v] = "insert" <=> pc[v] = "insert")
                           /\ (pc[v] = "insert" => job'[v] = job[v])
    BY <1>1, <1>9, Zenon
  <2> QED BY <1>1, <2>1, SubsSame, TableSame, Zenon
<1>14. ASSUME NEW k \in Livesources
       PROVE  /\ NRunning(k)' = NRunning(k) /\ NRemoving(k)' = NRemoving(k)
              /\ k = l => NEnders(k)' = NEnders(k) - 1
              /\ k # l => NEnders(k)' = NEnders(k)
              /\ NEntries(k)' = NEntries(k) /\ NSubs(k)' = NSubs(k)
              /\ NQueued(k)' = NQueued(k) /\ NEnding(k)' = NEnding(k)
  <2>1. /\ w \in Running(k)' <=> w \in Running(k)
        /\ w \in Removing(k)' <=> w \in Removing(k)
        /\ w \notin Enders(k)' /\ (w \in Enders(k) <=> k = l)
    BY <1>1, <1>3, <1>9, Zenon DEF Running, Removing, Enders
  <2> QED BY <1>1, <1>9, <2>1, WorkerMove, OthersSame, Zenon
<1>15. NEnders(l)' = 0 /\ NEnding(l)' = 0
  BY <1>5, <1>14
<1>16. FetchInv'
  <2>1. Enders(l)' = {}
    <3>1. Enders(l)' \in SUBSET Workers /\ Cardinality(Enders(l)') = 0
      BY <1>15, Zenon DEF Enders, NEnders
    <3> QED BY <3>1, FiniteAssumption, Zenon DEF Premises, PartLaw
  <2>2. \A v \in Workers : pc'[v] = "redistribute" =>
          v # w /\ pc[v] = "redistribute" /\ job'[v] = job[v] /\ job[v].ls # l
    BY <1>9, <2>1, Zenon DEF Enders
  <2>3. \A i \in 1..Len(jobq) : jobq[i].type = "redistribute" => jobq[i].ls # l
    <3>1. \A i \in 1..Len(jobq) : jobq[i] \notin Ending(l)
      BY <1>5, CountFacts, Zenon
    <3> QED BY <1>8, <3>1, Zenon DEF Ending
  <2> QED BY <1>1, <1>2, <1>10, <2>2, <2>3, Zenon DEF FetchInv
<1>17. ASSUME NEW k \in Livesources, k # l PROVE SourceInv(k)'
  <2>1. NOwn(k)' = NOwn(k) /\ NArgs(k)' = NArgs(k)
    BY <1>10, <1>17, Zenon DEF NOwn, NArgs, One
  <2>2. References(k)' = References(k) /\ Future(k)' = Future(k)
    BY <1>14, <1>17, <2>1, Zenon DEF References, Future
  <2>3. SourceInv(k)
    BY Zenon DEF Premises, IInv
  <2> QED BY <1>1, <1>10, <1>17, <2>2, <2>3, Zenon DEF SourceInv
<1>18. SourceInv(l)'
  <2>1. /\ NRunning(l)' = NRunning(l) /\ NRemoving(l)' = NRemoving(l)
        /\ NEntries(l)' = NEntries(l) /\ NSubs(l)' = NSubs(l) /\ NQueued(l)' = NQueued(l)
        /\ NArgs(l) = 1
    BY <1>4, <1>14, CountFacts, Zenon
  <2>2. CASE own' = own \cup {l} /\ refcnt' = [refcnt EXCEPT ![l] = @ + 1] /\ args' = args
    <3>1. NOwn(l)' = NOwn(l) + 1 /\ NArgs(l)' = NArgs(l) /\ NOwn(l)' = 1
      BY <1>5, <2>2 DEF NOwn, NArgs, One
    <3>2. refcnt'[l] = refcnt[l] + 1
      BY <1>8, <2>2, Zenon
    <3>3. refcnt'[l] = References(l)'
      BY <2>1, <3>1, <3>2, Ledger, Zenon DEF References, SumLaw
    <3>4. Future(l)' = 1
      BY <1>15, <3>1 DEF Future
    <3> QED BY <1>1, <1>6, <3>3, <3>4, Zenon DEF SourceInv
  <2>3. CASE own' = own /\ refcnt' = [refcnt EXCEPT ![l] = @ - 1] /\ args' = args \ {l}
    <3>1. NOwn(l)' = NOwn(l) /\ NArgs(l)' = NArgs(l) - 1 /\ NOwn(l)' = 0
      BY <1>5, <2>1, <2>3 DEF NOwn, NArgs, One
    <3>2. refcnt'[l] = refcnt[l] - 1
      BY <1>8, <2>3, Zenon
    <3>3. refcnt'[l] = References(l)'
      BY <2>1, <3>1, <3>2, Ledger, Zenon DEF References, SumLaw
    <3>4. Future(l)' = 0
      BY <1>15, <3>1 DEF Future
    <3> QED BY <1>1, <1>6, <3>3, <3>4, Zenon DEF SourceInv
  <2>4. CASE own' = own /\ refcnt' = refcnt /\ args' = args
    <3>1. NOwn(l)' = NOwn(l) /\ NArgs(l)' = NArgs(l) /\ NOwn(l)' = 0
      BY <1>5, <2>4, OthersSame, Zenon
    <3>2. refcnt'[l] = References(l)'
      BY <2>1, <2>4, <3>1, Ledger, Zenon DEF References
    <3>3. Future(l)' = 0
      BY <1>15, <3>1 DEF Future
    <3> QED BY <1>1, <1>6, <3>2, <3>3 DEF SourceInv
  <2> QED BY <1>7, <2>2, <2>3, <2>4, Zenon
<1> QED BY <1>11, <1>12, <1>13, <1>16, <1>17, <1>18, Zenon DEF IInv

-----------------------------------------------------------------------------
(* The theorems *)

\* At the start nothing is in the table, and nothing refers to a source.
LEMMA InitIInv == Init => IInv
<1> SUFFICES ASSUME Init PROVE IInv
  OBVIOUS
<1>1. /\ hash = [m \in Mountpoints |-> None] /\ mountpoint = [l \in Livesources |-> None]
      /\ subscribers = [l \in Livesources |-> {}] /\ nsubs = [l \in Livesources |-> 0]
      /\ refcnt = [l \in Livesources |-> 0] /\ own = {} /\ args = {}
      /\ subscription = [c \in Clients |-> None] /\ jobq = <<>>
      /\ pc = [w \in Workers |-> "idle"] /\ job = [w \in Workers |-> NoJob]
      /\ cap = [w \in Workers |-> None]
  BY Zenon DEF Init
<1>2. Types
  BY <1>1 DEF Types, Labels
<1>3. /\ \A w \in Workers : pc[w] = "idle"
      /\ \A m \in Mountpoints : hash[m] = None
      /\ \A c \in Clients : subscription[c] = None
      /\ \A l \in Livesources : /\ mountpoint[l] = None /\ subscribers[l] = {}
                                /\ nsubs[l] = 0 /\ refcnt[l] = 0
      /\ \A i \in 1..Len(jobq) : FALSE
  BY <1>1
<1>4. (\A w \in Workers : AtLabel(w)) /\ Inserting /\ TableInv /\ FetchInv
  BY <1>3, Zenon DEF AtLabel, Inserting, TableInv, FetchInv
<1>5. Cardinality({}) = 0
  BY FS_EmptySet, Zenon
<1>6. NsubsExact /\ SubscribedWhereListed
  BY <1>3, <1>5, Zenon DEF NsubsExact, SubscribedWhereListed
<1>7. ASSUME NEW l \in Livesources PROVE SourceInv(l)
  <2>1. /\ Entries(l) = {} /\ Running(l) = {} /\ Removing(l) = {} /\ Enders(l) = {}
        /\ PlacesIn(jobq, Holding(l)) = {} /\ PlacesIn(jobq, Ending(l)) = {}
    BY <1>3, NoneAssumption, Zenon DEF Entries, Running, Removing, Enders, PlacesIn
  <2>2. /\ NEntries(l) = 0 /\ NRunning(l) = 0 /\ NRemoving(l) = 0 /\ NEnders(l) = 0
        /\ NQueued(l) = 0 /\ NEnding(l) = 0 /\ NSubs(l) = 0
    BY <1>3, <1>5, <2>1, Zenon
       DEF NEntries, NRunning, NRemoving, NEnders, NQueued, NEnding, NSubs, CountIn
  <2>3. NOwn(l) = 0 /\ NArgs(l) = 0
    BY <1>1 DEF NOwn, NArgs, One
  <2> QED BY <1>3, <2>2, <2>3 DEF SourceInv, References, Total, Future
<1> QED BY <1>2, <1>4, <1>6, <1>7, Zenon DEF IInv

\* Every step keeps the invariant.
LEMMA NextIInv == IInv /\ [Next]_vars => IInv'
<1> SUFFICES ASSUME IInv, [Next]_vars PROVE IInv'
  OBVIOUS
<1>1. Premises
  BY SetsCounted, QueuesCounted, Zenon DEF Premises
<1>2. CASE UNCHANGED vars
  BY <1>1, <1>2, Stutter, Zenon
     DEF vars, invVars, tableVars, ownerVars, workerVars, subVars
<1>3. ASSUME NEW l \in Livesources, FetchRunning(l) PROVE IInv'
  BY <1>1, <1>3, Stutter, Zenon DEF FetchRunning, invVars, ownerVars, workerVars, subVars
<1>4. ASSUME NEW c \in Clients, ClientEnd(c) PROVE IInv'
  BY <1>1, <1>4, Stutter, Zenon
     DEF ClientEnd, invVars, tableVars, ownerVars, workerVars, subVars
<1>5. CASE SessionStep
  BY <1>1, <1>3, <1>4, <1>5, ConnectedStep, UnregisterStep, SendStep, AskStep, Zenon
     DEF SessionStep
<1>6. ASSUME NEW w \in Workers, WorkerStep(w) PROVE IInv'
  BY <1>1, <1>6, PopStep, StartFreeStep, ReadStep, DerefStep, RemoveStep, SetStep,
     InsertStep, DeleteStep, EndStep, UnrefStep, FetchStartStep, Zenon DEF WorkerStep
<1> QED BY <1>2, <1>5, <1>6, Zenon DEF Next

\* The inductive invariant holds in every reachable state.
THEOREM Invariance == Spec => []IInv
  BY InitIInv, NextIInv, PTL DEF Spec

\* nsubs, which livesource_send_subscribers() and livesource_end() assert
\* against, is the length of the list of subscribers.
THEOREM SubscribersAreCounted == Spec => []NsubsExact
<1>1. IInv => NsubsExact
  BY DEF IInv
<1> QED BY <1>1, Invariance, PTL

\* st->subscription and the lists of the sources agree, but for a worker
\* between the two halves of livesource_add_subscriber().
THEOREM SubscriptionsAreListed == Spec => []SubscribedWhereListed
<1>1. IInv => SubscribedWhereListed
  BY DEF IInv
<1> QED BY <1>1, Invariance, PTL

\* The reference count of a source is the number of places that point to it,
\* so that it is freed when none is left, and not before.
THEOREM ReferencesAreCounted == Spec => []RefcntExact
<1>1. ASSUME IInv, NEW l \in Livesources
      PROVE  refcnt[l] = Cardinality({m \in Mountpoints : hash[m] = l})
                + Cardinality({l} \cap own) + Cardinality({l} \cap args)
                + Cardinality(subscribers[l]) + JobRefs(l)
                + Cardinality({w \in Workers : pc[w] = "remove" /\ cap[w] = l})
  <2>1. Premises
    BY <1>1, SetsCounted, QueuesCounted, Zenon DEF Premises
  <2>2. NQueued(l) = Cardinality({i \in DOMAIN jobq : jobq[i].ls = l /\ jobq[i].type # "redistribute"})
    <3>1. jobq \in Seq(Jobs)
      BY <1>1 DEF IInv, Types
    <3>2. DOMAIN jobq = 1..Len(jobq) /\ \A i \in 1..Len(jobq) : jobq[i] \in Jobs
      BY <3>1
    <3>3. PlacesIn(jobq, Holding(l))
            = {i \in DOMAIN jobq : jobq[i].ls = l /\ jobq[i].type # "redistribute"}
      BY <3>2, Zenon DEF PlacesIn, Holding
    <3> QED BY <3>3, Zenon DEF NQueued, CountIn
  <2>3. NRunning(l) = Cardinality({w \in Workers : /\ pc[w] \notin {"idle", "redistribute"}
                                                    /\ job[w].ls = l})
    BY Zenon DEF NRunning, Running
  <2>4. JobRefs(l) = NQueued(l) + NRunning(l)
    BY <2>2, <2>3, Zenon DEF JobRefs
  <2>5. ASSUME NEW S PROVE Cardinality({l} \cap S) = One(l \in S)
    <3>1. CASE l \in S
      <4>1. {l} \cap S = {l} /\ One(l \in S) = 1
        BY <3>1 DEF One
      <4> QED BY <4>1, FS_Singleton, Zenon
    <3>2. CASE l \notin S
      <4>1. {l} \cap S = {} /\ One(l \in S) = 0
        BY <3>2 DEF One
      <4> QED BY <4>1, FS_EmptySet, Zenon
    <3> QED BY <3>1, <3>2
  <2>6. Cardinality({l} \cap own) = NOwn(l) /\ Cardinality({l} \cap args) = NArgs(l)
    BY <2>5, Zenon DEF NOwn, NArgs
  <2>7. /\ NEntries(l) = Cardinality({m \in Mountpoints : hash[m] = l})
        /\ NSubs(l) = Cardinality(subscribers[l])
        /\ NRemoving(l) = Cardinality({w \in Workers : pc[w] = "remove" /\ cap[w] = l})
    BY Zenon DEF NEntries, Entries, NSubs, NRemoving, Removing
  <2>8. refcnt[l] = NEntries(l) + NOwn(l) + NArgs(l) + NSubs(l) + (NQueued(l) + NRunning(l))
                    + NRemoving(l)
    <3>1. refcnt[l] = References(l)
      BY <2>1, Ledger, Zenon
    <3>2. /\ NEntries(l) \in Nat /\ NOwn(l) \in Nat /\ NArgs(l) \in Nat
          /\ NSubs(l) \in Nat /\ NQueued(l) \in Nat /\ NRunning(l) \in Nat
          /\ NRemoving(l) \in Nat
      BY <2>1, CountFacts, Zenon
    <3> QED BY <3>1, <3>2 DEF References, Total
  <2> QED BY <2>4, <2>6, <2>7, <2>8, Zenon
<1>2. IInv => RefcntExact
  BY <1>1, Zenon DEF RefcntExact
<1> QED BY <1>2, Invariance, PTL

\* livesource_del() finds in the table the source it is about to delete, as
\* it asserts.
THEOREM SourcesDeleteThemselves == Spec => []DeletesItself
<1>1. ASSUME IInv, NEW w \in Workers, pc[w] = "delete"
      PROVE  hash[mountpoint[job[w].ls]] = job[w].ls
  <2>1. Premises
    BY <1>1, SetsCounted, QueuesCounted, Zenon DEF Premises
  <2>2. job[w].ls \in Livesources /\ w \in Enders(job[w].ls)
    BY <1>1, <2>1, AtLabelFacts, JobFacts, Zenon DEF AtLabel, Enders
  <2>3. Future(job[w].ls) = 1
    BY <2>1, <2>2, OneFuture, Zenon
  <2> QED BY <1>1, <2>2, <2>3, Zenon DEF IInv, SourceInv
<1>2. IInv => DeletesItself
  BY <1>1, Zenon DEF DeletesItself
<1> QED BY <1>2, Invariance, PTL

=============================================================================
