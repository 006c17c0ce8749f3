---------------------------- MODULE JobListLife -----------------------------
(***************************************************************************)
(* The life of a session: what its invariant says of a state, how a step   *)
(* of a thread changes what it counts, and the proof that every step keeps *)
(* it: first the steps which move a reference to a session, or its         *)
(* release, from one place to the next, then the others.  The conclusions  *)
(* are in JobListTheorems.                                                 *)
(***************************************************************************)
EXTENDS JobListInv, TLAPS

-----------------------------------------------------------------------------
(* What the invariants say of one state *)

\* What is appended to a queue is in it.
LEMMA OccursLast ==
    ASSUME NEW S, NEW q \in Seq(S), NEW x \in S
    PROVE  Occurs(Append(q, x), x)
<1>1. /\ Len(q) + 1 \in 1..Len(Append(q, x))
      /\ Append(q, x)[Len(q) + 1] = x
  OBVIOUS
<1> QED BY <1>1, Zenon DEF Occurs

\* The types of what the threads and the sessions have.
LEMMA ThreadTypes ==
    ASSUME Premises
    PROVE  /\ pc \in [Threads -> Labels \cup {"loop", "signal"}]
           /\ hand \in [Threads -> Sessions \cup {NoOne}]
           /\ job \in [Threads -> UnlockedJobs \cup {NoJob}]
           /\ Workers \subseteq Threads /\ Loops \subseteq Threads
           /\ Workers \cap Loops = {}
           /\ NoOne \notin Threads /\ NoOne \notin Sessions
<1>1. TypeOK
  BY DEF Premises, FullInv, IInv
<1> QED BY <1>1, ThreadsAssumption DEF TypeOK, Threads

LEMMA SessionTypes ==
    ASSUME Premises
    PROVE  /\ bev \in [Sessions -> Threads \cup {NoOne}]
           /\ newjobs \in [Sessions -> {-1, 0}]
           /\ ended \in [Sessions -> BOOLEAN] /\ freed \in [Sessions -> BOOLEAN]
           /\ refcnt \in [Sessions -> Int]
<1>1. TypeOK
  BY DEF Premises, FullInv, IInv
<1> QED BY <1>1 DEF TypeOK

\* A thread has a session at hand where it uses one.
LEMMA AtHand ==
    ASSUME Premises
    PROVE  /\ \A t \in Threads :
                pc[t] \in BevLabels \cup {"bev", "free1"} => hand[t] \in Sessions
           /\ \A w \in Workers :
                pc[w] \in {"ref", "unref", "free"} => job[w].st \in Sessions
<1>1. PcInv
  BY DEF Premises, FullInv, IInv
<1> QED BY <1>1 DEF PcInv, BevLabels, Labels, Threads

LEMMA QueueTypes ==
    ASSUME Premises
    PROVE  /\ jobq \in Seq(UnlockedJobs) /\ append_jobq \in Seq(UnlockedJobs)
           /\ free_queue \in Seq(Sessions)
           /\ st_jobq \in [Sessions -> Seq(JobKinds)]
<1>1. TypeOK
  BY DEF Premises, FullInv, IInv
<1> QED BY <1>1, Zenon DEF TypeOK

\* A thread has no session in its hand where it does not use one.
LEMMA NoHand ==
    ASSUME Premises, NEW t \in Threads, pc[t] \notin BevLabels \cup {"bev", "free1"}
    PROVE  hand[t] = NoOne
  BY Zenon DEF Premises, FullInv, SessionInv, HoldInv

\* The counts are naturals.
LEMMA CountNats ==
    ASSUME Premises, NEW s \in Sessions
    PROVE  /\ Waiting(RefJob(s)) \in Nat /\ Waiting(FreeJob(s)) \in Nat
           /\ Count(free_queue, s) \in Nat
           /\ Cardinality(Reffing(s)) \in Nat /\ Cardinality(Freeing(s)) \in Nat
           /\ Cardinality(Reaping(s)) \in Nat
           /\ Holding(s) \in Nat /\ Leaving(s) \in Nat /\ Gone(s) \in Nat
<1>1. /\ jobq \in Seq(UnlockedJobs) /\ append_jobq \in Seq(UnlockedJobs)
      /\ free_queue \in Seq(Sessions)
  BY QueueTypes
<1>2. ASSUME NEW j PROVE Waiting(j) \in Nat
  <2>1. Count(jobq, j) \in Nat /\ Count(append_jobq, j) \in Nat
    BY <1>1 DEF Premises, CountLaws, QueueLaw
  <2> QED BY <2>1 DEF Waiting
<1>3. Count(free_queue, s) \in Nat
  BY <1>1 DEF Premises, CountLaws, QueueLaw
<1>4. /\ Cardinality(Reffing(s)) \in Nat /\ Cardinality(Freeing(s)) \in Nat
      /\ Cardinality(Reaping(s)) \in Nat
  <2>1. /\ Reffing(s) \in SUBSET Workers /\ Freeing(s) \in SUBSET Workers
        /\ Reaping(s) \in SUBSET Workers
    BY DEF Reffing, Freeing, Reaping
  <2> QED BY <2>1, WorkersAssumption DEF Premises, CountLaws, PartLaw
<1>5. One(freed[s]) \in Nat
  BY DEF One
<1>6. Holding(s) \in Nat /\ Leaving(s) \in Nat
  BY <1>2, <1>4 DEF Holding, Leaving
<1>7. Gone(s) \in Nat
  BY <1>3, <1>4, <1>5 DEF Gone
<1> QED BY <1>2, <1>3, <1>4, <1>6, <1>7

\* What is counted as zero is not there.
LEMMA CountZero ==
    ASSUME Premises, NEW s \in Sessions
    PROVE  /\ \A j : Waiting(j) = 0 =>
                /\ \A i \in 1..Len(jobq) : jobq[i] # j
                /\ \A i \in 1..Len(append_jobq) : append_jobq[i] # j
           /\ Count(free_queue, s) = 0 <=> ~Occurs(free_queue, s)
           /\ Cardinality(Reffing(s)) = 0 => Reffing(s) = {}
           /\ Cardinality(Freeing(s)) = 0 => Freeing(s) = {}
           /\ Cardinality(Reaping(s)) = 0 => Reaping(s) = {}
<1>1. /\ jobq \in Seq(UnlockedJobs) /\ append_jobq \in Seq(UnlockedJobs)
      /\ free_queue \in Seq(Sessions)
  BY QueueTypes
<1>2. ASSUME NEW j, Waiting(j) = 0
      PROVE  /\ \A i \in 1..Len(jobq) : jobq[i] # j
             /\ \A i \in 1..Len(append_jobq) : append_jobq[i] # j
  <2>1. Count(jobq, j) \in Nat /\ (Count(jobq, j) = 0 => \A i \in 1..Len(jobq) : jobq[i] # j)
    BY <1>1 DEF Premises, CountLaws, QueueLaw
  <2>2. /\ Count(append_jobq, j) \in Nat
        /\ Count(append_jobq, j) = 0 => \A i \in 1..Len(append_jobq) : append_jobq[i] # j
    BY <1>1 DEF Premises, CountLaws, QueueLaw
  <2>3. Count(jobq, j) = 0 /\ Count(append_jobq, j) = 0
    BY <1>2, <2>1, <2>2 DEF Waiting
  <2> QED BY <2>1, <2>2, <2>3, Zenon
<1>3. Count(free_queue, s) = 0 <=> ~Occurs(free_queue, s)
  BY <1>1, Zenon DEF Premises, CountLaws, QueueLaw, Occurs
<1>4. ASSUME NEW W \in SUBSET Workers PROVE Cardinality(W) = 0 => W = {}
  BY WorkersAssumption DEF Premises, CountLaws, PartLaw
<1>5. /\ Reffing(s) \in SUBSET Workers /\ Freeing(s) \in SUBSET Workers
      /\ Reaping(s) \in SUBSET Workers
  BY DEF Reffing, Freeing, Reaping
<1> QED BY <1>2, <1>3, <1>4, <1>5, Zenon

\* A session that has a reference, or that has not ended, is not freed, nor on
\* its way; one that is freed is nowhere else.
LEMMA LifeFacts ==
    ASSUME Premises, NEW s \in Sessions
    PROVE  /\ refcnt[s] \in Nat
           /\ refcnt[s] = 0 => ended[s] /\ Reffing(s) = {}
           /\ refcnt[s] # 0 => Leaving(s) = 0 /\ Gone(s) = 0
           /\ freed[s] => /\ refcnt[s] = 0 /\ ended[s] /\ s \notin registered
                          /\ Waiting(RefJob(s)) = 0 /\ Waiting(FreeJob(s)) = 0
                          /\ Freeing(s) = {} /\ Reffing(s) = {} /\ Reaping(s) = {}
                          /\ ~Occurs(free_queue, s)
<1> DEFINE a == Waiting(RefJob(s))
           b == Cardinality(Reffing(s))
           c == Waiting(FreeJob(s))
           d == Cardinality(Freeing(s))
           e == Count(free_queue, s)
           f == Cardinality(Reaping(s))
<1>1. a \in Nat /\ b \in Nat /\ c \in Nat /\ d \in Nat /\ e \in Nat /\ f \in Nat
  BY CountNats
<1>2. /\ b = 0 => Reffing(s) = {}
      /\ d = 0 => Freeing(s) = {}
      /\ f = 0 => Reaping(s) = {}
      /\ e = 0 <=> ~Occurs(free_queue, s)
  BY CountZero
<1>3. /\ refcnt[s] = One(~ended[s]) + (a + b)
      /\ (c + d) + (e + f + One(freed[s])) = One(refcnt[s] = 0)
      /\ s \in registered <=> e + f + One(freed[s]) = 0
      /\ Leaving(s) = c + d /\ Gone(s) = e + f + One(freed[s])
  BY Zenon DEF Premises, FullInv, SessionInv, LifeInv, LifeOf, Holding, Leaving, Gone
<1>4. ended[s] \in BOOLEAN /\ freed[s] \in BOOLEAN /\ refcnt[s] \in Int
  BY SessionTypes
<1> HIDE DEF a, b, c, d, e, f
<1>5. refcnt[s] \in Nat /\ (refcnt[s] = 0 => ended[s] /\ a = 0 /\ b = 0)
  BY <1>1, <1>3, <1>4 DEF One
<1>6. refcnt[s] # 0 => Leaving(s) = 0 /\ Gone(s) = 0
  BY <1>1, <1>3, <1>4 DEF One
<1>7. freed[s] => refcnt[s] = 0 /\ s \notin registered /\ c = 0 /\ d = 0 /\ e = 0 /\ f = 0
  BY <1>1, <1>3, <1>4 DEF One
<1> QED BY <1>2, <1>5, <1>6, <1>7 DEF a, c

-----------------------------------------------------------------------------
(* What a step must keep, for each part of the invariant *)

\* A thread t moves, and takes or leaves no lock but that of the session in its
\* hand.
LEMMA HoldStep ==
    ASSUME Premises, NEW t \in Threads, OthersStay(t),
           \A s \in Sessions : bev[s] # NoOne /\ bev[s] # t => bev'[s] = bev[s],
           pc'[t] \in BevLabels => bev'[hand'[t]] = t,
           hand'[t] # NoOne => pc'[t] \in BevLabels \cup {"bev", "free1"}
    PROVE  HoldInv'
<1> SUFFICES ASSUME NEW v \in Threads, v # t
             PROVE  /\ pc'[v] \in BevLabels => bev'[hand'[v]] = v
                    /\ hand'[v] # NoOne => pc'[v] \in BevLabels \cup {"bev", "free1"}
  BY Zenon DEF HoldInv
<1>1. pc'[v] = pc[v] /\ hand'[v] = hand[v]
  BY DEF OthersStay
<1>2. pc[v] \in BevLabels => hand[v] \in Sessions /\ bev[hand[v]] = v /\ v # NoOne
  BY ThreadTypes, AtHand, Zenon DEF Premises, FullInv, SessionInv, HoldInv
<1>3. hand[v] # NoOne => pc[v] \in BevLabels \cup {"bev", "free1"}
  BY Zenon DEF Premises, FullInv, SessionInv, HoldInv
<1> QED BY <1>1, <1>2, <1>3, Zenon

\* No job is added without queueing its session, and batches go on.
LEMMA StrandedStep ==
    ASSUME Premises,
           \A s \in Sessions : st_jobq'[s] # <<>> /\ newjobs'[s] # -1 =>
                               st_jobq[s] # <<>> /\ newjobs[s] # -1,
           \A w \in Workers : pc[w] \in RunLabels =>
                              pc'[w] \in RunLabels /\ hand'[w] = hand[w]
    PROVE  NoStrandedJob'
<1> SUFFICES ASSUME NEW s \in Sessions, st_jobq'[s] # <<>>, newjobs'[s] # -1
             PROVE  \E w \in Workers : pc'[w] \in RunLabels /\ hand'[w] = s
  BY Zenon DEF NoStrandedJob, RunLabels
<1>1. st_jobq[s] # <<>> /\ newjobs[s] # -1
  BY Zenon
<1>2. PICK w \in Workers : pc[w] \in RunLabels /\ hand[w] = s
  BY <1>1, Zenon DEF Premises, FullInv, SessionInv, NoStrandedJob, RunLabels
<1> QED BY <1>2, Zenon

\* Nothing new is in the free queue, and what would serve it still will.
LEMMA ServedStep ==
    ASSUME Premises, free_queue' = free_queue,
           \A s \in Sessions : InMainQueue(s) => InMainQueue(s)',
           \A w \in Workers : pc[w] \in ServeLabels => pc'[w] \in ServeLabels
    PROVE  FreeQueueServed'
  BY Zenon DEF Premises, FullInv, SessionInv, FreeQueueServed, ServeLabels

\* A worker will look at the free queue.
LEMMA ServedByWorker ==
    ASSUME NEW w \in Workers, pc'[w] \in ServeLabels
    PROVE  FreeQueueServed'
  BY Zenon DEF FreeQueueServed, ServeLabels

\* A worker moves that runs no batch.
LEMMA StrandedMove ==
    ASSUME Premises, NEW w \in Workers, OthersStay(w), pc[w] \notin RunLabels,
           newjobs' = newjobs,
           \A s \in Sessions : st_jobq'[s] # <<>> => st_jobq[s] # <<>>
    PROVE  NoStrandedJob'
<1>1. \A v \in Workers : pc[v] \in RunLabels => pc'[v] = pc[v] /\ hand'[v] = hand[v]
  BY Zenon DEF OthersStay, Threads
<1> QED BY <1>1, StrandedStep, Zenon

\* A worker moves that would not look at the free queue.
LEMMA ServedMove ==
    ASSUME Premises, NEW w \in Workers, OthersStay(w), pc[w] \notin ServeLabels,
           UNCHANGED <<free_queue, ntrip_queue, append_queue>>
    PROVE  FreeQueueServed'
<1>1. \A v \in Workers : pc[v] \in ServeLabels => pc'[v] = pc[v]
  BY Zenon DEF OthersStay, Threads
<1>2. \A s \in Sessions : InMainQueue(s) => InMainQueue(s)'
  BY DEF InMainQueue, Occurs
<1> QED BY <1>1, <1>2, ServedStep, Zenon

\* The freed sessions stay as they are.
LEMMA FreedStay ==
    ASSUME Premises, UNCHANGED <<freed, newjobs, bev>>
    PROVE  \A s \in Sessions : StaysFreed(s)
  BY DEF StaysFreed, Premises, FullInv, SessionInv, LifeInv, LifeOf

\* What LifeOf adds up stays the same, for one session.
LEMMA SameLife ==
    ASSUME Premises, NEW s \in Sessions,
           ended'[s] = ended[s], refcnt'[s] = refcnt[s],
           s \in registered' <=> s \in registered,
           Holding(s)' = Holding(s), Leaving(s)' = Leaving(s), Gone(s)' = Gone(s),
           StaysFreed(s)
    PROVE  LifeOf(s)'
<1>1. LifeOf(s)
  BY DEF Premises, FullInv, SessionInv, LifeInv
<1> QED BY <1>1 DEF LifeOf, StaysFreed

\* Nothing that LifeInv counts changes, and no freed session is taken up again.
LEMMA LifeFrame ==
    ASSUME Premises, UNCHANGED <<ended, refcnt, registered, freed, free_queue>>,
           \A s \in Sessions :
             /\ Waiting(RefJob(s))' = Waiting(RefJob(s))
             /\ Waiting(FreeJob(s))' = Waiting(FreeJob(s))
             /\ SameWorkers(s) /\ StaysFreed(s)
    PROVE  LifeInv'
<1> SUFFICES ASSUME NEW s \in Sessions PROVE LifeOf(s)'
  BY DEF LifeInv
<1>1. Holding(s)' = Holding(s) /\ Leaving(s)' = Leaving(s)
  BY DEF Holding, Leaving, SameWorkers
<1>2. Gone(s)' = Gone(s)
  BY DEF Gone, Count, Places, SameWorkers
<1> QED BY <1>1, <1>2, SameLife, Zenon

\* The same for a step that leaves the unlocked jobs alone.
LEMMA CalmStep ==
    ASSUME Premises, UNCHANGED <<ended, refcnt, registered, freed, free_queue>>,
           UNCHANGED <<jobq, append_jobq>>,
           \A s \in Sessions : SameWorkers(s) /\ StaysFreed(s)
    PROVE  LifeInv'
<1>1. \A s \in Sessions : /\ Waiting(RefJob(s))' = Waiting(RefJob(s))
                          /\ Waiting(FreeJob(s))' = Waiting(FreeJob(s))
  BY DEF Waiting
<1> QED BY <1>1, LifeFrame

\* A worker moves: how the sets of workers at each place change.
LEMMA WorkersMove ==
    ASSUME Premises, NEW w \in Workers, OthersStay(w), NEW s
    PROVE  /\ Moves(w, Reffing(s), Reffing(s)')
           /\ Moves(w, Freeing(s), Freeing(s)')
           /\ Moves(w, Reaping(s), Reaping(s)')
<1>1. ASSUME NEW A \in SUBSET Workers, NEW B \in SUBSET Workers, A \ {w} = B \ {w}
      PROVE  Moves(w, A, B)
  <2>1. (w \in A <=> w \in B) => B = A
    BY <1>1
  <2>2. Cardinality(B) = Cardinality(A) + One(w \in B) - One(w \in A)
    BY <1>1, WorkersAssumption DEF Premises, CountLaws, PartLaw, MoveLaw
  <2>3. Cardinality(A) \in Nat
    BY WorkersAssumption DEF Premises, CountLaws, PartLaw
  <2> QED BY <2>1, <2>2, <2>3 DEF Moves, One
<1>2. \A v \in Workers : v # w =>
        pc'[v] = pc[v] /\ hand'[v] = hand[v] /\ job'[v] = job[v]
  BY DEF OthersStay, Threads
<1>3. /\ Reffing(s) \in SUBSET Workers /\ Reffing(s)' \in SUBSET Workers
      /\ Freeing(s) \in SUBSET Workers /\ Freeing(s)' \in SUBSET Workers
      /\ Reaping(s) \in SUBSET Workers /\ Reaping(s)' \in SUBSET Workers
  BY DEF Reffing, Freeing, Reaping
<1>4. Reffing(s) \ {w} = Reffing(s)' \ {w}
  BY <1>2 DEF Reffing
<1>5. Freeing(s) \ {w} = Freeing(s)' \ {w}
  BY <1>2 DEF Freeing
<1>6. Reaping(s) \ {w} = Reaping(s)' \ {w}
  BY <1>2 DEF Reaping
<1> QED BY <1>1, <1>3, <1>4, <1>5, <1>6

\* A worker moves, and neither has nor takes session s.
LEMMA Elsewhere ==
    ASSUME Premises, NEW w \in Workers, OthersStay(w), NEW s,
           w \in Reffing(s)' <=> w \in Reffing(s),
           w \in Freeing(s)' <=> w \in Freeing(s),
           w \in Reaping(s)' <=> w \in Reaping(s)
    PROVE  SameWorkers(s)
  BY WorkersMove, Zenon DEF Moves, SameWorkers

\* A worker moves between labels at which nothing is counted.
LEMMA CalmMove ==
    ASSUME Premises, NEW w \in Workers, OthersStay(w),
           pc[w] \notin {"ref", "unref", "free", "free1"},
           pc'[w] \notin {"ref", "unref", "free", "free1"},
           UNCHANGED <<ended, refcnt, registered, freed, free_queue, jobq, append_jobq>>,
           \A s \in Sessions : StaysFreed(s)
    PROVE  LifeInv'
<1>1. ASSUME NEW s \in Sessions PROVE SameWorkers(s)
  <2>1. /\ w \notin Reffing(s) /\ w \notin Freeing(s) /\ w \notin Reaping(s)
        /\ w \notin Reffing(s)' /\ w \notin Freeing(s)' /\ w \notin Reaping(s)'
    BY DEF Reffing, Freeing, Reaping
  <2> QED BY <2>1, Elsewhere, Zenon
<1> QED BY <1>1, CalmStep, Zenon

-----------------------------------------------------------------------------
(* What the helpers of JobList do to the counts *)

\* An unlocked job is appended.
LEMMA WaitingAppend ==
    ASSUME Premises, NEW x \in UnlockedJobs, AppendUnlocked(x), NEW j
    PROVE  Waiting(j)' = IF x = j THEN Waiting(j) + 1 ELSE Waiting(j)
<1>1. jobq \in Seq(UnlockedJobs) /\ append_jobq \in Seq(UnlockedJobs)
  BY QueueTypes
<1>2. Waiting(j)' = Count(jobq, j) + Count(Append(append_jobq, x), j)
  BY DEF Waiting, AppendUnlocked
<1>3. Count(jobq, j) \in Nat /\ Count(append_jobq, j) \in Nat
  BY <1>1, Zenon DEF Premises, CountLaws, QueueLaw
<1>4. Count(Append(append_jobq, x), j) = Count(append_jobq, j) + One(x = j)
  BY <1>1 DEF Premises, CountLaws, AppendLaw
<1> QED BY <1>2, <1>3, <1>4 DEF Waiting, One

\* A reference is dropped; if it was the last, the session is to be released.
LEMMA DecrefWaiting ==
    ASSUME Premises, NEW s \in Sessions, Decref(s), NEW r \in Sessions
    PROVE  /\ Waiting(RefJob(r))' = Waiting(RefJob(r))
           /\ r # s => /\ refcnt'[r] = refcnt[r]
                       /\ Waiting(FreeJob(r))' = Waiting(FreeJob(r))
           /\ r = s => /\ refcnt'[r] = refcnt[r] - 1
                       /\ Waiting(FreeJob(r))' = IF refcnt[r] = 1
                                                 THEN Waiting(FreeJob(r)) + 1
                                                 ELSE Waiting(FreeJob(r))
<1>1. IF r = s THEN refcnt'[r] = refcnt[r] - 1 ELSE refcnt'[r] = refcnt[r]
  BY SessionTypes DEF Decref
<1>2. CASE refcnt[s] = 1
  <2>1. AppendUnlocked(FreeJob(s)) /\ FreeJob(s) \in UnlockedJobs
    BY <1>2 DEF Decref, DeferredFree, FreeJob, UnlockedJobs
  <2>2. FreeJob(s) # RefJob(r) /\ (FreeJob(s) = FreeJob(r) <=> r = s)
    BY DEF FreeJob, RefJob
  <2> QED BY <1>1, <1>2, <2>1, <2>2, WaitingAppend, Zenon
<1>3. CASE refcnt[s] # 1
  <2>1. jobq' = jobq /\ append_jobq' = append_jobq
    BY <1>3 DEF Decref, unlockedVars
  <2> QED BY <1>1, <1>3, <2>1, Zenon DEF Waiting
<1> QED BY <1>2, <1>3, Zenon

\* Dropping a reference drains the queue of the session, if it was the last.
LEMMA DecrefQueues ==
    ASSUME Premises, NEW s \in Sessions, Decref(s), NEW r \in Sessions
    PROVE  /\ newjobs' = newjobs
           /\ st_jobq'[r] = st_jobq[r] \/ (r = s /\ refcnt[s] = 1 /\ st_jobq'[r] = <<>>)
<1>1. st_jobq \in [Sessions -> Seq(JobKinds)] /\ newjobs \in [Sessions -> {-1, 0}]
  BY QueueTypes, SessionTypes, Zenon
<1>2. CASE refcnt[s] = 1
  <2> DEFINE n == Len(st_jobq[s])
  <2>1. /\ st_jobq' = [st_jobq EXCEPT ![s] = <<>>]
        /\ newjobs' = [newjobs EXCEPT ![s] = DrainedNew(@, n)]
    BY <1>2, Zenon DEF Decref, DeferredFree
  <2>2. DrainedNew(newjobs[s], n) = newjobs[s]
    BY <1>1 DEF DrainedNew
  <2> HIDE DEF n
  <2>3. newjobs' = newjobs
    BY <1>1, <2>1, <2>2
  <2> QED BY <1>1, <1>2, <2>1, <2>3
<1>3. CASE refcnt[s] # 1
  BY <1>3 DEF Decref, stVars
<1> QED BY <1>2, <1>3

\* One reference less, and a release if there is none left.
LEMMA RefDropped ==
    ASSUME Premises, NEW s \in Sessions, Decref(s), refcnt[s] # 0,
           refcnt'[s] = One(~ended'[s]) + Holding(s)',
           UNCHANGED <<registered, free_queue, freed, bev>>,
           Freeing(s)' = Freeing(s), Reaping(s)' = Reaping(s)
    PROVE  LifeOf(s)'
<1>1. LifeOf(s) /\ refcnt[s] \in Nat /\ Leaving(s) = 0 /\ Gone(s) = 0
  BY LifeFacts, Zenon DEF Premises, FullInv, SessionInv, LifeInv
<1>2. /\ refcnt'[s] = refcnt[s] - 1
      /\ Waiting(FreeJob(s))' = IF refcnt[s] = 1 THEN Waiting(FreeJob(s)) + 1
                                                 ELSE Waiting(FreeJob(s))
  BY DecrefWaiting, Zenon
<1>3. newjobs' = newjobs
  BY DecrefQueues, Zenon
<1>4. Leaving(s)' = IF refcnt[s] = 1 THEN 1 ELSE 0
  <2>1. /\ Waiting(FreeJob(s)) \in Nat /\ Cardinality(Freeing(s)) \in Nat
        /\ Waiting(FreeJob(s)) + Cardinality(Freeing(s)) = 0
    BY <1>1, CountNats, Zenon DEF Leaving
  <2>2. Leaving(s)' = Waiting(FreeJob(s))' + Cardinality(Freeing(s))
    BY Zenon DEF Leaving
  <2> QED BY <1>2, <2>1, <2>2
<1>5. Gone(s)' = 0
  <2>1. Gone(s)' = Gone(s)
    BY Zenon DEF Gone, Count, Places
  <2> QED BY <1>1, <2>1, Zenon
<1>6. Leaving(s)' + Gone(s)' = One(refcnt'[s] = 0)
  BY <1>1, <1>2, <1>4, <1>5 DEF One
<1> QED BY <1>1, <1>3, <1>5, <1>6, Zenon DEF LifeOf

-----------------------------------------------------------------------------
(* The steps that move a reference or a release *)

\* A job moves from a queue to the worker that takes it.
LEMMA TakeWaiting ==
    ASSUME Premises, NEW w \in Workers, TakeUnlocked(w)
    PROVE  \/ /\ \A j : Waiting(j)' = Waiting(j)
              /\ pc' = [pc EXCEPT ![w] = "sessions"] /\ job' = [job EXCEPT ![w] = NoJob]
           \/ \E x \in UnlockedJobs :
                /\ \A j : Waiting(j)' = IF x = j THEN Waiting(j) - 1 ELSE Waiting(j)
                /\ pc' = [pc EXCEPT ![w] = x.type] /\ job' = [job EXCEPT ![w] = x]
<1> DEFINE q == IF jobq = <<>> THEN append_jobq ELSE jobq
<1>1. jobq \in Seq(UnlockedJobs) /\ append_jobq \in Seq(UnlockedJobs)
  BY QueueTypes
<1>2. append_jobq' = IF jobq = <<>> THEN <<>> ELSE append_jobq
  BY Zenon DEF TakeUnlocked
<1>3. CASE q = <<>>
  <2>1. /\ jobq = <<>> /\ append_jobq = <<>> /\ jobq' = <<>> /\ append_jobq' = <<>>
        /\ pc' = [pc EXCEPT ![w] = "sessions"] /\ job' = [job EXCEPT ![w] = NoJob]
    BY <1>3, Zenon DEF TakeUnlocked, Goto
  <2>2. ASSUME NEW j PROVE Waiting(j)' = Waiting(j)
    BY <2>1 DEF Waiting
  <2> QED BY <2>1, <2>2, Zenon
<1>4. CASE q # <<>>
  <2>1. /\ jobq' = Tail(q) /\ pc' = [pc EXCEPT ![w] = Head(q).type]
        /\ job' = [job EXCEPT ![w] = Head(q)]
    BY <1>4, Zenon DEF TakeUnlocked, Goto
  <2>2. Head(q) \in UnlockedJobs /\ q \in Seq(UnlockedJobs)
    BY <1>1, <1>4
  <2>3. ASSUME NEW j PROVE Waiting(j)' = IF Head(q) = j THEN Waiting(j) - 1 ELSE Waiting(j)
    <3>1. /\ Count(jobq, j) \in Nat /\ Count(append_jobq, j) \in Nat /\ Count(<<>>, j) = 0
          /\ Waiting(j) = Count(jobq, j) + Count(append_jobq, j)
      BY <1>1, Zenon DEF Premises, CountLaws, QueueLaw, Waiting
    <3>2. Count(Tail(q), j) = Count(q, j) - One(Head(q) = j)
      BY <1>4, <2>2 DEF Premises, CountLaws, TailLaw
    <3>3. Waiting(j)' = Count(Tail(q), j) + Count(append_jobq', j)
      BY <2>1 DEF Waiting
    <3>4. /\ Count(q, j) + Count(append_jobq', j) = Waiting(j)
          /\ Count(q, j) \in Nat /\ Count(append_jobq', j) \in Nat
      BY <1>2, <3>1
    <3> HIDE DEF q
    <3> QED BY <3>2, <3>3, <3>4 DEF One
  <2> QED BY <2>1, <2>2, <2>3, Zenon
<1> QED BY <1>3, <1>4, Zenon

\* What a worker that takes a job, or finds none, keeps besides.
LEMMA TakeKeeps ==
    ASSUME Premises, NEW w \in Workers, TakeUnlocked(w), OthersStay(w),
           pc'[w] \in {"sessions", "ref", "free", "stop"}
    PROVE  HoldInv' /\ NoStrandedJob' /\ FreeQueueServed'
<1>1. /\ pc[w] = "top" /\ w \in Threads
      /\ UNCHANGED <<mainVars, stVars, lifeVars, bev, hand>>
  BY Zenon DEF TakeUnlocked, Threads
<1>2. UNCHANGED <<free_queue, ntrip_queue, append_queue, st_jobq, newjobs>>
  BY <1>1, Zenon DEF lifeVars, mainVars, stVars
<1>3. hand'[w] = NoOne
  BY <1>1, NoHand, Zenon DEF BevLabels
<1>4. HoldInv'
  BY <1>1, <1>3, HoldStep, Zenon DEF BevLabels
<1>5. NoStrandedJob'
  BY <1>1, <1>2, StrandedMove, Zenon DEF RunLabels
<1>6. FreeQueueServed'
  BY <1>1, <1>2, ServedMove, Zenon DEF ServeLabels
<1> QED BY <1>4, <1>5, <1>6

\* An unlocked job is taken from its queue.
LEMMA TakeUnlockedStep ==
    ASSUME Premises, NEW w \in Workers, TakeUnlocked(w)
    PROVE  SessionInv'
<1>1. /\ pc[w] = "top" /\ w \in Threads
      /\ UNCHANGED <<mainVars, stVars, lifeVars, bev, hand>>
  BY Zenon DEF TakeUnlocked, Threads
<1>2. UNCHANGED <<newjobs, bev, ended, refcnt, registered, freed, free_queue>>
  BY <1>1 DEF lifeVars, stVars
<1>3. \A s \in Sessions : StaysFreed(s)
  BY <1>2, FreedStay
<1>4. CASE /\ \A j : Waiting(j)' = Waiting(j)
           /\ pc' = [pc EXCEPT ![w] = "sessions"] /\ job' = [job EXCEPT ![w] = NoJob]
  <2>1. OthersStay(w) /\ pc'[w] = "sessions"
    BY <1>1, <1>4, ThreadTypes, Zenon DEF OthersStay
  <2>2. ASSUME NEW s \in Sessions PROVE SameWorkers(s)
    <3>1. /\ w \notin Reffing(s) /\ w \notin Freeing(s) /\ w \notin Reaping(s)
          /\ w \notin Reffing(s)' /\ w \notin Freeing(s)' /\ w \notin Reaping(s)'
      BY <1>1, <2>1, Zenon DEF Reffing, Freeing, Reaping
    <3> QED BY <2>1, <3>1, Elsewhere, Zenon
  <2>3. LifeInv'
    BY <1>2, <1>3, <1>4, <2>2, LifeFrame, Zenon
  <2> QED BY <2>1, <2>3, TakeKeeps DEF SessionInv
<1>5. ASSUME NEW x \in UnlockedJobs,
             \A j : Waiting(j)' = IF x = j THEN Waiting(j) - 1 ELSE Waiting(j),
             pc' = [pc EXCEPT ![w] = x.type] /\ job' = [job EXCEPT ![w] = x]
      PROVE  SessionInv'
  <2>1. /\ OthersStay(w) /\ pc'[w] = x.type /\ job'[w] = x
        /\ x.type \in {"ref", "free", "stop"}
    BY <1>1, <1>5, ThreadTypes DEF OthersStay, UnlockedJobs, StopJob
  <2>2. ASSUME NEW s \in Sessions PROVE LifeOf(s)'
    <3>1. /\ x = RefJob(s) <=> x.type = "ref" /\ x.st = s
          /\ x = FreeJob(s) <=> x.type = "free" /\ x.st = s
      BY DEF UnlockedJobs, StopJob, RefJob, FreeJob
    <3>2. /\ w \notin Reffing(s) /\ w \notin Freeing(s) /\ w \notin Reaping(s)
          /\ w \notin Reaping(s)'
          /\ w \in Reffing(s)' <=> x = RefJob(s)
          /\ w \in Freeing(s)' <=> x = FreeJob(s)
      BY <1>1, <2>1, <3>1, Zenon DEF Reffing, Freeing, Reaping
    <3>3. /\ Moves(w, Reffing(s), Reffing(s)')
          /\ Moves(w, Freeing(s), Freeing(s)')
          /\ Moves(w, Reaping(s), Reaping(s)')
      BY <2>1, WorkersMove, Zenon
    <3>4. /\ Waiting(RefJob(s)) \in Nat /\ Waiting(FreeJob(s)) \in Nat
          /\ Cardinality(Reffing(s)) \in Nat /\ Cardinality(Freeing(s)) \in Nat
      BY CountNats, Zenon
    <3>5. Holding(s)' = Holding(s)
      BY <1>5, <3>2, <3>3, <3>4 DEF Holding, Moves
    <3>6. Leaving(s)' = Leaving(s)
      BY <1>5, <3>2, <3>3, <3>4 DEF Leaving, Moves
    <3>7. Gone(s)' = Gone(s)
      BY <1>2, <3>2, <3>3, Zenon DEF Gone, Moves, Count, Places
    <3> QED BY <1>2, <1>3, <3>5, <3>6, <3>7, SameLife, Zenon
  <2> QED BY <2>1, <2>2, TakeKeeps, Zenon DEF SessionInv, LifeInv
<1> QED BY <1>4, <1>5, TakeWaiting, Zenon

\* The reference of a job is dropped once its callback is done.
LEMMA UnrefStep ==
    ASSUME Premises, NEW w \in Workers, Unref(w)
    PROVE  SessionInv'
<1>s. PICK s \in Sessions : s = job[w].st
  BY AtHand, Zenon DEF Unref
<1>1. /\ pc[w] = "unref" /\ w \in Threads /\ Decref(s)
      /\ pc' = [pc EXCEPT ![w] = "relock"]
      /\ UNCHANGED <<mainVars, ended, registered, free_queue, freed, bev, hand, job>>
  BY <1>s, Zenon DEF Unref, Goto, Threads
<1>2. UNCHANGED <<ntrip_queue, append_queue>>
  BY <1>1, Zenon DEF mainVars
<1>3. OthersStay(w) /\ pc'[w] = "relock"
  BY <1>1, ThreadTypes, Zenon DEF OthersStay
<1>4. HoldInv'
  <2>1. hand[w] = NoOne
    BY <1>1, NoHand DEF BevLabels
  <2> QED BY <1>1, <1>3, <2>1, HoldStep, Zenon DEF BevLabels
<1>5. newjobs' = newjobs /\ \A r \in Sessions : st_jobq'[r] # <<>> => st_jobq[r] # <<>>
  BY <1>1, DecrefQueues, Zenon
<1>6. NoStrandedJob'
  BY <1>1, <1>3, <1>5, StrandedMove, Zenon DEF RunLabels
<1>7. FreeQueueServed'
  BY <1>1, <1>2, <1>3, ServedMove, Zenon DEF ServeLabels
<1>8. \A r \in Sessions : StaysFreed(r)
  BY <1>1, <1>5, FreedStay, Zenon
<1>9. ASSUME NEW r \in Sessions, r # s PROVE LifeOf(r)'
  <2>1. /\ refcnt'[r] = refcnt[r] /\ Waiting(RefJob(r))' = Waiting(RefJob(r))
        /\ Waiting(FreeJob(r))' = Waiting(FreeJob(r))
    BY <1>1, <1>9, DecrefWaiting, Zenon
  <2>2. SameWorkers(r)
    <3>1. /\ w \notin Reffing(r) /\ w \notin Freeing(r) /\ w \notin Reaping(r)
          /\ w \notin Reffing(r)' /\ w \notin Freeing(r)' /\ w \notin Reaping(r)'
      BY <1>s, <1>1, <1>3, <1>9, Zenon DEF Reffing, Freeing, Reaping
    <3> QED BY <1>3, <3>1, Elsewhere, Zenon
  <2>3. Holding(r)' = Holding(r) /\ Leaving(r)' = Leaving(r)
    BY <2>1, <2>2, Zenon DEF Holding, Leaving, SameWorkers
  <2>4. Gone(r)' = Gone(r)
    BY <1>1, <2>2, Zenon DEF Gone, Count, Places, SameWorkers
  <2> QED BY <1>1, <1>8, <2>1, <2>3, <2>4, SameLife, Zenon
<1>10. LifeOf(s)'
  <2>1. /\ w \in Reffing(s) /\ w \notin Freeing(s) /\ w \notin Reaping(s)
        /\ w \notin Reffing(s)' /\ w \notin Freeing(s)' /\ w \notin Reaping(s)'
    BY <1>s, <1>1, <1>3, Zenon DEF Reffing, Freeing, Reaping
  <2>2. /\ Cardinality(Reffing(s))' = Cardinality(Reffing(s)) - 1
        /\ Freeing(s)' = Freeing(s) /\ Reaping(s)' = Reaping(s)
    BY <1>3, <2>1, WorkersMove, Zenon DEF Moves
  <2>3. refcnt'[s] = One(~ended'[s]) + Holding(s)'
    <3>1. /\ Waiting(RefJob(s))' = Waiting(RefJob(s)) /\ refcnt'[s] = refcnt[s] - 1
          /\ One(~ended'[s]) = One(~ended[s])
      BY <1>1, DecrefWaiting, Zenon
    <3>2. /\ Waiting(RefJob(s)) \in Nat /\ Cardinality(Reffing(s)) \in Nat
          /\ One(~ended[s]) \in Nat
      BY CountNats, Zenon DEF One
    <3>3. Holding(s)' = Waiting(RefJob(s)) + (Cardinality(Reffing(s)) - 1)
      BY <2>2, <3>1, Zenon DEF Holding
    <3>4. refcnt[s] = One(~ended[s]) + (Waiting(RefJob(s)) + Cardinality(Reffing(s)))
      BY Zenon DEF Premises, FullInv, SessionInv, LifeInv, LifeOf, Holding
    <3> QED BY <3>1, <3>2, <3>3, <3>4
  <2>4. refcnt[s] # 0
    BY <2>1, LifeFacts, Zenon
  <2> QED BY <1>1, <2>2, <2>3, <2>4, RefDropped, Zenon
<1> QED BY <1>4, <1>6, <1>7, <1>9, <1>10 DEF SessionInv, LifeInv

\* A session leaves the list of sessions for the free queue.
LEMMA DeferredFree2Step ==
    ASSUME Premises, NEW w \in Workers, DeferredFree2(w)
    PROVE  SessionInv'
<1>s. PICK s \in Sessions : s = job[w].st
  BY AtHand, Zenon DEF DeferredFree2
<1>1. /\ pc[w] = "free" /\ w \in Threads /\ registered' = registered \ {s}
      /\ free_queue' = Append(free_queue, s) /\ pc' = [pc EXCEPT ![w] = "reap"]
      /\ UNCHANGED <<unlockedVars, mainVars, stVars, ended, refcnt, freed, bev, hand, job>>
  BY <1>s, Zenon DEF DeferredFree2, Goto, Threads
<1>2. UNCHANGED <<st_jobq, newjobs, jobq, append_jobq>>
  BY <1>1, Zenon DEF unlockedVars, stVars
<1>3. OthersStay(w) /\ pc'[w] = "reap"
  BY <1>1, ThreadTypes, Zenon DEF OthersStay
<1>4. HoldInv'
  <2>1. hand[w] = NoOne
    BY <1>1, NoHand, Zenon DEF BevLabels
  <2> QED BY <1>1, <1>3, <2>1, HoldStep, Zenon DEF BevLabels
<1>5. NoStrandedJob'
  BY <1>1, <1>2, <1>3, StrandedMove, Zenon DEF RunLabels
<1>6. FreeQueueServed'
  BY <1>3, ServedByWorker DEF ServeLabels
<1>7. \A r \in Sessions : LifeOf(r) /\ StaysFreed(r)
  BY <1>1, <1>2, FreedStay, Zenon DEF Premises, FullInv, SessionInv, LifeInv
<1>8. ASSUME NEW r \in Sessions
      PROVE  /\ Reffing(r)' = Reffing(r) /\ Reaping(r)' = Reaping(r)
             /\ r # s => Freeing(r)' = Freeing(r)
             /\ r = s => Cardinality(Freeing(r))' = Cardinality(Freeing(r)) - 1
  <2>1. /\ w \notin Reffing(r) /\ w \notin Reffing(r)'
        /\ w \notin Reaping(r) /\ w \notin Reaping(r)'
        /\ (w \in Freeing(r) <=> r = s) /\ w \notin Freeing(r)'
    BY <1>s, <1>1, <1>3, Zenon DEF Reffing, Freeing, Reaping
  <2> QED BY <1>3, <2>1, WorkersMove, Zenon DEF Moves
<1>9. ASSUME NEW r \in Sessions
      PROVE  Count(free_queue, r)' = IF s = r THEN Count(free_queue, r) + 1
                                              ELSE Count(free_queue, r)
  <2>1. Count(Append(free_queue, s), r) = Count(free_queue, r) + One(s = r)
    BY QueueTypes DEF Premises, CountLaws, AppendLaw
  <2>2. Count(free_queue, r) \in Nat
    BY CountNats, Zenon
  <2> QED BY <1>1, <2>1, <2>2 DEF One
<1>10. ASSUME NEW r \in Sessions PROVE Holding(r)' = Holding(r)
  BY <1>2, <1>8, Zenon DEF Holding, Waiting
<1>11. ASSUME NEW r \in Sessions, r # s PROVE LifeOf(r)'
  <2>1. Leaving(r)' = Leaving(r)
    BY <1>2, <1>8, <1>11, Zenon DEF Leaving, Waiting
  <2>2. Gone(r)' = Gone(r)
    BY <1>1, <1>8, <1>9, <1>11, Zenon DEF Gone
  <2> QED BY <1>1, <1>7, <1>10, <1>11, <2>1, <2>2, SameLife, Zenon
<1>12. LifeOf(s)'
  <2>1. Leaving(s)' = Leaving(s) - 1
    <3>1. Waiting(FreeJob(s)) \in Nat /\ Cardinality(Freeing(s)) \in Nat
      BY CountNats, Zenon
    <3>2. Waiting(FreeJob(s))' = Waiting(FreeJob(s))
      BY <1>2 DEF Waiting
    <3> QED BY <1>8, <3>1, <3>2 DEF Leaving
  <2>2. Gone(s)' = Gone(s) + 1
    <3>1. /\ Count(free_queue, s) \in Nat /\ Cardinality(Reaping(s)) \in Nat
          /\ One(freed[s]) \in Nat /\ One(freed'[s]) = One(freed[s])
      BY <1>1, CountNats, Zenon DEF One
    <3> QED BY <1>8, <1>9, <3>1 DEF Gone
  <2>3. Leaving(s)' + Gone(s)' = Leaving(s) + Gone(s) /\ Gone(s)' # 0
    BY <2>1, <2>2, CountNats
  <2>4. s \notin registered' /\ ended'[s] = ended[s] /\ refcnt'[s] = refcnt[s]
    BY <1>1, Zenon
  <2>5. refcnt'[s] = One(~ended'[s]) + Holding(s)'
    BY <1>7, <1>10, <2>4, Zenon DEF LifeOf
  <2> QED BY <1>7, <2>3, <2>4, <2>5, Zenon DEF LifeOf, StaysFreed
<1> QED BY <1>4, <1>5, <1>6, <1>11, <1>12 DEF SessionInv, LifeInv

\* What a session that moves on leaves at one place, it gains at the next.
LEMMA GoneKept ==
    ASSUME Premises, NEW w \in Workers, OthersStay(w), NEW r \in Sessions,
           Count(free_queue, r)' + One(w \in Reaping(r)') + One(freed'[r])
             = Count(free_queue, r) + One(w \in Reaping(r)) + One(freed[r]),
           Count(free_queue, r)' \in Int
    PROVE  Gone(r)' = Gone(r)
<1>1. Moves(w, Reaping(r), Reaping(r)')
  BY WorkersMove, Zenon
<1>2. Count(free_queue, r) \in Nat /\ Cardinality(Reaping(r)) \in Nat
  BY CountNats, Zenon
<1>3. /\ One(freed[r]) \in Nat /\ One(freed'[r]) \in Nat
      /\ One(w \in Reaping(r)) \in Nat /\ One(w \in Reaping(r)') \in Nat
  BY Zenon DEF One
<1>4. Cardinality(Reaping(r))'
        = Cardinality(Reaping(r)) + One(w \in Reaping(r)') - One(w \in Reaping(r))
  BY <1>1, <1>2 DEF Moves, One
<1> QED BY <1>2, <1>3, <1>4 DEF Gone

\* A session moves between the free queue, the worker that looks at it and the
\* freed ones.
LEMMA GoneSame ==
    ASSUME Premises, NEW w \in Workers, OthersStay(w),
           pc[w] \in {"reap", "free1"}, pc'[w] \notin {"ref", "unref", "free"},
           UNCHANGED <<ended, refcnt, registered, jobq, append_jobq>>,
           NEW r \in Sessions, Gone(r)' = Gone(r), StaysFreed(r)
    PROVE  LifeOf(r)'
<1>1. /\ w \notin Reffing(r) /\ w \notin Reffing(r)'
      /\ w \notin Freeing(r) /\ w \notin Freeing(r)'
  BY Zenon DEF Reffing, Freeing
<1>2. Reffing(r)' = Reffing(r) /\ Freeing(r)' = Freeing(r)
  BY <1>1, WorkersMove, Zenon DEF Moves
<1>3. Holding(r)' = Holding(r) /\ Leaving(r)' = Leaving(r)
  BY <1>2, Zenon DEF Holding, Leaving, Waiting
<1> QED BY <1>3, SameLife, Zenon

\* A worker takes the first session of the free queue.
LEMMA ReapTakeStep ==
    ASSUME Premises, NEW w \in Workers, ReapTake(w)
    PROVE  SessionInv'
<1>1. /\ pc[w] = "reap" /\ w \in Threads
      /\ UNCHANGED <<unlockedVars, mainVars, stVars, ended, refcnt, registered, freed, bev, job>>
  BY Zenon DEF ReapTake, Threads
<1>2. UNCHANGED <<ntrip_queue, append_queue, st_jobq, newjobs, jobq, append_jobq>>
  BY <1>1, Zenon DEF unlockedVars, mainVars, stVars
<1>3. \A r \in Sessions : StaysFreed(r)
  BY <1>1, <1>2, FreedStay, Zenon
<1>4. CASE free_queue = <<>>
  <2>1. /\ \E label \in {"lock", "relock"} : pc' = [pc EXCEPT ![w] = label]
        /\ UNCHANGED <<free_queue, hand>>
    BY <1>4, Zenon DEF ReapTake, AfterReap, Goto
  <2>2. OthersStay(w) /\ pc'[w] \in {"lock", "relock"} /\ hand'[w] = NoOne
    BY <1>1, <2>1, ThreadTypes, NoHand, Zenon DEF OthersStay, BevLabels
  <2>3. HoldInv'
    BY <1>1, <2>2, HoldStep, Zenon DEF BevLabels
  <2>4. NoStrandedJob'
    BY <1>1, <1>2, <2>2, StrandedMove, Zenon DEF RunLabels
  <2>5. FreeQueueServed'
    BY <1>4, <2>1 DEF FreeQueueServed
  <2>6. LifeInv'
    BY <1>1, <1>2, <1>3, <2>1, <2>2, CalmMove, Zenon
  <2> QED BY <2>3, <2>4, <2>5, <2>6 DEF SessionInv
<1>5. CASE free_queue # <<>>
  <2> DEFINE s == Head(free_queue)
  <2>1. /\ hand' = [hand EXCEPT ![w] = s] /\ free_queue' = Tail(free_queue)
        /\ pc' = [pc EXCEPT ![w] = "free1"]
    BY <1>5, Zenon DEF ReapTake, Goto
  <2>2. \A r \in Sessions : Count(Tail(free_queue), r) = Count(free_queue, r) - One(s = r)
    BY <1>5, QueueTypes DEF Premises, CountLaws, TailLaw
  <2> HIDE DEF s
  <2>3. OthersStay(w) /\ pc'[w] = "free1" /\ hand'[w] = s
    BY <1>1, <2>1, ThreadTypes, Zenon DEF OthersStay
  <2>4. HoldInv'
    BY <1>1, <2>3, HoldStep, Zenon DEF BevLabels
  <2>5. NoStrandedJob'
    BY <1>1, <1>2, <2>3, StrandedMove, Zenon DEF RunLabels
  <2>6. FreeQueueServed'
    BY <2>3, ServedByWorker, Zenon DEF ServeLabels
  <2>7. ASSUME NEW r \in Sessions PROVE Gone(r)' = Gone(r)
    <3>1. Count(free_queue, r)' = Count(free_queue, r) - One(s = r)
      BY <2>1, <2>2, Zenon
    <3>2. w \notin Reaping(r) /\ (w \in Reaping(r)' <=> s = r)
      BY <1>1, <2>3, Zenon DEF Reaping
    <3>3. Count(free_queue, r) \in Nat /\ One(freed'[r]) = One(freed[r])
      BY <1>1, CountNats, Zenon
    <3> QED BY <2>3, <3>1, <3>2, <3>3, GoneKept DEF One
  <2>8. LifeInv'
    BY <1>1, <1>2, <1>3, <2>3, <2>7, GoneSame, Zenon DEF LifeInv
  <2> QED BY <2>4, <2>5, <2>6, <2>8 DEF SessionInv
<1> QED BY <1>4, <1>5

\* A worker frees the session it took from the free queue, or puts it back.
LEMMA ReapOneStep ==
    ASSUME Premises, NEW w \in Workers, ReapOne(w)
    PROVE  SessionInv'
<1>s. PICK s \in Sessions : s = hand[w]
  BY AtHand, ThreadTypes, Zenon DEF ReapOne
<1>1. /\ pc[w] = "free1" /\ w \in Threads /\ bev[s] = NoOne
      /\ hand' = [hand EXCEPT ![w] = NoOne]
      /\ UNCHANGED <<unlockedVars, mainVars, stVars, ended, refcnt, registered, bev, job>>
  BY <1>s, Zenon DEF ReapOne, Threads
<1>2. UNCHANGED <<ntrip_queue, append_queue, st_jobq, newjobs, jobq, append_jobq>>
  BY <1>1, Zenon DEF unlockedVars, mainVars, stVars
<1>3. /\ \E label \in {"lock", "relock", "reap"} : pc' = [pc EXCEPT ![w] = label]
      /\ newjobs[s] # -1 => pc' = [pc EXCEPT ![w] = "reap"]
  BY <1>s, Zenon DEF ReapOne, AfterReap, Goto, StillQueued
<1>4. /\ newjobs[s] = -1 => free_queue' = Append(free_queue, s) /\ freed' = freed
      /\ newjobs[s] # -1 => free_queue' = free_queue /\ freed' = [freed EXCEPT ![s] = TRUE]
  BY <1>s, Zenon DEF ReapOne, StillQueued, PutBack
<1>5. /\ OthersStay(w) /\ pc'[w] \in {"lock", "relock", "reap"} /\ hand'[w] = NoOne
      /\ newjobs[s] # -1 => pc'[w] = "reap"
  BY <1>1, <1>3, ThreadTypes, Zenon DEF OthersStay
<1>6. HoldInv'
  BY <1>1, <1>5, HoldStep, Zenon DEF BevLabels
<1>7. NoStrandedJob'
  BY <1>1, <1>2, <1>5, StrandedMove, Zenon DEF RunLabels
<1>8. FreeQueueServed'
  <2>1. CASE newjobs[s] # -1
    BY <1>5, <2>1, ServedByWorker, Zenon DEF ServeLabels
  <2>2. CASE newjobs[s] = -1 /\ InMainQueue(s)
    <3>1. InMainQueue(s)'
      BY <1>2, <2>2, Zenon DEF InMainQueue, Occurs
    <3>2. Occurs(Append(free_queue, s), s)
      BY QueueTypes, OccursLast
    <3>3. Occurs(free_queue, s)'
      BY <1>4, <2>2, <3>2, Zenon DEF Occurs
    <3> QED BY <3>1, <3>3, Zenon DEF FreeQueueServed
  <2>3. CASE newjobs[s] = -1 /\ ~InMainQueue(s)
    <3>1. PICK v \in Workers : pc[v] = "bev"
      BY <2>3 DEF Premises, FullInv, IInv, QueuedOnce, Popped
    <3>2. pc'[v] = "bev"
      BY <1>1, <1>5, <3>1, ThreadTypes, Zenon DEF OthersStay
    <3> QED BY <3>2, ServedByWorker, Zenon DEF ServeLabels
  <2> QED BY <2>1, <2>2, <2>3, Zenon
<1>9. ~freed[s]
  <2>1. w \in Reaping(s)
    BY <1>s, <1>1, Zenon DEF Reaping
  <2> QED BY <2>1, LifeFacts, Zenon
<1>10. ASSUME NEW r \in Sessions PROVE StaysFreed(r)
  <2>1. freed[r] => newjobs[r] # -1 /\ bev[r] = NoOne
    BY Zenon DEF Premises, FullInv, SessionInv, LifeInv, LifeOf
  <2>2. freed'[r] => freed[r] \/ (r = s /\ newjobs[s] # -1)
    BY <1>4, SessionTypes, Zenon
  <2> QED BY <1>1, <1>2, <2>1, <2>2, Zenon DEF StaysFreed
<1>11. ASSUME NEW r \in Sessions PROVE Gone(r)' = Gone(r)
  <2>1. (w \in Reaping(r) <=> s = r) /\ w \notin Reaping(r)'
    BY <1>s, <1>1, <1>5, Zenon DEF Reaping
  <2>2. Count(free_queue, r) \in Nat
    BY CountNats, Zenon
  <2>3. CASE newjobs[s] = -1
    <3>1. Count(Append(free_queue, s), r) = Count(free_queue, r) + One(s = r)
      BY QueueTypes DEF Premises, CountLaws, AppendLaw
    <3>2. /\ Count(free_queue, r)' = Count(free_queue, r) + One(s = r)
          /\ One(freed'[r]) = One(freed[r])
      BY <1>4, <2>3, <3>1, Zenon
    <3> QED BY <1>5, <2>1, <2>2, <3>2, GoneKept DEF One
  <2>4. CASE newjobs[s] # -1
    <3>1. /\ Count(free_queue, r)' = Count(free_queue, r)
          /\ s # r => freed'[r] = freed[r]
          /\ s = r => freed'[r] /\ ~freed[r]
      BY <1>4, <1>9, <2>4, SessionTypes, Zenon
    <3> QED BY <1>5, <2>1, <2>2, <3>1, GoneKept DEF One
  <2> QED BY <2>3, <2>4, Zenon
<1>12. LifeInv'
  BY <1>1, <1>2, <1>5, <1>10, <1>11, GoneSame, Zenon DEF LifeInv
<1> QED BY <1>6, <1>7, <1>8, <1>12, Zenon DEF SessionInv

-----------------------------------------------------------------------------
(* What the helpers of JobList keep *)

\* The main queues only grow.
LEMMA MainQueueGrows ==
    ASSUME Premises, ntrip_queue' = ntrip_queue,
           \/ append_queue' = append_queue
           \/ \E s \in Sessions : append_queue' = Append(append_queue, s)
    PROVE  \A s \in Sessions : InMainQueue(s) => InMainQueue(s)'
<1>1. append_queue \in Seq(Sessions)
  BY Zenon DEF Premises, FullInv, IInv, TypeOK
<1>2. ASSUME NEW r \in Sessions, append_queue' = Append(append_queue, r),
             NEW s \in Sessions, Occurs(append_queue, s)
      PROVE  Occurs(append_queue, s)'
  <2>1. Occurs(Append(append_queue, r), s)
    BY <1>1, <1>2 DEF Occurs
  <2> QED BY <1>2, <2>1, Zenon DEF Occurs
<1> QED BY <1>2, Zenon DEF InMainQueue, Occurs

\* No worker moves between these places.
LEMMA WorkersSame ==
    ASSUME \A v \in Workers : pc'[v] = pc[v] /\ hand'[v] = hand[v] /\ job'[v] = job[v],
           NEW s
    PROVE  SameWorkers(s)
<1>1. Reffing(s)' = Reffing(s)
  BY Zenon DEF Reffing
<1>2. Freeing(s)' = Freeing(s)
  BY Zenon DEF Freeing
<1>3. Reaping(s)' = Reaping(s)
  BY Zenon DEF Reaping
<1> QED BY <1>1, <1>2, <1>3, Zenon DEF SameWorkers

\* Ending a session drains its queue or leaves it alone.
LEMMA DecrefEndQueues ==
    ASSUME Premises, NEW s \in Sessions, NEW isSource \in BOOLEAN, DecrefEnd(s, isSource)
    PROVE  /\ newjobs' = newjobs
           /\ \A r \in Sessions : st_jobq'[r] # <<>> => st_jobq[r] # <<>>
<1>1. CASE ended[s] \/ isSource
  BY <1>1, Zenon DEF DecrefEnd, stVars
<1>2. CASE ~ended[s] /\ ~isSource
  <2>1. Decref(s)
    BY <1>2, Zenon DEF DecrefEnd
  <2> QED BY <2>1, DecrefQueues, Zenon
<1> QED BY <1>1, <1>2, Zenon

\* A session ends: its own reference goes to a job, or is dropped.
LEMMA EndedLife ==
    ASSUME Premises, NEW s \in Sessions, NEW isSource \in BOOLEAN, DecrefEnd(s, isSource),
           ~ended[s], UNCHANGED <<registered, free_queue, freed, bev>>, SameWorkers(s)
    PROVE  LifeOf(s)'
<1>1. One(~ended[s]) = 1 /\ One(~ended'[s]) = 0
  <2>1. ended'[s]
    BY SessionTypes, Zenon DEF DecrefEnd
  <2> QED BY <2>1, Zenon DEF One
<1>2. /\ Waiting(RefJob(s)) \in Nat /\ Waiting(FreeJob(s)) \in Nat
      /\ Cardinality(Reffing(s)) \in Nat
  BY CountNats, Zenon
<1>3. refcnt[s] = 1 + (Waiting(RefJob(s)) + Cardinality(Reffing(s)))
  BY <1>1, Zenon DEF Premises, FullInv, SessionInv, LifeInv, LifeOf, Holding
<1>4. Holding(s)' = Waiting(RefJob(s))' + Cardinality(Reffing(s))
  BY Zenon DEF Holding, SameWorkers
<1>5. CASE isSource
  <2>1. AppendUnlocked(RefJob(s)) /\ RefJob(s) \in UnlockedJobs /\ refcnt'[s] = refcnt[s]
    BY <1>5, Zenon DEF DecrefEnd, RefJob, UnlockedJobs
  <2>2. RefJob(s) # FreeJob(s)
    BY Zenon DEF RefJob, FreeJob
  <2>3. /\ Waiting(RefJob(s))' = Waiting(RefJob(s)) + 1
        /\ Waiting(FreeJob(s))' = Waiting(FreeJob(s))
    BY <2>1, <2>2, WaitingAppend, Zenon
  <2>4. refcnt'[s] = One(~ended'[s]) + Holding(s)'
    BY <1>1, <1>2, <1>3, <1>4, <2>1, <2>3
  <2>5. Leaving(s)' = Leaving(s)
    BY <2>3, Zenon DEF Leaving, SameWorkers
  <2>6. Gone(s)' = Gone(s)
    BY Zenon DEF Gone, Count, Places, SameWorkers
  <2>7. LifeOf(s) /\ StaysFreed(s)
    <3>1. newjobs' = newjobs
      BY DecrefEndQueues, Zenon
    <3> QED BY <3>1, FreedStay, Zenon DEF Premises, FullInv, SessionInv, LifeInv
  <2> QED BY <2>1, <2>4, <2>5, <2>6, <2>7, Zenon DEF LifeOf, StaysFreed
<1>6. CASE ~isSource
  <2>1. Decref(s)
    BY <1>6, Zenon DEF DecrefEnd
  <2>2. refcnt'[s] = refcnt[s] - 1 /\ Waiting(RefJob(s))' = Waiting(RefJob(s))
    BY <2>1, DecrefWaiting, Zenon
  <2>3. refcnt'[s] = One(~ended'[s]) + Holding(s)' /\ refcnt[s] # 0
    BY <1>1, <1>2, <1>3, <1>4, <2>2
  <2> QED BY <2>1, <2>3, RefDropped, Zenon DEF SameWorkers
<1> QED BY <1>5, <1>6, Zenon

\* The other sessions do not see it.
LEMMA OtherLife ==
    ASSUME Premises, NEW s \in Sessions, NEW isSource \in BOOLEAN, DecrefEnd(s, isSource),
           ~ended[s], UNCHANGED <<registered, free_queue, freed, bev>>,
           NEW r \in Sessions, r # s, SameWorkers(r)
    PROVE  LifeOf(r)'
<1>1. ended'[r] = ended[r]
  BY SessionTypes, Zenon DEF DecrefEnd
<1>2. /\ refcnt'[r] = refcnt[r] /\ Waiting(RefJob(r))' = Waiting(RefJob(r))
      /\ Waiting(FreeJob(r))' = Waiting(FreeJob(r))
  <2>1. CASE isSource
    <3>1. AppendUnlocked(RefJob(s)) /\ RefJob(s) \in UnlockedJobs /\ refcnt' = refcnt
      BY <2>1, Zenon DEF DecrefEnd, RefJob, UnlockedJobs
    <3>2. RefJob(s) # RefJob(r) /\ RefJob(s) # FreeJob(r)
      BY Zenon DEF RefJob, FreeJob
    <3> QED BY <3>1, <3>2, WaitingAppend, Zenon
  <2>2. CASE ~isSource
    <3>1. Decref(s)
      BY <2>2, Zenon DEF DecrefEnd
    <3> QED BY <3>1, DecrefWaiting, Zenon
  <2> QED BY <2>1, <2>2, Zenon
<1>3. Holding(r)' = Holding(r) /\ Leaving(r)' = Leaving(r)
  BY <1>2, Zenon DEF Holding, Leaving, SameWorkers
<1>4. Gone(r)' = Gone(r)
  BY Zenon DEF Gone, Count, Places, SameWorkers
<1>5. StaysFreed(r)
  <2>1. newjobs' = newjobs
    BY DecrefEndQueues, Zenon
  <2> QED BY <2>1, FreedStay, Zenon
<1> QED BY <1>1, <1>2, <1>3, <1>4, <1>5, SameLife, Zenon

\* A session ends, and no worker moves between the places that are counted.
LEMMA DecrefEndLife ==
    ASSUME Premises, NEW s \in Sessions, NEW isSource \in BOOLEAN,
           DecrefEnd(s, isSource), UNCHANGED <<registered, free_queue, freed, bev>>,
           \A r \in Sessions : SameWorkers(r)
    PROVE  LifeInv'
<1>1. CASE ended[s]
  <2>1. UNCHANGED <<ended, refcnt, jobq, append_jobq>>
    BY <1>1, Zenon DEF DecrefEnd, unlockedVars
  <2>2. newjobs' = newjobs
    BY DecrefEndQueues, Zenon
  <2> QED BY <2>1, <2>2, FreedStay, CalmStep, Zenon
<1>2. CASE ~ended[s]
  BY <1>2, EndedLife, OtherLife, Zenon DEF LifeInv
<1> QED BY <1>1, <1>2, Zenon

\* A job is appended to a session that has not ended, which is queued then.
LEMMA EnqueueKeeps ==
    ASSUME Premises, NEW s \in Sessions, NEW k \in JobKinds, Enqueue(s, k),
           ~ended[s]
    PROVE  /\ \A r \in Sessions : st_jobq'[r] # <<>> /\ newjobs'[r] # -1 =>
                                  st_jobq[r] # <<>> /\ newjobs[r] # -1
           /\ \A r \in Sessions : InMainQueue(r) => InMainQueue(r)'
           /\ \A r \in Sessions : freed[r] => r # s /\ newjobs'[r] # -1 /\ bev[r] = NoOne
<1>1. newjobs \in [Sessions -> {-1, 0}] /\ st_jobq \in [Sessions -> Seq(JobKinds)]
  BY SessionTypes, QueueTypes, Zenon
<1>2. /\ newjobs' = [newjobs EXCEPT ![s] = -1]
      /\ append_queue' = append_queue \/ append_queue' = Append(append_queue, s)
      /\ ntrip_queue' = ntrip_queue
  <2>1. CASE newjobs[s] = -1
    BY <1>1, <2>1 DEF Enqueue, NeedsInsert
  <2>2. CASE newjobs[s] = 0
    <3>1. (IF newjobs[s] >= 0 THEN newjobs[s] + 1 ELSE newjobs[s]) = 1
      BY <2>2
    <3> QED BY <3>1, Zenon DEF Enqueue, NeedsInsert
  <2> QED BY <1>1, <2>1, <2>2, Zenon
<1>3. st_jobq' = [st_jobq EXCEPT ![s] = Append(@, k)]
  BY Zenon DEF Enqueue
<1>4. \A r \in Sessions : r # s => newjobs'[r] = newjobs[r] /\ st_jobq'[r] = st_jobq[r]
  BY <1>1, <1>2, <1>3, Zenon
<1>5. newjobs'[s] = -1
  BY <1>1, <1>2, Zenon
<1>6. \A r \in Sessions : freed[r] => r # s /\ newjobs[r] # -1 /\ bev[r] = NoOne
  BY LifeFacts, Zenon DEF Premises, FullInv, SessionInv, LifeInv, LifeOf
<1>7. \A r \in Sessions : InMainQueue(r) => InMainQueue(r)'
  BY <1>2, MainQueueGrows, Zenon
<1> QED BY <1>4, <1>5, <1>6, <1>7, Zenon

-----------------------------------------------------------------------------
(* The steps in which no worker moves *)

\* Neither threads, locks, the free queue nor the jobs of sessions change.
LEMMA QuietStep ==
    ASSUME Premises, UNCHANGED <<pc, hand, job, bev, free_queue, ntrip_queue, append_queue>>,
           newjobs' = newjobs,
           \A r \in Sessions : st_jobq'[r] # <<>> => st_jobq[r] # <<>>
    PROVE  /\ HoldInv' /\ NoStrandedJob' /\ FreeQueueServed'
           /\ \A s \in Sessions : SameWorkers(s)
<1>1. HoldInv'
  BY Zenon DEF Premises, FullInv, SessionInv, HoldInv
<1>2. NoStrandedJob'
  BY StrandedStep, Zenon
<1>3. FreeQueueServed'
  BY ServedStep, Zenon DEF InMainQueue, Occurs
<1>4. \A s \in Sessions : SameWorkers(s)
  BY WorkersSame, Zenon
<1> QED BY <1>1, <1>2, <1>3, <1>4, Zenon

\* Nothing changes but the mutex and the wakeups.
LEMMA StutterStep ==
    ASSUME Premises,
           UNCHANGED <<mainVars, stVars, lifeVars, bev, threadVars, unlockedVars>>
    PROVE  SessionInv'
<1>1. UNCHANGED <<pc, hand, job, bev, free_queue, ntrip_queue, append_queue, jobq,
                  append_jobq, registered, freed, ended, refcnt, st_jobq, newjobs>>
  BY Zenon DEF mainVars, threadVars, lifeVars, stVars, unlockedVars
<1>2. /\ HoldInv' /\ NoStrandedJob' /\ FreeQueueServed'
      /\ \A r \in Sessions : SameWorkers(r)
  BY <1>1, QuietStep, Zenon
<1> QED BY <1>1, <1>2, FreedStay, CalmStep, Zenon DEF SessionInv

\* A loop moves, and what waits is served as before.
LEMMA LoopMove ==
    ASSUME Premises, NEW l \in Loops, OthersStay(l),
           UNCHANGED <<free_queue, jobq, append_jobq, ended, refcnt, registered, freed>>,
           \A s \in Sessions : st_jobq'[s] # <<>> /\ newjobs'[s] # -1 =>
                               st_jobq[s] # <<>> /\ newjobs[s] # -1,
           \A s \in Sessions : InMainQueue(s) => InMainQueue(s)',
           \A s \in Sessions : StaysFreed(s)
    PROVE  NoStrandedJob' /\ FreeQueueServed' /\ LifeInv'
<1>1. \A v \in Workers : pc'[v] = pc[v] /\ hand'[v] = hand[v] /\ job'[v] = job[v]
  BY ThreadTypes, Zenon DEF OthersStay
<1>2. NoStrandedJob'
  BY <1>1, StrandedStep, Zenon
<1>3. FreeQueueServed'
  BY <1>1, ServedStep, Zenon
<1>4. \A s \in Sessions : SameWorkers(s)
  BY <1>1, WorkersSame, Zenon
<1>5. LifeInv'
  BY <1>4, CalmStep, Zenon
<1> QED BY <1>2, <1>3, <1>5, Zenon

\* A libevent callback appends a job to its session, or drops it.
LEMMA LoopAppendStep ==
    ASSUME Premises, NEW l \in Loops, NEW s \in Sessions, NEW k \in LibeventJobs(s),
           LoopAppend(l, s, k)
    PROVE  SessionInv'
<1>1. CASE Dropped(s, k)
  <2>1. UNCHANGED <<mainVars, stVars, lifeVars, bev, threadVars, unlockedVars>>
    BY <1>1, Zenon DEF LoopAppend, threadVars
  <2> QED BY <2>1, StutterStep, Zenon
<1>2. CASE ~Dropped(s, k)
  <2>1. /\ Enqueue(s, k) /\ k \in JobKinds /\ ~ended[s] /\ bev[s] = NoOne
        /\ bev' = [bev EXCEPT ![s] = l] /\ hand' = [hand EXCEPT ![l] = s]
        /\ pc' = [pc EXCEPT ![l] = "signal"]
        /\ UNCHANGED <<unlockedVars, lifeVars, job>>
    BY <1>2, Zenon DEF LoopAppend, Dropped, JobKinds, Goto
  <2>2. UNCHANGED <<free_queue, jobq, append_jobq, ended, refcnt, registered, freed>>
    BY <2>1, Zenon DEF lifeVars, unlockedVars
  <2>3. /\ l \in Threads /\ OthersStay(l) /\ pc'[l] = "signal" /\ hand'[l] = s
        /\ bev'[s] = l /\ \A r \in Sessions : r # s => bev'[r] = bev[r]
    BY <2>1, ThreadTypes, SessionTypes, Zenon DEF OthersStay
  <2>4. /\ \A r \in Sessions : st_jobq'[r] # <<>> /\ newjobs'[r] # -1 =>
                               st_jobq[r] # <<>> /\ newjobs[r] # -1
        /\ \A r \in Sessions : InMainQueue(r) => InMainQueue(r)'
        /\ \A r \in Sessions : freed[r] => r # s /\ newjobs'[r] # -1 /\ bev[r] = NoOne
    BY <2>1, EnqueueKeeps, Zenon
  <2>5. HoldInv'
    BY <2>1, <2>3, HoldStep, Zenon DEF BevLabels
  <2>6. \A r \in Sessions : StaysFreed(r)
    BY <2>2, <2>3, <2>4, Zenon DEF StaysFreed
  <2> QED BY <2>2, <2>3, <2>4, <2>5, <2>6, LoopMove, Zenon DEF SessionInv
<1> QED BY <1>1, <1>2, Zenon

\* It signals the workers and unlocks its session.
LEMMA LoopSignalStep ==
    ASSUME Premises, NEW l \in Loops, LoopSignal(l)
    PROVE  SessionInv'
<1>1. /\ pc[l] = "signal" /\ bev' = [bev EXCEPT ![hand[l]] = NoOne] /\ l \in Threads
      /\ hand' = [hand EXCEPT ![l] = NoOne] /\ pc' = [pc EXCEPT ![l] = "loop"]
      /\ UNCHANGED <<unlockedVars, mainVars, stVars, lifeVars, job>>
  BY Zenon DEF LoopSignal, UnlockBev, Goto, Threads
<1>2. UNCHANGED <<free_queue, ntrip_queue, append_queue, st_jobq, newjobs, jobq,
                  append_jobq, ended, refcnt, registered, freed>>
  BY <1>1, Zenon DEF lifeVars, unlockedVars, stVars, mainVars
<1>3. OthersStay(l) /\ pc'[l] = "loop" /\ hand'[l] = NoOne
  BY <1>1, ThreadTypes, Zenon DEF OthersStay
<1>4. bev[hand[l]] = l /\ hand[l] \in Sessions
  BY <1>1, ThreadTypes, AtHand, Zenon DEF Premises, FullInv, SessionInv, HoldInv, BevLabels
<1>5. \A r \in Sessions : /\ bev[r] # NoOne /\ bev[r] # l => bev'[r] = bev[r]
                          /\ bev[r] = NoOne => bev'[r] = NoOne
  BY <1>1, <1>4, SessionTypes, Zenon
<1>6. HoldInv'
  BY <1>1, <1>3, <1>5, HoldStep, Zenon DEF BevLabels
<1>7. \A r \in Sessions : StaysFreed(r)
  BY <1>2, <1>5, Zenon DEF StaysFreed, Premises, FullInv, SessionInv, LifeInv, LifeOf
<1>8. \A r \in Sessions : InMainQueue(r) => InMainQueue(r)'
  BY <1>2, Zenon DEF InMainQueue, Occurs
<1> QED BY <1>2, <1>3, <1>6, <1>7, <1>8, LoopMove, Zenon DEF SessionInv

\* The main thread ends a session.
LEMMA DropAllStep ==
    ASSUME Premises, NEW s \in Sessions, DropAll(s)
    PROVE  SessionInv'
<1>1. PICK isSource \in BOOLEAN : DecrefEnd(s, isSource)
  BY Zenon DEF DropAll
<1>2. UNCHANGED <<pc, hand, job, bev, free_queue, ntrip_queue, append_queue,
                  registered, freed>>
  BY Zenon DEF DropAll, mainVars, threadVars
<1>3. /\ HoldInv' /\ NoStrandedJob' /\ FreeQueueServed'
      /\ \A r \in Sessions : SameWorkers(r)
  BY <1>1, <1>2, DecrefEndQueues, QuietStep, Zenon
<1>4. LifeInv'
  BY <1>1, <1>2, <1>3, DecrefEndLife, Zenon
<1> QED BY <1>3, <1>4, Zenon DEF SessionInv

\* The main thread asks a worker to stop.
LEMMA StopThreadStep ==
    ASSUME Premises, StopThread
    PROVE  SessionInv'
<1>1. /\ AppendUnlocked(StopJob) /\ StopJob \in UnlockedJobs
      /\ UNCHANGED <<mainVars, stVars, lifeVars, bev, threadVars>>
  BY Zenon DEF StopThread, UnlockedJobs
<1>2. UNCHANGED <<pc, hand, job, bev, free_queue, ntrip_queue, append_queue,
                  registered, freed, ended, refcnt, st_jobq, newjobs>>
  BY <1>1, Zenon DEF mainVars, threadVars, lifeVars, stVars
<1>3. /\ HoldInv' /\ NoStrandedJob' /\ FreeQueueServed'
      /\ \A r \in Sessions : SameWorkers(r)
  BY <1>2, QuietStep, Zenon
<1>4. ASSUME NEW r \in Sessions
      PROVE  /\ Waiting(RefJob(r))' = Waiting(RefJob(r))
             /\ Waiting(FreeJob(r))' = Waiting(FreeJob(r))
  <2>1. StopJob # RefJob(r) /\ StopJob # FreeJob(r)
    BY Zenon DEF StopJob, RefJob, FreeJob
  <2> QED BY <1>1, <2>1, WaitingAppend, Zenon
<1>5. LifeInv'
  BY <1>2, <1>3, <1>4, FreedStay, LifeFrame, Zenon
<1> QED BY <1>3, <1>5, Zenon DEF SessionInv

\* A callback queues a job with its session locked.
LEMMA CbLockedStep ==
    ASSUME Premises, NEW w \in Workers, CbLocked(w)
    PROVE  SessionInv'
<1>1. CASE Dropped(hand[w], "lock")
  <2>1. UNCHANGED <<mainVars, stVars, lifeVars, bev, threadVars, unlockedVars>>
    BY <1>1, Zenon DEF CbLocked
  <2> QED BY <2>1, StutterStep, Zenon
<1>2. CASE ~Dropped(hand[w], "lock")
  <2>1. /\ pc[w] = "cb" /\ Enqueue(hand[w], "lock") /\ ~ended[hand[w]]
        /\ UNCHANGED <<unlockedVars, lifeVars, bev, threadVars>>
    BY <1>2, Zenon DEF CbLocked, Dropped
  <2>2. UNCHANGED <<pc, hand, job, bev, free_queue, registered, freed, ended, refcnt,
                    jobq, append_jobq>>
    BY <2>1, Zenon DEF threadVars, lifeVars, unlockedVars
  <2>3. hand[w] \in Sessions /\ "lock" \in JobKinds
    BY <2>1, ThreadTypes, AtHand, Zenon DEF BevLabels, JobKinds
  <2>4. /\ \A r \in Sessions : st_jobq'[r] # <<>> /\ newjobs'[r] # -1 =>
                               st_jobq[r] # <<>> /\ newjobs[r] # -1
        /\ \A r \in Sessions : InMainQueue(r) => InMainQueue(r)'
        /\ \A r \in Sessions : freed[r] => newjobs'[r] # -1 /\ bev[r] = NoOne
    BY <2>1, <2>3, EnqueueKeeps, Zenon
  <2>5. HoldInv'
    BY <2>2, Zenon DEF Premises, FullInv, SessionInv, HoldInv
  <2>6. NoStrandedJob'
    BY <2>2, <2>4, StrandedStep, Zenon
  <2>7. FreeQueueServed'
    BY <2>2, <2>4, ServedStep, Zenon
  <2>8. \A r \in Sessions : StaysFreed(r)
    BY <2>2, <2>4, Zenon DEF StaysFreed
  <2>9. \A r \in Sessions : SameWorkers(r)
    BY <2>2, WorkersSame, Zenon
  <2>10. LifeInv'
    BY <2>2, <2>8, <2>9, CalmStep, Zenon
  <2> QED BY <2>5, <2>6, <2>7, <2>10 DEF SessionInv
<1> QED BY <1>1, <1>2, Zenon

\* A callback queues a job that holds a reference to its session.
LEMMA CbRefStep ==
    ASSUME Premises, NEW w \in Workers, CbRef(w)
    PROVE  SessionInv'
<1>s. PICK s \in Sessions : s = hand[w]
  BY ThreadTypes, AtHand, Zenon DEF CbRef, BevLabels
<1>1. /\ refcnt[s] \in 1..(MaxRefs - 1)
      /\ refcnt' = [refcnt EXCEPT ![s] = @ + 1] /\ AppendUnlocked(RefJob(s))
      /\ UNCHANGED <<mainVars, stVars, ended, registered, free_queue, freed, bev,
                     threadVars>>
  BY <1>s, Zenon DEF CbRef, Incref, RefJob
<1>2. UNCHANGED <<pc, hand, job, bev, free_queue, ntrip_queue, append_queue,
                  registered, freed, ended, st_jobq, newjobs>>
  BY <1>1, Zenon DEF mainVars, threadVars, stVars
<1>3. /\ HoldInv' /\ NoStrandedJob' /\ FreeQueueServed'
      /\ \A r \in Sessions : SameWorkers(r)
  BY <1>2, QuietStep, Zenon
<1>4. ASSUME NEW r \in Sessions
      PROVE  /\ Waiting(RefJob(r))' = IF r = s THEN Waiting(RefJob(r)) + 1
                                               ELSE Waiting(RefJob(r))
             /\ Waiting(FreeJob(r))' = Waiting(FreeJob(r))
  <2>1. /\ RefJob(s) \in UnlockedJobs /\ RefJob(s) # FreeJob(r)
        /\ RefJob(s) = RefJob(r) <=> r = s
    BY Zenon DEF RefJob, FreeJob, UnlockedJobs
  <2> QED BY <1>1, <2>1, WaitingAppend, Zenon
<1>5. ASSUME NEW r \in Sessions
      PROVE  Leaving(r)' = Leaving(r) /\ Gone(r)' = Gone(r) /\ StaysFreed(r) /\ LifeOf(r)
  <2>1. Leaving(r)' = Leaving(r)
    BY <1>3, <1>4, Zenon DEF Leaving, SameWorkers
  <2>2. Gone(r)' = Gone(r)
    BY <1>2, <1>3, Zenon DEF Gone, Count, Places, SameWorkers
  <2>3. StaysFreed(r)
    BY <1>2, FreedStay, Zenon
  <2> QED BY <2>1, <2>2, <2>3, Zenon DEF Premises, FullInv, SessionInv, LifeInv
<1>6. ASSUME NEW r \in Sessions, r # s PROVE LifeOf(r)'
  <2>1. refcnt'[r] = refcnt[r]
    BY <1>1, <1>6, SessionTypes, Zenon
  <2>2. Holding(r)' = Holding(r)
    BY <1>3, <1>4, <1>6, Zenon DEF Holding, SameWorkers
  <2> QED BY <1>2, <1>5, <2>1, <2>2, SameLife, Zenon
<1>7. LifeOf(s)'
  <2>1. refcnt'[s] = refcnt[s] + 1 /\ refcnt[s] \in Int /\ refcnt[s] >= 1
    BY <1>1, SessionTypes, BoundsAssumption
  <2>2. Holding(s)' = (Waiting(RefJob(s)) + 1) + Cardinality(Reffing(s))
    BY <1>3, <1>4, Zenon DEF Holding, SameWorkers
  <2>3. /\ Waiting(RefJob(s)) \in Nat /\ Cardinality(Reffing(s)) \in Nat
        /\ One(~ended[s]) \in Nat /\ One(~ended'[s]) = One(~ended[s])
    BY <1>2, CountNats, Zenon DEF One
  <2>4. refcnt[s] = One(~ended[s]) + (Waiting(RefJob(s)) + Cardinality(Reffing(s)))
    BY <1>5, Zenon DEF LifeOf, Holding
  <2>5. refcnt'[s] = One(~ended'[s]) + Holding(s)'
    BY <2>1, <2>2, <2>3, <2>4
  <2>6. One(refcnt'[s] = 0) = One(refcnt[s] = 0)
    BY <2>1 DEF One
  <2> QED BY <1>2, <1>5, <2>5, <2>6, Zenon DEF LifeOf, StaysFreed
<1> QED BY <1>3, <1>6, <1>7, Zenon DEF SessionInv, LifeInv

-----------------------------------------------------------------------------
(* The steps of a worker that leave references and releases alone *)

\* The mutex, the wait, and the exit of a worker.
LEMMA RestSteps ==
    ASSUME Premises, NEW w \in Workers, Lock(w) \/ ExitThread(w) \/ Wait(w)
    PROVE  SessionInv'
<1>1. /\ pc[w] \in {"lock", "relock", "wait", "stop", "sleep"} /\ w \in Threads
      /\ \E label \in {"sessions", "top", "exited", "wait"} :
           pc' = [pc EXCEPT ![w] = label]
      /\ UNCHANGED <<unlockedVars, mainVars, stVars, lifeVars, bev, hand, job>>
  BY Zenon DEF Lock, ExitThread, Wait, Goto, Threads
<1>2. UNCHANGED <<free_queue, ntrip_queue, append_queue, st_jobq, newjobs, jobq,
                  append_jobq, ended, refcnt, registered, freed>>
  BY <1>1, Zenon DEF lifeVars, unlockedVars, stVars, mainVars
<1>3. OthersStay(w) /\ pc'[w] \in {"sessions", "top", "exited", "wait"}
  BY <1>1, ThreadTypes, Zenon DEF OthersStay
<1>4. hand[w] = NoOne
  BY <1>1, NoHand, Zenon DEF BevLabels
<1>5. HoldInv'
  BY <1>1, <1>3, <1>4, HoldStep, Zenon DEF BevLabels
<1>6. NoStrandedJob'
  BY <1>1, <1>2, <1>3, StrandedMove, Zenon DEF RunLabels
<1>7. FreeQueueServed'
  BY <1>1, <1>2, <1>3, ServedMove, Zenon DEF ServeLabels
<1>8. LifeInv'
  BY <1>1, <1>2, <1>3, FreedStay, CalmMove, Zenon
<1> QED BY <1>5, <1>6, <1>7, <1>8, Zenon DEF SessionInv

\* A worker looks for a session with work, and may take one.
LEMMA TakeSessionStep ==
    ASSUME Premises, NEW w \in Workers, TakeSession(w)
    PROVE  SessionInv'
<1> DEFINE q == IF ntrip_queue = <<>> THEN append_queue ELSE ntrip_queue
<1>1. /\ pc[w] = "sessions" /\ w \in Threads
      /\ UNCHANGED <<unlockedVars, stVars, lifeVars, bev, job>>
  BY Zenon DEF TakeSession, Threads
<1>2. UNCHANGED <<free_queue, st_jobq, newjobs, jobq, append_jobq, ended, refcnt,
                  registered, freed, bev, job>>
  BY <1>1, Zenon DEF lifeVars, unlockedVars, stVars
<1>3. hand[w] = NoOne
  BY <1>1, NoHand, Zenon DEF BevLabels
<1>4. \A r \in Sessions : StaysFreed(r)
  BY <1>2, FreedStay, Zenon
<1>5. CASE q = <<>>
  <2>1. /\ \E label \in {"top", "sleep"} : pc' = [pc EXCEPT ![w] = label]
        /\ UNCHANGED <<mainVars, hand>>
    BY <1>5, Zenon DEF TakeSession, Goto
  <2>2. OthersStay(w) /\ pc'[w] \in {"top", "sleep"} /\ hand'[w] = NoOne
    BY <1>1, <1>3, <2>1, ThreadTypes, Zenon DEF OthersStay
  <2>3. HoldInv'
    BY <1>1, <2>2, HoldStep, Zenon DEF BevLabels
  <2>4. NoStrandedJob'
    BY <1>1, <1>2, <2>2, StrandedMove, Zenon DEF RunLabels
  <2>5. FreeQueueServed'
    BY <1>1, <1>2, <2>1, <2>2, ServedMove, Zenon DEF ServeLabels, mainVars
  <2>6. LifeInv'
    BY <1>1, <1>2, <1>4, <2>2, CalmMove, Zenon
  <2> QED BY <2>3, <2>4, <2>5, <2>6 DEF SessionInv
<1>6. CASE q # <<>>
  <2>1. pc' = [pc EXCEPT ![w] = "bev"] /\ hand' = [hand EXCEPT ![w] = Head(q)]
    BY <1>6, Zenon DEF TakeSession, Goto
  <2> HIDE DEF q
  <2>2. OthersStay(w) /\ pc'[w] = "bev"
    BY <1>1, <2>1, ThreadTypes, Zenon DEF OthersStay
  <2>3. HoldInv'
    BY <1>1, <2>2, HoldStep, Zenon DEF BevLabels
  <2>4. NoStrandedJob'
    BY <1>1, <1>2, <2>2, StrandedMove, Zenon DEF RunLabels
  <2>5. FreeQueueServed'
    BY <2>2, ServedByWorker, Zenon DEF ServeLabels
  <2>6. LifeInv'
    BY <1>1, <1>2, <1>4, <2>2, CalmMove, Zenon
  <2> QED BY <2>3, <2>4, <2>5, <2>6 DEF SessionInv
<1> QED BY <1>5, <1>6, Zenon

\* A worker starts or ends the batch of a session: the others are served as before.
LEMMA BatchOf ==
    ASSUME Premises, NEW w \in Workers, OthersStay(w), NEW s \in Sessions, hand[w] = s,
           UNCHANGED st_jobq, \A r \in Sessions : r # s => newjobs'[r] = newjobs[r],
           st_jobq[s] # <<>> => pc'[w] \in RunLabels /\ hand'[w] = s
    PROVE  NoStrandedJob'
<1> SUFFICES ASSUME NEW r \in Sessions, st_jobq'[r] # <<>>, newjobs'[r] # -1
             PROVE  \E v \in Workers : pc'[v] \in RunLabels /\ hand'[v] = r
  BY Zenon DEF NoStrandedJob, RunLabels
<1>1. CASE r = s
  BY <1>1, Zenon
<1>2. CASE r # s
  <2>1. st_jobq[r] # <<>> /\ newjobs[r] # -1
    BY <1>2, Zenon
  <2>2. PICK v \in Workers : pc[v] \in RunLabels /\ hand[v] = r
    BY <2>1, Zenon DEF Premises, FullInv, SessionInv, NoStrandedJob, RunLabels
  <2>3. v # w /\ v \in Threads
    BY <1>2, <2>2, ThreadTypes, Zenon
  <2> QED BY <2>2, <2>3, Zenon DEF OthersStay
<1> QED BY <1>1, <1>2, Zenon

\* A worker locks the session it took.
LEMMA LockSessionStep ==
    ASSUME Premises, NEW w \in Workers, LockSession(w)
    PROVE  SessionInv'
<1>s. PICK s \in Sessions : s = hand[w]
  BY ThreadTypes, AtHand, Zenon DEF LockSession
<1>1. /\ pc[w] = "bev" /\ w \in Threads /\ bev[s] = NoOne
      /\ bev' = [bev EXCEPT ![s] = w] /\ newjobs' = [newjobs EXCEPT ![s] = 0]
      /\ pc' = [pc EXCEPT ![w] = "batch"]
      /\ UNCHANGED <<unlockedVars, mainVars, st_jobq, lifeVars, hand, job>>
  BY <1>s, Zenon DEF LockSession, Goto, Threads
<1>2. UNCHANGED <<free_queue, st_jobq, jobq, append_jobq, ended, refcnt, registered, freed>>
  BY <1>1, Zenon DEF lifeVars, unlockedVars
<1>3. newjobs[s] = -1
  <2>1. w \in Popped(s)
    BY <1>s, <1>1, Zenon DEF Popped
  <2> QED BY <2>1, Zenon DEF Premises, FullInv, IInv, QueuedOnce
<1>4. OthersStay(w) /\ pc'[w] = "batch" /\ hand'[w] = s
  BY <1>s, <1>1, ThreadTypes, Zenon DEF OthersStay
<1>5. /\ bev'[s] = w /\ \A r \in Sessions : r # s => bev'[r] = bev[r]
      /\ \A r \in Sessions : r # s => newjobs'[r] = newjobs[r]
  BY <1>1, SessionTypes, Zenon
<1>6. HoldInv'
  BY <1>1, <1>4, <1>5, HoldStep, Zenon DEF BevLabels
<1>7. NoStrandedJob'
  BY <1>s, <1>2, <1>4, <1>5, BatchOf, Zenon DEF RunLabels
<1>8. FreeQueueServed'
  BY <1>4, ServedByWorker, Zenon DEF ServeLabels
<1>9. ASSUME NEW r \in Sessions PROVE StaysFreed(r)
  <2>1. freed[r] => newjobs[r] # -1 /\ bev[r] = NoOne
    BY Zenon DEF Premises, FullInv, SessionInv, LifeInv, LifeOf
  <2> QED BY <1>2, <1>3, <1>5, <2>1, Zenon DEF StaysFreed
<1>10. LifeInv'
  BY <1>1, <1>2, <1>4, <1>9, CalmMove, Zenon
<1> QED BY <1>6, <1>7, <1>8, <1>10 DEF SessionInv

\* Taking a job from a session's queue leaves its counter of new jobs alone.
LEMMA RunJobQueues ==
    ASSUME Premises, NEW w \in Workers, RunJob(w), hand[w] \in Sessions
    PROVE  /\ newjobs' = newjobs
           /\ \A r \in Sessions : st_jobq'[r] # <<>> => st_jobq[r] # <<>>
<1>s. PICK s \in Sessions : s = hand[w]
  OBVIOUS
<1>1. newjobs \in [Sessions -> {-1, 0}] /\ st_jobq \in [Sessions -> Seq(JobKinds)]
  BY SessionTypes, QueueTypes, Zenon
<1>2. /\ newjobs' = [newjobs EXCEPT ![s] = OneLess(@)]
      /\ st_jobq' = [st_jobq EXCEPT ![s] = Tail(@)] /\ st_jobq[s] # <<>>
  BY <1>s, Zenon DEF RunJob
<1>3. OneLess(newjobs[s]) = newjobs[s]
  BY <1>1 DEF OneLess
<1>4. newjobs' = newjobs
  BY <1>1, <1>2, <1>3, Zenon
<1>5. \A r \in Sessions : r # s => st_jobq'[r] = st_jobq[r]
  BY <1>1, <1>2, Zenon
<1> QED BY <1>2, <1>4, <1>5, Zenon

\* The batch of a session: take a job, return from a callback.
LEMMA BatchSteps ==
    ASSUME Premises, NEW w \in Workers, RunJob(w) \/ CbReturn(w)
    PROVE  SessionInv'
<1>1. /\ pc[w] \in RunLabels /\ w \in Threads
      /\ \E label \in RunLabels : pc' = [pc EXCEPT ![w] = label]
      /\ UNCHANGED <<unlockedVars, mainVars, lifeVars, bev, hand, job>>
  BY Zenon DEF RunJob, CbReturn, Goto, RunLabels, Threads
<1>2. UNCHANGED <<free_queue, ntrip_queue, append_queue, jobq, append_jobq, ended,
                  refcnt, registered, freed>>
  BY <1>1, Zenon DEF lifeVars, unlockedVars, mainVars
<1>3. OthersStay(w) /\ pc'[w] \in RunLabels
  BY <1>1, ThreadTypes, Zenon DEF OthersStay
<1>4. hand[w] \in Sessions /\ bev[hand[w]] = w
  BY <1>1, ThreadTypes, AtHand, Zenon DEF Premises, FullInv, SessionInv, HoldInv, BevLabels, RunLabels
<1>5. newjobs' = newjobs /\ \A r \in Sessions : st_jobq'[r] # <<>> => st_jobq[r] # <<>>
  BY <1>4, RunJobQueues, Zenon DEF CbReturn, stVars
<1>6. HoldInv'
  BY <1>1, <1>3, <1>4, HoldStep, Zenon DEF BevLabels, RunLabels
<1>7. NoStrandedJob'
  <2>1. \A v \in Workers : pc[v] \in RunLabels => pc'[v] \in RunLabels /\ hand'[v] = hand[v]
    BY <1>1, <1>3, ThreadTypes, Zenon DEF OthersStay
  <2> QED BY <1>5, <2>1, StrandedStep, Zenon
<1>8. FreeQueueServed'
  BY <1>3, ServedByWorker, Zenon DEF ServeLabels, RunLabels
<1>9. \A r \in Sessions : StaysFreed(r)
  BY <1>1, <1>2, <1>5, FreedStay, Zenon
<1>10. LifeInv'
  BY <1>1, <1>2, <1>3, <1>9, CalmMove, Zenon DEF RunLabels
<1> QED BY <1>6, <1>7, <1>8, <1>10, Zenon DEF SessionInv

\* The end of a batch: no job of the session is left.
LEMMA EndBatchStep ==
    ASSUME Premises, NEW w \in Workers, EndBatch(w)
    PROVE  SessionInv'
<1>s. PICK s \in Sessions : s = hand[w]
  BY ThreadTypes, AtHand, Zenon DEF EndBatch, BevLabels
<1>1. /\ pc[w] = "batch" /\ w \in Threads /\ st_jobq[s] = <<>>
      /\ bev' = [bev EXCEPT ![s] = NoOne]
      /\ hand' = [hand EXCEPT ![w] = NoOne] /\ job' = [job EXCEPT ![w] = NoJob]
      /\ pc' = [pc EXCEPT ![w] = "reap"]
      /\ UNCHANGED <<unlockedVars, mainVars, stVars, lifeVars>>
  BY <1>s, Zenon DEF EndBatch, Goto, UnlockBev, BatchDone, Threads
<1>2. UNCHANGED <<free_queue, st_jobq, newjobs, jobq, append_jobq, ended, refcnt,
                  registered, freed>>
  BY <1>1, Zenon DEF lifeVars, unlockedVars, stVars
<1>3. bev[s] = w
  BY <1>s, <1>1, Zenon DEF Premises, FullInv, SessionInv, HoldInv, BevLabels
<1>4. OthersStay(w) /\ pc'[w] = "reap" /\ hand'[w] = NoOne
  BY <1>1, ThreadTypes, Zenon DEF OthersStay
<1>5. bev'[s] = NoOne /\ \A r \in Sessions : r # s => bev'[r] = bev[r]
  BY <1>1, SessionTypes, Zenon
<1>6. HoldInv'
  BY <1>1, <1>3, <1>4, <1>5, HoldStep, Zenon DEF BevLabels
<1>7. NoStrandedJob'
  BY <1>s, <1>1, <1>2, <1>4, BatchOf, Zenon
<1>8. FreeQueueServed'
  BY <1>4, ServedByWorker, Zenon DEF ServeLabels
<1>9. ASSUME NEW r \in Sessions PROVE StaysFreed(r)
  <2>1. freed[r] => newjobs[r] # -1 /\ bev[r] = NoOne
    BY Zenon DEF Premises, FullInv, SessionInv, LifeInv, LifeOf
  <2> QED BY <1>2, <1>5, <2>1, Zenon DEF StaysFreed
<1>10. LifeInv'
  BY <1>1, <1>2, <1>4, <1>9, CalmMove, Zenon
<1> QED BY <1>6, <1>7, <1>8, <1>10 DEF SessionInv

\* A callback ends a session: a job with a reference may end any registered
\* one, a callback of a session its own.
LEMMA EndingSteps ==
    ASSUME Premises, NEW w \in Workers, RunRef(w) \/ CbEnd(w)
    PROVE  SessionInv'
<1>1. /\ \/ pc[w] = "ref" /\ pc' = [pc EXCEPT ![w] = "unref"]
         \/ pc[w] \in {"cb", "lockcb"} /\ pc' = [pc EXCEPT ![w] = "batch"]
      /\ UNCHANGED <<mainVars, registered, free_queue, freed, bev, hand, job>>
      /\ w \in Threads
  BY Zenon DEF RunRef, CbEnd, Goto, Threads
<1>2. UNCHANGED <<free_queue, ntrip_queue, append_queue, registered, freed, bev>>
  BY <1>1, Zenon DEF mainVars
<1>3. /\ OthersStay(w) /\ hand'[w] = hand[w] /\ job'[w] = job[w]
      /\ \/ pc[w] = "ref" /\ pc'[w] = "unref"
         \/ pc[w] \in {"cb", "lockcb"} /\ pc'[w] = "batch"
  BY <1>1, ThreadTypes, Zenon DEF OthersStay
<1>4. \/ UNCHANGED <<ended, refcnt, stVars, unlockedVars>>
      \/ \E s \in Sessions, isSource \in BOOLEAN : DecrefEnd(s, isSource)
  <2>1. CASE RunRef(w)
    <3>1. registered \subseteq Sessions
      BY Zenon DEF Premises, FullInv, IInv, TypeOK
    <3> QED BY <2>1, <3>1, Zenon DEF RunRef
  <2>2. CASE CbEnd(w)
    <3>1. hand[w] \in Sessions
      BY <1>1, <2>2, ThreadTypes, AtHand, Zenon DEF CbEnd, BevLabels
    <3> QED BY <2>2, <3>1, Zenon DEF CbEnd
  <2> QED BY <2>1, <2>2, Zenon
<1>5. newjobs' = newjobs /\ \A r \in Sessions : st_jobq'[r] # <<>> => st_jobq[r] # <<>>
  BY <1>4, DecrefEndQueues, Zenon DEF stVars
<1>6. HoldInv'
  <2>1. pc[w] = "ref" => hand[w] = NoOne
    BY <1>1, NoHand, Zenon DEF BevLabels
  <2>2. pc[w] \in {"cb", "lockcb"} => bev[hand[w]] = w
    BY <1>1, Zenon DEF Premises, FullInv, SessionInv, HoldInv, BevLabels
  <2> QED BY <1>1, <1>3, <2>1, <2>2, HoldStep, Zenon DEF BevLabels
<1>7. \A v \in Workers : /\ pc[v] \in ServeLabels => pc'[v] \in ServeLabels
                         /\ pc[v] \in RunLabels => pc'[v] \in RunLabels /\ hand'[v] = hand[v]
  BY <1>3, ThreadTypes, Zenon DEF ServeLabels, RunLabels, OthersStay
<1>8. NoStrandedJob'
  BY <1>5, <1>7, StrandedStep, Zenon
<1>9. FreeQueueServed'
  BY <1>2, <1>7, ServedStep, Zenon DEF InMainQueue, Occurs
<1>10. ASSUME NEW r \in Sessions PROVE SameWorkers(r)
  <2>1. /\ w \in Reffing(r)' <=> w \in Reffing(r)
        /\ w \in Freeing(r)' <=> w \in Freeing(r)
        /\ w \in Reaping(r)' <=> w \in Reaping(r)
    BY <1>3, Zenon DEF Reffing, Freeing, Reaping
  <2> QED BY <1>3, <2>1, Elsewhere, Zenon
<1>11. LifeInv'
  <2>1. CASE UNCHANGED <<ended, refcnt, stVars, unlockedVars>>
    <3>1. UNCHANGED <<ended, refcnt, newjobs, jobq, append_jobq>>
      BY <2>1, Zenon DEF stVars, unlockedVars
    <3> QED BY <1>2, <1>10, <3>1, FreedStay, CalmStep, Zenon
  <2>2. ASSUME NEW s \in Sessions, NEW isSource \in BOOLEAN, DecrefEnd(s, isSource)
        PROVE  LifeInv'
    BY <1>2, <1>10, <2>2, DecrefEndLife, Zenon
  <2> QED BY <1>4, <2>1, <2>2, Zenon
<1> QED BY <1>6, <1>8, <1>9, <1>11 DEF SessionInv

=============================================================================
