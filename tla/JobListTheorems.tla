-------------------------- MODULE JobListTheorems ---------------------------
(***************************************************************************)
(* The life of a session, for every number of workers, event loops and     *)
(* sessions: its jobs are not stranded and run in order, its reference     *)
(* counter is exact, it is released once, and nothing refers to it once it *)
(* is freed.  The laws of counting, which the steps in JobListLife take as *)
(* a hypothesis, are those proved in Counting.                             *)
(***************************************************************************)
EXTENDS JobListProofs, JobListLife, Counting

-----------------------------------------------------------------------------
(* The theorems *)

\* At the start each session has the reference of its connection, and nothing
\* is queued.
LEMMA InitFullInv == Init => FullInv
<1> SUFFICES ASSUME Init PROVE FullInv
  OBVIOUS
<1>1. IInv
  BY InitIInv
<1>2. HoldInv
  <2>1. /\ hand = [t \in Threads |-> NoOne]
        /\ pc = [t \in Threads |-> IF t \in Workers THEN "lock" ELSE "loop"]
    BY Zenon DEF Init
  <2> QED BY <2>1 DEF HoldInv, BevLabels
<1>3. NoStrandedJob /\ FreeQueueServed
  BY Zenon DEF Init, NoStrandedJob, FreeQueueServed
<1>4. ASSUME NEW s \in Sessions PROVE LifeOf(s)
  <2>1. /\ jobq = <<>> /\ append_jobq = <<>> /\ free_queue = <<>>
        /\ refcnt[s] = 1 /\ ended[s] = FALSE /\ freed[s] = FALSE /\ s \in registered
        /\ \A w \in Workers : pc[w] = "lock"
    BY Zenon DEF Init, Threads
  <2>2. /\ Waiting(RefJob(s)) = 0 /\ Waiting(FreeJob(s)) = 0 /\ Count(free_queue, s) = 0
    BY <2>1, Counted DEF Waiting, CountLaws, QueueLaw
  <2>3. Reffing(s) = {} /\ Freeing(s) = {} /\ Reaping(s) = {}
    BY <2>1, Zenon DEF Reffing, Freeing, Reaping
  <2>4. /\ Cardinality(Reffing(s)) = 0 /\ Cardinality(Freeing(s)) = 0
        /\ Cardinality(Reaping(s)) = 0
    BY <2>3, FS_EmptySet
  <2>5. One(~ended[s]) = 1 /\ One(freed[s]) = 0 /\ One(refcnt[s] = 0) = 0
    BY <2>1, Zenon DEF One
  <2>6. Holding(s) = 0 /\ Leaving(s) = 0 /\ Gone(s) = 0
    BY <2>2, <2>4, <2>5 DEF Holding, Leaving, Gone
  <2> QED BY <2>1, <2>5, <2>6 DEF LifeOf
<1> QED BY <1>1, <1>2, <1>3, <1>4 DEF FullInv, SessionInv, LifeInv

\* Every step keeps the invariant.
LEMMA FullStep == FullInv /\ [Next]_vars => FullInv'
<1> SUFFICES ASSUME FullInv, [Next]_vars PROVE FullInv'
  OBVIOUS
<1>0. Premises
  BY Counted, Zenon DEF Premises
<1>1. IInv'
  BY TypeStep, PcStep, QueueStep, LockStep, Zenon DEF FullInv, IInv
<1>2. SessionInv'
  <2>1. CASE UNCHANGED vars
    BY <1>0, <2>1, StutterStep, Zenon DEF vars
  <2>2. CASE Next
    <3>1. \A w \in Workers : SpuriousWakeup(w) => SessionInv'
      BY <1>0, StutterStep, Zenon DEF SpuriousWakeup
    <3> QED BY <1>0, <2>2, <3>1, LoopAppendStep, LoopSignalStep, DropAllStep, StopThreadStep,
               CbLockedStep, CbRefStep, RestSteps, TakeSessionStep, LockSessionStep,
               BatchSteps, EndBatchStep, EndingSteps, TakeUnlockedStep, UnrefStep,
               DeferredFree2Step, ReapTakeStep, ReapOneStep, Zenon
            DEF Next, WorkerStep
  <2> QED BY <2>1, <2>2, Zenon
<1> QED BY <1>1, <1>2 DEF FullInv

\* The strengthened invariant holds in every reachable state.
THEOREM FullInvariance == Spec => []FullInv
  BY InitFullInv, FullStep, PTL DEF Spec

\* No job of a session is stranded (joblist_append() and joblist_run()).
THEOREM JobsAreNotStranded == Spec => []NoStrandedJob
<1>1. FullInv => NoStrandedJob
  BY DEF FullInv, SessionInv
<1> QED BY <1>1, FullInvariance, PTL

\* The sessions that ntrip_deferred_run() put back will be looked at again.
THEOREM FreeQueueIsServed == Spec => []FreeQueueServed
<1>1. FullInv => FreeQueueServed
  BY DEF FullInv, SessionInv
<1> QED BY <1>1, FullInvariance, PTL

\* The reference counter is what the connection and the queued or running jobs
\* hold (ntrip_incref(), ntrip_decref()).
THEOREM RefcntIsExact == Spec => []RefcntExact
<1>1. FullInv => RefcntExact
  <2> SUFFICES ASSUME FullInv, NEW s \in Sessions
               PROVE  refcnt[s] = (IF ended[s] THEN 0 ELSE 1)
                        + RefJobs(jobq, s) + RefJobs(append_jobq, s)
                        + Cardinality({w \in Workers : pc[w] \in {"ref", "unref"}
                                                        /\ job[w].st = s})
    BY Zenon DEF RefcntExact
  <2>1. refcnt[s] = One(~ended[s]) + (Waiting(RefJob(s)) + Cardinality(Reffing(s)))
    BY Zenon DEF FullInv, SessionInv, LifeInv, LifeOf, Holding
  <2>2. /\ RefJobs(jobq, s) = Count(jobq, RefJob(s))
        /\ RefJobs(append_jobq, s) = Count(append_jobq, RefJob(s))
    BY Zenon DEF RefJobs, Count, Places, RefJob
  <2>3. One(~ended[s]) = IF ended[s] THEN 0 ELSE 1
    BY Zenon DEF One
  <2>4. jobq \in Seq(UnlockedJobs) /\ append_jobq \in Seq(UnlockedJobs)
    BY Zenon DEF FullInv, IInv, TypeOK
  <2>5. Count(jobq, RefJob(s)) \in Nat /\ Count(append_jobq, RefJob(s)) \in Nat
    BY <2>4, Counted DEF CountLaws, QueueLaw
  <2>6. Cardinality(Reffing(s)) \in Nat /\ One(~ended[s]) \in Nat
    BY Counted, CountNats, Zenon DEF Premises, One
  <2>7. refcnt[s] = One(~ended[s]) + RefJobs(jobq, s) + RefJobs(append_jobq, s)
                    + Cardinality(Reffing(s))
    BY <2>1, <2>2, <2>5, <2>6 DEF Waiting
  <2> QED BY <2>3, <2>7, Zenon DEF Reffing
<1> QED BY <1>1, FullInvariance, PTL

\* Nothing refers to a session that ntrip_deferred_run() freed.
THEOREM FreedIsOutOfReach == Spec => []NoUseAfterFree
<1>1. FullInv => NoUseAfterFree
  <2> SUFFICES ASSUME FullInv, NEW s \in Sessions, freed[s]
               PROVE  /\ newjobs[s] # -1 /\ bev[s] = NoOne
                      /\ ~ Occurs(free_queue, s) /\ s \notin registered
                      /\ \A t \in Threads : ~ Uses(t, s)
                      /\ \A i \in 1..Len(jobq) : jobq[i].st # s
                      /\ \A i \in 1..Len(append_jobq) : append_jobq[i].st # s
    BY Zenon DEF NoUseAfterFree
  <2>0. Premises /\ IInv /\ HoldInv /\ LifeInv
    BY Counted, Zenon DEF Premises, FullInv, SessionInv
  <2>1. newjobs[s] # -1 /\ bev[s] = NoOne
    BY <2>0, Zenon DEF LifeInv, LifeOf
  <2>2. /\ s \notin registered /\ ~Occurs(free_queue, s)
        /\ Waiting(RefJob(s)) = 0 /\ Waiting(FreeJob(s)) = 0
        /\ Freeing(s) = {} /\ Reffing(s) = {} /\ Reaping(s) = {}
    BY <2>0, LifeFacts, Zenon
  <2>3. \A j \in UnlockedJobs : j.st = s => j = RefJob(s) \/ j = FreeJob(s)
    BY ThreadsAssumption DEF UnlockedJobs, StopJob, RefJob, FreeJob
  <2>4. jobq \in Seq(UnlockedJobs) /\ append_jobq \in Seq(UnlockedJobs)
    BY <2>0, Zenon DEF IInv, TypeOK
  <2>5. /\ \A i \in 1..Len(jobq) : jobq[i] # RefJob(s) /\ jobq[i] # FreeJob(s)
        /\ \A i \in 1..Len(append_jobq) :
             append_jobq[i] # RefJob(s) /\ append_jobq[i] # FreeJob(s)
    BY <2>0, <2>2, CountZero, Zenon
  <2>6. /\ \A i \in 1..Len(jobq) : jobq[i].st # s
        /\ \A i \in 1..Len(append_jobq) : append_jobq[i].st # s
    BY <2>3, <2>4, <2>5
  <2>7. ASSUME NEW t \in Threads, hand[t] = s PROVE FALSE
    <3>1. pc[t] \in BevLabels \cup {"bev", "free1"} /\ t # NoOne
      BY <2>0, <2>7, ThreadTypes, Zenon DEF HoldInv
    <3>2. pc[t] \notin BevLabels
      BY <2>0, <2>1, <2>7, <3>1, Zenon DEF HoldInv
    <3>3. t \in Workers
      BY <2>0, <3>1, <3>2, Zenon DEF IInv, PcInv, Threads, BevLabels
    <3>4. pc[t] # "bev"
      <4>1. Popped(s) = {}
        BY <2>0, <2>1, Zenon DEF IInv, QueuedOnce
      <4> QED BY <2>7, <3>3, <4>1, Zenon DEF Popped
    <3>5. pc[t] # "free1"
      BY <2>2, <2>7, <3>3, Zenon DEF Reaping
    <3> QED BY <3>1, <3>2, <3>4, <3>5, Zenon
  <2>8. ASSUME NEW t \in Threads, pc[t] \in {"ref", "unref", "free"}, job[t].st = s
        PROVE  FALSE
    <3>1. t \in Workers
      BY <2>0, <2>8, Zenon DEF IInv, PcInv, Threads
    <3> QED BY <2>2, <2>8, <3>1, Zenon DEF Reffing, Freeing
  <2> QED BY <2>1, <2>2, <2>6, <2>7, <2>8, Zenon DEF Uses
<1> QED BY <1>1, FullInvariance, PTL

\* Jobs of a session are taken in the order of joblist_append(), and only an
\* ended session loses some.
THEOREM JobsInOrder == Spec => Fifo
<1>1. FullInv /\ [Next]_vars => [FifoStep]_vars
  <2> SUFFICES ASSUME FullInv, Next, NEW r \in Sessions
               PROVE  \/ st_jobq'[r] = st_jobq[r]
                      \/ \E k \in JobKinds : st_jobq'[r] = Append(st_jobq[r], k) /\ ~ended[r]
                      \/ st_jobq[r] # <<>> /\ st_jobq'[r] = Tail(st_jobq[r]) /\ bev[r] # NoOne
                      \/ st_jobq'[r] = <<>> /\ ended'[r]
    BY Zenon DEF FifoStep
  <2> DEFINE Kept == st_jobq'[r] = st_jobq[r]
             Added == \E k \in JobKinds : st_jobq'[r] = Append(st_jobq[r], k) /\ ~ended[r]
             Taken == st_jobq[r] # <<>> /\ st_jobq'[r] = Tail(st_jobq[r]) /\ bev[r] # NoOne
             Dropt == st_jobq'[r] = <<>> /\ ended'[r]
  <2>p. Premises
    BY Counted, Zenon DEF Premises
  <2>0. /\ IInv /\ HoldInv /\ LifeInv /\ st_jobq \in [Sessions -> Seq(JobKinds)]
        /\ registered \subseteq Sessions /\ NoOne \notin Threads
    BY <2>p, ThreadTypes, Zenon DEF FullInv, SessionInv, IInv, TypeOK
  <2>1. ASSUME NEW s \in Sessions, NEW k \in JobKinds, Enqueue(s, k), ~ended[s]
        PROVE  Kept \/ Added
    <3>1. st_jobq' = [st_jobq EXCEPT ![s] = Append(@, k)]
      BY <2>1, Zenon DEF Enqueue
    <3> QED BY <2>0, <2>1, <3>1, Zenon
  <2>2. ASSUME NEW s \in Sessions, NEW isSource \in BOOLEAN, DecrefEnd(s, isSource)
        PROVE  Kept \/ Dropt
    <3>1. CASE ended[s] \/ isSource
      BY <2>2, <3>1, Zenon DEF DecrefEnd, stVars
    <3>2. CASE ~ended[s] /\ ~isSource
      <4>1. Decref(s) /\ ended' = [ended EXCEPT ![s] = TRUE]
        BY <2>2, <3>2, Zenon DEF DecrefEnd
      <4>2. ended'[s]
        BY <2>p, <4>1, SessionTypes, Zenon
      <4> QED BY <2>p, <4>1, <4>2, DecrefQueues, Zenon
    <3> QED BY <3>1, <3>2, Zenon
  <2>3. ASSUME NEW w \in Workers, pc[w] \in {"cb", "lockcb", "batch"}
        PROVE  hand[w] \in Sessions /\ bev[hand[w]] # NoOne
    <3>1. w \in Threads /\ pc[w] \in BevLabels
      BY <2>3, Zenon DEF BevLabels, Threads
    <3> QED BY <2>p, <2>0, <3>1, AtHand, Zenon DEF HoldInv
  <2>4. ASSUME NEW l \in Loops, NEW s \in Sessions, NEW k \in LibeventJobs(s),
               LoopAppend(l, s, k)
        PROVE  Kept \/ Added
    <3>1. CASE Dropped(s, k)
      BY <2>4, <3>1, Zenon DEF LoopAppend, stVars
    <3>2. CASE ~Dropped(s, k)
      BY <2>1, <2>4, <3>2, Zenon DEF LoopAppend, Dropped, JobKinds
    <3> QED BY <3>1, <3>2, Zenon
  <2>5. ASSUME NEW w \in Workers, CbLocked(w)
        PROVE  Kept \/ Added
    <3>1. CASE Dropped(hand[w], "lock")
      BY <2>5, <3>1, Zenon DEF CbLocked, stVars
    <3>2. CASE ~Dropped(hand[w], "lock")
      <4>1. hand[w] \in Sessions
        BY <2>3, <2>5, Zenon DEF CbLocked
      <4> QED BY <2>1, <2>5, <3>2, <4>1, Zenon DEF CbLocked, Dropped, JobKinds
    <3> QED BY <3>1, <3>2, Zenon
  <2>6. ASSUME NEW s \in Sessions, DropAll(s)
        PROVE  Kept \/ Dropt
    BY <2>2, <2>6, Zenon DEF DropAll
  <2>7. ASSUME NEW w \in Workers, CbEnd(w)
        PROVE  Kept \/ Dropt
    BY <2>2, <2>3, <2>7, Zenon DEF CbEnd
  <2>8. ASSUME NEW w \in Workers, RunRef(w)
        PROVE  Kept \/ Dropt
    <3>1. CASE UNCHANGED <<ended, refcnt, stVars, unlockedVars, waiters>>
      BY <3>1, Zenon DEF stVars
    <3>2. ASSUME NEW s \in registered, NEW isSource \in BOOLEAN, DecrefEnd(s, isSource)
          PROVE  Kept \/ Dropt
      BY <2>0, <2>2, <3>2, Zenon
    <3> QED BY <2>8, <3>1, <3>2, Zenon DEF RunRef
  <2>9. ASSUME NEW w \in Workers, RunJob(w)
        PROVE  Kept \/ Taken
    <3>1. hand[w] \in Sessions /\ bev[hand[w]] # NoOne
      BY <2>3, <2>9, Zenon DEF RunJob
    <3>2. /\ st_jobq' = [st_jobq EXCEPT ![hand[w]] = Tail(@)]
          /\ st_jobq[hand[w]] # <<>>
      BY <2>9, Zenon DEF RunJob
    <3> QED BY <2>0, <3>1, <3>2, Zenon
  <2>10. ASSUME NEW w \in Workers, Unref(w)
         PROVE  Kept \/ Dropt
    <3>1. PICK s \in Sessions : s = job[w].st
      BY <2>p, <2>10, AtHand, Zenon DEF Unref
    <3>2. Decref(s) /\ ended' = ended /\ pc[w] = "unref"
      BY <2>10, <3>1, Zenon DEF Unref
    <3>3. st_jobq'[r] = st_jobq[r] \/ (r = s /\ refcnt[s] = 1 /\ st_jobq'[r] = <<>>)
      BY <2>p, <2>0, <3>2, DecrefQueues, Zenon
    <3>4. refcnt[s] = 1 => ended[s]
      <4>1. refcnt[s] = One(~ended[s]) + (Waiting(RefJob(s)) + Cardinality(Reffing(s)))
        BY <2>0, Zenon DEF LifeInv, LifeOf, Holding
      <4>2. Waiting(RefJob(s)) \in Nat /\ Cardinality(Reffing(s)) \in Nat
        BY <2>p, CountNats, Zenon
      <4>3. Cardinality(Reffing(s)) # 0
        <5>1. w \in Reffing(s)
          BY <3>1, <3>2, Zenon DEF Reffing
        <5> QED BY <2>p, <5>1, CountZero, Zenon
      <4>4. ~ended[s] => One(~ended[s]) = 1
        BY Zenon DEF One
      <4> QED BY <4>1, <4>2, <4>3, <4>4
    <3> QED BY <3>2, <3>3, <3>4, Zenon
  <2>11. ASSUME \/ \E l \in Loops : LoopSignal(l)
                \/ StopThread
                \/ \E w \in Workers :
                     \/ Lock(w) \/ TakeUnlocked(w) \/ DeferredFree2(w) \/ ExitThread(w)
                     \/ TakeSession(w) \/ Wait(w) \/ SpuriousWakeup(w) \/ LockSession(w)
                     \/ CbRef(w) \/ CbReturn(w) \/ EndBatch(w) \/ ReapTake(w) \/ ReapOne(w)
         PROVE  Kept
    BY <2>11, Zenon
    DEF stVars, LoopSignal, StopThread, Lock, TakeUnlocked, DeferredFree2, ExitThread,
        TakeSession, Wait, SpuriousWakeup, LockSession, CbRef, CbReturn, EndBatch,
        ReapTake, ReapOne
  <2> HIDE DEF Kept, Added, Taken, Dropt
  <2>12. Kept \/ Added \/ Taken \/ Dropt
    BY <2>4, <2>5, <2>6, <2>7, <2>8, <2>9, <2>10, <2>11, Zenon DEF Next, WorkerStep
  <2> QED BY <2>12, Zenon DEF Kept, Added, Taken, Dropt
<1> QED BY <1>1, FullInvariance, PTL DEF Spec, Fifo

=============================================================================
