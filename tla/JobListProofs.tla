--------------------------- MODULE JobListProofs ---------------------------
(***************************************************************************)
(* For every number of workers, event loops and sessions, and every bound: *)
(* the type invariant, the fact that a session is in the main queues at    *)
(* most once and exactly when newjobs says so, and the lock order.         *)
(***************************************************************************)
EXTENDS JobListInv, TLAPS

-----------------------------------------------------------------------------
(* Facts about sequences *)

\* Taking the head of a queue shifts the others by one.
LEMMA TailFacts ==
    ASSUME NEW S, NEW q \in Seq(S), q # <<>>
    PROVE  /\ Head(q) \in S /\ Head(q) = q[1]
           /\ Tail(q) \in Seq(S)
           /\ Len(q) \in Nat /\ Len(q) >= 1 /\ Len(Tail(q)) = Len(q) - 1
           /\ \A i \in 1..(Len(q) - 1) : Tail(q)[i] = q[i + 1]
  OBVIOUS

\* Appending leaves the others where they are.
LEMMA AppendFacts ==
    ASSUME NEW S, NEW q \in Seq(S), NEW x \in S
    PROVE  /\ Append(q, x) \in Seq(S)
           /\ Len(q) \in Nat /\ Len(Append(q, x)) = Len(q) + 1
           /\ \A i \in 1..Len(q) : Append(q, x)[i] = q[i]
           /\ Append(q, x)[Len(q) + 1] = x
  OBVIOUS

\* What occurs in a queue after an append, and that nothing occurs twice.
LEMMA OccursAppend ==
    ASSUME NEW S, NEW q \in Seq(S), NEW x \in S
    PROVE  /\ \A s \in S : Occurs(Append(q, x), s) <=> (Occurs(q, s) \/ s = x)
           /\ (NoRepeat(q) /\ ~Occurs(q, x)) => NoRepeat(Append(q, x))
  BY AppendFacts DEF Occurs, NoRepeat

\* What occurs in a queue once its head is taken.
LEMMA OccursTail ==
    ASSUME NEW S, NEW q \in Seq(S), q # <<>>, NoRepeat(q)
    PROVE  /\ \A s \in S : Occurs(Tail(q), s) <=> (Occurs(q, s) /\ s # Head(q))
           /\ NoRepeat(Tail(q))
           /\ Occurs(q, Head(q))
<1> DEFINE n == Len(q)
<1>1. /\ Head(q) = q[1] /\ n \in Nat /\ n >= 1 /\ Len(Tail(q)) = n - 1
      /\ \A i \in 1..(n - 1) : Tail(q)[i] = q[i + 1]
  BY TailFacts
<1>2. \A i \in 1..n : q[i] = q[1] => i = 1
  BY <1>1 DEF NoRepeat
<1>3. ASSUME NEW s \in S, Occurs(Tail(q), s) PROVE Occurs(q, s) /\ s # Head(q)
  <2>1. PICK i \in 1..(n - 1) : Tail(q)[i] = s
    BY <1>1, <1>3 DEF Occurs
  <2>2. i + 1 \in 1..n /\ q[i + 1] = s /\ i + 1 # 1
    BY <1>1, <2>1
  <2> QED BY <1>1, <1>2, <2>2 DEF Occurs
<1>4. ASSUME NEW s \in S, Occurs(q, s), s # Head(q) PROVE Occurs(Tail(q), s)
  <2>1. PICK i \in 1..n : q[i] = s
    BY <1>4 DEF Occurs
  <2>2. i - 1 \in 1..(n - 1) /\ Tail(q)[i - 1] = s
    BY <1>1, <1>4, <2>1
  <2> QED BY <1>1, <2>2 DEF Occurs
<1>5. NoRepeat(Tail(q))
  BY <1>1 DEF NoRepeat
<1>6. Occurs(q, Head(q))
  BY <1>1 DEF Occurs
<1> QED BY <1>3, <1>4, <1>5, <1>6

-----------------------------------------------------------------------------
(* What the helpers of JobList do, for a state of the right type *)

\* Dropping a reference leaves newjobs alone: it is never positive at rest.
LEMMA DecrefFacts ==
    ASSUME TypeOK, NEW s \in Sessions, Decref(s)
    PROVE  /\ st_jobq' \in [Sessions -> Seq(JobKinds)]
           /\ st_njobs' \in [Sessions -> Int]
           /\ newjobs' = newjobs
           /\ refcnt' \in [Sessions -> Int]
           /\ append_jobq' \in Seq(UnlockedJobs) /\ append_njobs' \in Int
           /\ jobq' = jobq /\ njobs' = njobs
           /\ waiters' \subseteq Workers
<1>1. refcnt' \in [Sessions -> Int]
  BY DEF TypeOK, Decref
<1>2. CASE refcnt[s] = 1
  <2>1. DeferredFree(s)
    BY <1>2 DEF Decref
  <2>2. <<>> \in Seq(JobKinds) /\ Len(st_jobq[s]) \in Nat
    BY DEF TypeOK
  <2>3. newjobs' = newjobs
    BY <2>1, <2>2 DEF TypeOK, DeferredFree, DrainedNew
  <2>4. [type |-> "free", st |-> s] \in UnlockedJobs
    BY DEF UnlockedJobs
  <2>5. append_jobq' \in Seq(UnlockedJobs)
    BY <2>1, <2>4, AppendFacts DEF TypeOK, DeferredFree, AppendUnlocked
  <2>6. st_jobq' \in [Sessions -> Seq(JobKinds)] /\ st_njobs' \in [Sessions -> Int]
    BY <2>1, <2>2 DEF TypeOK, DeferredFree, DrainedCount
  <2> QED
    BY <1>1, <2>1, <2>3, <2>5, <2>6
    DEF TypeOK, DeferredFree, AppendUnlocked, Signal
<1>3. CASE refcnt[s] # 1
  BY <1>1, <1>3, Zenon DEF TypeOK, Decref, stVars, unlockedVars
<1> QED BY <1>2, <1>3

\* The same for ntrip_decref_end().
LEMMA DecrefEndFacts ==
    ASSUME TypeOK, NEW s \in Sessions, NEW isSource \in BOOLEAN,
           DecrefEnd(s, isSource)
    PROVE  /\ st_jobq' \in [Sessions -> Seq(JobKinds)]
           /\ st_njobs' \in [Sessions -> Int]
           /\ newjobs' = newjobs
           /\ refcnt' \in [Sessions -> Int]
           /\ ended' \in [Sessions -> BOOLEAN]
           /\ append_jobq' \in Seq(UnlockedJobs) /\ append_njobs' \in Int
           /\ jobq' = jobq /\ njobs' = njobs
           /\ waiters' \subseteq Workers
<1>1. CASE ended[s]
  BY <1>1, Zenon DEF TypeOK, DecrefEnd, stVars, unlockedVars
<1>2. CASE ~ended[s] /\ isSource
  <2>1. [type |-> "ref", st |-> s] \in UnlockedJobs
    BY DEF UnlockedJobs
  <2>2. /\ ended' = [ended EXCEPT ![s] = TRUE]
        /\ AppendUnlocked([type |-> "ref", st |-> s])
        /\ UNCHANGED <<refcnt, stVars>>
    BY <1>2, Zenon DEF DecrefEnd
  <2>3. append_jobq' \in Seq(UnlockedJobs)
    BY <2>1, <2>2, AppendFacts DEF TypeOK, AppendUnlocked
  <2> QED
    BY <2>2, <2>3 DEF TypeOK, AppendUnlocked, Signal, stVars
<1>3. CASE ~ended[s] /\ ~isSource
  <2>1. Decref(s) /\ ended' = [ended EXCEPT ![s] = TRUE]
    BY <1>3 DEF DecrefEnd
  <2>2. ended' \in [Sessions -> BOOLEAN]
    BY <2>1 DEF TypeOK
  <2> QED BY <2>1, <2>2, DecrefFacts
<1> QED BY <1>1, <1>2, <1>3

\* Appending a job to a session queues the session unless it is queued.
LEMMA EnqueueFacts ==
    ASSUME TypeOK, NEW s \in Sessions, NEW k \in JobKinds, Enqueue(s, k)
    PROVE  /\ st_jobq' \in [Sessions -> Seq(JobKinds)]
           /\ st_njobs' \in [Sessions -> Int]
           /\ newjobs' = [newjobs EXCEPT ![s] = -1]
           /\ newjobs' \in [Sessions -> {-1, 0}]
           /\ append_queue' = IF newjobs[s] = -1 THEN append_queue
                              ELSE Append(append_queue, s)
           /\ append_queue' \in Seq(Sessions) /\ append_ntrip_njobs' \in Int
           /\ ntrip_queue' = ntrip_queue /\ ntrip_njobs' = ntrip_njobs
<1>1. newjobs[s] \in {-1, 0}
  BY DEF TypeOK
<1>2. st_jobq' \in [Sessions -> Seq(JobKinds)]
  BY AppendFacts DEF TypeOK, Enqueue
<1>3. /\ newjobs' = [newjobs EXCEPT ![s] = -1]
      /\ append_queue' = IF newjobs[s] = -1 THEN append_queue
                         ELSE Append(append_queue, s)
      /\ append_ntrip_njobs' \in Int
  <2>1. CASE newjobs[s] = -1
    BY <2>1 DEF TypeOK, Enqueue, NeedsInsert
  <2>2. CASE newjobs[s] = 0
    <3>1. (IF newjobs[s] >= 0 THEN newjobs[s] + 1 ELSE newjobs[s]) = 1
      BY <2>2
    <3>2. /\ append_queue' = Append(append_queue, s)
          /\ append_ntrip_njobs' = append_ntrip_njobs + 1
          /\ newjobs' = [newjobs EXCEPT ![s] = -1]
      BY <3>1, Zenon DEF Enqueue, NeedsInsert
    <3> QED BY <2>2, <3>2 DEF TypeOK
  <2> QED BY <1>1, <2>1, <2>2
<1>4. append_queue' \in Seq(Sessions)
  BY <1>3, AppendFacts DEF TypeOK
<1> QED
  BY <1>2, <1>3, <1>4 DEF TypeOK, Enqueue

-----------------------------------------------------------------------------
(* Type correctness is preserved *)

\* The types, one fact per action.
LEMMA TypeStep ==
    ASSUME IInv, [Next]_vars
    PROVE  TypeOK'
<1> USE ThreadsAssumption
<1> USE DEF IInv, Threads, Goto, unlockedVars, mainVars, stVars, lifeVars,
            threadVars
<1>1. ASSUME NEW l \in Loops, NEW s \in Sessions, NEW k \in LibeventJobs(s),
             LoopAppend(l, s, k)
      PROVE  TypeOK'
  <2>1. CASE Dropped(s, k)
    BY <1>1, <2>1, Zenon DEF TypeOK, LoopAppend
  <2>2. CASE ~Dropped(s, k)
    <3>1. Enqueue(s, k) /\ k \in JobKinds
      BY <1>1, <2>2 DEF LoopAppend, JobKinds
    <3>2. /\ st_jobq' \in [Sessions -> Seq(JobKinds)]
          /\ st_njobs' \in [Sessions -> Int]
          /\ newjobs' \in [Sessions -> {-1, 0}]
          /\ append_queue' \in Seq(Sessions) /\ append_ntrip_njobs' \in Int
          /\ ntrip_queue' = ntrip_queue /\ ntrip_njobs' = ntrip_njobs
      BY <3>1, EnqueueFacts
    <3>3. /\ bev' = [bev EXCEPT ![s] = l]
          /\ hand' = [hand EXCEPT ![l] = s]
          /\ pc' = [pc EXCEPT ![l] = "signal"]
          /\ UNCHANGED <<unlockedVars, lifeVars, mutex, waiters, job, stops>>
      BY <1>1, <2>2, Zenon DEF LoopAppend, Goto
    <3> QED BY <3>2, <3>3, Zenon DEF TypeOK, unlockedVars, lifeVars
  <2> QED BY <2>1, <2>2
<1>2. ASSUME NEW l \in Loops, LoopSignal(l)
      PROVE  TypeOK'
  BY ZenonT(60), <1>2 DEF TypeOK, LoopSignal, Signal, UnlockBev
<1>3. ASSUME StopThread
      PROVE  TypeOK'
  <2>1. append_jobq' \in Seq(UnlockedJobs)
    BY <1>3, AppendFacts, Zenon DEF TypeOK, StopThread, AppendUnlocked, UnlockedJobs
  <2> QED
    BY <1>3, <2>1 DEF TypeOK, StopThread, AppendUnlocked, Signal
<1>23. ASSUME NEW s \in Sessions, DropAll(s)
       PROVE  TypeOK'
  <2>1. PICK isSource \in BOOLEAN : DecrefEnd(s, isSource)
    BY <1>23, Zenon DEF DropAll
  <2>2. /\ st_jobq' \in [Sessions -> Seq(JobKinds)]
        /\ st_njobs' \in [Sessions -> Int]
        /\ newjobs' = newjobs
        /\ refcnt' \in [Sessions -> Int]
        /\ ended' \in [Sessions -> BOOLEAN]
        /\ append_jobq' \in Seq(UnlockedJobs) /\ append_njobs' \in Int
        /\ jobq' = jobq /\ njobs' = njobs
        /\ waiters' \subseteq Workers
    BY <2>1, DecrefEndFacts
  <2> QED BY <1>23, <2>2, Zenon DEF TypeOK, DropAll
<1>4. ASSUME NEW w \in Workers, Lock(w)
      PROVE  TypeOK'
  BY <1>4, Zenon DEF TypeOK, Lock, Labels
<1>5. ASSUME NEW w \in Workers, SpuriousWakeup(w)
      PROVE  TypeOK'
  BY <1>5, Zenon DEF TypeOK, SpuriousWakeup
<1>6. ASSUME NEW w \in Workers, TakeUnlocked(w)
      PROVE  TypeOK'
  <2> DEFINE refill == jobq = <<>>
             q == IF refill THEN append_jobq ELSE jobq
             n == IF refill THEN append_njobs ELSE njobs
  <2>1. q \in Seq(UnlockedJobs) /\ n \in Int
    BY DEF TypeOK
  <2>2. /\ append_jobq' \in Seq(UnlockedJobs) /\ append_njobs' \in Int
        /\ UNCHANGED <<mainVars, stVars, lifeVars, bev, waiters, hand, stops>>
        /\ pc[w] = "top"
    BY <1>6, Zenon DEF TypeOK, TakeUnlocked
  <2>3. CASE q = <<>>
    <3>1. /\ jobq' = q /\ njobs' = n
          /\ job' = [job EXCEPT ![w] = NoJob]
          /\ pc' = [pc EXCEPT ![w] = "sessions"]
          /\ mutex' = mutex
      BY <1>6, <2>3, Zenon DEF TakeUnlocked, Goto
    <3> HIDE DEF q, n
    <3> QED
      BY <2>1, <2>2, <3>1, Zenon DEF TypeOK, Labels, mainVars, stVars, lifeVars
  <2>4. CASE q # <<>>
    <3>1. /\ jobq' = Tail(q) /\ njobs' = n - 1
          /\ job' = [job EXCEPT ![w] = Head(q)]
          /\ pc' = [pc EXCEPT ![w] = Head(q).type]
          /\ mutex' = NoOne
      BY <1>6, <2>4, Zenon DEF TakeUnlocked, Goto
    <3> HIDE DEF q, n
    <3>2. Head(q) \in UnlockedJobs /\ Tail(q) \in Seq(UnlockedJobs)
      BY <2>1, <2>4, TailFacts
    <3>3. /\ Head(q).type \in {"ref", "free", "stop"}
          /\ Head(q).type # "stop" => Head(q).st \in Sessions
      BY <3>2 DEF UnlockedJobs, StopJob
    <3>4. pc' \in [Threads -> Labels \cup {"loop", "signal"}]
      BY <3>1, <3>3, Zenon DEF TypeOK, Labels
    <3>5. job' \in [Threads -> UnlockedJobs \cup {NoJob}]
      BY <3>1, <3>2, Zenon DEF TypeOK
    <3> QED
      BY <2>1, <2>2, <3>1, <3>2, <3>4, <3>5
      DEF TypeOK, mainVars, stVars, lifeVars
  <2> QED BY <2>3, <2>4
<1>7. ASSUME NEW w \in Workers, RunRef(w)
      PROVE  TypeOK'
  <2>1. /\ st_jobq' \in [Sessions -> Seq(JobKinds)]
        /\ st_njobs' \in [Sessions -> Int]
        /\ newjobs' = newjobs
        /\ refcnt' \in [Sessions -> Int]
        /\ ended' \in [Sessions -> BOOLEAN]
        /\ append_jobq' \in Seq(UnlockedJobs) /\ append_njobs' \in Int
        /\ jobq' = jobq /\ njobs' = njobs
        /\ waiters' \subseteq Workers
    <3>1. CASE UNCHANGED <<ended, refcnt, stVars, unlockedVars, waiters>>
      BY <3>1, Zenon DEF TypeOK, stVars, unlockedVars
    <3>2. ASSUME NEW s \in registered, NEW isSource \in BOOLEAN,
                 DecrefEnd(s, isSource)
          PROVE  <2>1
      <4>1. s \in Sessions
        BY DEF TypeOK
      <4> QED BY <3>2, <4>1, DecrefEndFacts
    <3> QED BY <1>7, <3>1, <3>2, Zenon DEF RunRef
  <2> QED BY <1>7, <2>1, Zenon DEF TypeOK, RunRef, Labels
<1>8. ASSUME NEW w \in Workers, Unref(w)
      PROVE  TypeOK'
  <2>1. job[w].st \in Sessions /\ Decref(job[w].st)
    BY <1>8, Zenon DEF PcInv, Unref
  <2>2. /\ st_jobq' \in [Sessions -> Seq(JobKinds)]
        /\ st_njobs' \in [Sessions -> Int]
        /\ newjobs' = newjobs
        /\ refcnt' \in [Sessions -> Int]
        /\ append_jobq' \in Seq(UnlockedJobs) /\ append_njobs' \in Int
        /\ jobq' = jobq /\ njobs' = njobs
        /\ waiters' \subseteq Workers
    BY <2>1, DecrefFacts, Zenon
  <2> QED BY <1>8, <2>2, Zenon DEF TypeOK, Unref, Labels
<1>9. ASSUME NEW w \in Workers, DeferredFree2(w)
      PROVE  TypeOK'
  <2>1. free_queue' \in Seq(Sessions)
    BY <1>9, AppendFacts, Zenon DEF TypeOK, PcInv, DeferredFree2
  <2> QED BY <1>9, <2>1, Zenon DEF TypeOK, DeferredFree2, Labels
<1>10. ASSUME NEW w \in Workers, ExitThread(w)
       PROVE  TypeOK'
  BY <1>10, Zenon DEF TypeOK, ExitThread, Labels
<1>11. ASSUME NEW w \in Workers, TakeSession(w)
       PROVE  TypeOK'
  <2> DEFINE q == IF ntrip_queue = <<>> THEN append_queue ELSE ntrip_queue
  <2>1. /\ UNCHANGED <<unlockedVars, stVars, lifeVars, bev, job, stops>>
        /\ pc[w] = "sessions" /\ mutex = w
        /\ q \in Seq(Sessions)
    BY <1>11, Zenon DEF TypeOK, PcInv, TakeSession
  <2>2. CASE q = <<>> /\ job[w] # NoJob
    <3>1. /\ pc' = [pc EXCEPT ![w] = "top"]
          /\ UNCHANGED <<mainVars, waiters, hand, mutex>>
      BY <1>11, <2>2, Zenon DEF TakeSession, Goto
    <3> QED
      BY <2>1, <3>1, Zenon
      DEF TypeOK, Labels, unlockedVars, mainVars, stVars, lifeVars
  <2>3. CASE q = <<>> /\ job[w] = NoJob
    <3>1. /\ pc' = [pc EXCEPT ![w] = "sleep"]
          /\ mutex' = NoOne
          /\ UNCHANGED <<mainVars, waiters, hand>>
      BY <1>11, <2>3, Zenon DEF TakeSession, Goto
    <3> QED
      BY <2>1, <3>1, Zenon
      DEF TypeOK, Labels, unlockedVars, mainVars, stVars, lifeVars
  <2>4. CASE q # <<>>
    <3>1. Head(q) \in Sessions /\ Tail(q) \in Seq(Sessions)
      BY <2>1, <2>4, TailFacts
    <3>2. /\ ntrip_queue' = Tail(q)
          /\ hand' = [hand EXCEPT ![w] = Head(q)]
          /\ pc' = [pc EXCEPT ![w] = "bev"]
          /\ mutex' = mutex
      BY <1>11, <2>4, Zenon DEF TakeSession, Goto
    <3>3. /\ append_queue' \in Seq(Sessions)
          /\ ntrip_njobs' \in Int /\ append_ntrip_njobs' \in Int
          /\ waiters' \subseteq Workers
      <4>1. CASE ntrip_queue = <<>>
        BY <1>11, <2>4, <4>1 DEF TypeOK, TakeSession, Broadcast
      <4>2. CASE ntrip_queue # <<>>
        BY <1>11, <2>4, <4>2 DEF TypeOK, TakeSession
      <4> QED BY <4>1, <4>2
    <3> HIDE DEF q
    <3> QED
      BY ZenonT(60), <2>1, <3>1, <3>2, <3>3
      DEF TypeOK, Labels, unlockedVars, stVars, lifeVars
  <2> QED BY <2>2, <2>3, <2>4
<1>12. ASSUME NEW w \in Workers, Wait(w)
       PROVE  TypeOK'
  BY <1>12, Zenon DEF TypeOK, Wait, Labels
<1>13. ASSUME NEW w \in Workers, LockSession(w)
       PROVE  TypeOK'
  BY <1>13, Zenon DEF TypeOK, PcInv, LockSession, Labels
<1>14. ASSUME NEW w \in Workers, RunJob(w)
       PROVE  TypeOK'
  <2>1. hand[w] \in Sessions
    BY <1>14, Zenon DEF PcInv, RunJob
  <2>2. st_jobq' \in [Sessions -> Seq(JobKinds)]
    BY <1>14, <2>1, TailFacts DEF TypeOK, RunJob
  <2>3. newjobs' = newjobs
    <3>1. OneLess(newjobs[hand[w]]) = newjobs[hand[w]]
      <4>1. newjobs[hand[w]] = -1 \/ newjobs[hand[w]] = 0
        BY <2>1, Zenon DEF TypeOK
      <4> QED BY <4>1 DEF OneLess
    <3> QED BY <1>14, <2>1, <3>1 DEF TypeOK, RunJob
  <2>4. PICK label \in {"batch", "cb", "lockcb"} : pc' = [pc EXCEPT ![w] = label]
    BY <1>14, Zenon DEF RunJob, Goto
  <2>5. /\ st_njobs' \in [Sessions -> Int]
        /\ UNCHANGED <<unlockedVars, mainVars, lifeVars, mutex, bev, waiters,
                       hand, job, stops>>
    BY <1>14, <2>1 DEF TypeOK, RunJob
  <2>6. pc[w] = "batch"
    BY <1>14, Zenon DEF RunJob
  <2> QED
    BY <2>1, <2>2, <2>3, <2>4, <2>5, <2>6, Zenon
    DEF TypeOK, Labels, unlockedVars, mainVars, lifeVars
<1>15. ASSUME NEW w \in Workers, CbLocked(w)
       PROVE  TypeOK'
  <2>1. CASE Dropped(hand[w], "lock")
    BY <1>15, <2>1, Zenon DEF TypeOK, CbLocked
  <2>2. CASE ~Dropped(hand[w], "lock")
    <3>1. Enqueue(hand[w], "lock") /\ "lock" \in JobKinds /\ hand[w] \in Sessions
      BY <1>15, <2>2, Zenon DEF CbLocked, JobKinds, PcInv
    <3>2. /\ st_jobq' \in [Sessions -> Seq(JobKinds)]
          /\ st_njobs' \in [Sessions -> Int]
          /\ newjobs' \in [Sessions -> {-1, 0}]
          /\ append_queue' \in Seq(Sessions) /\ append_ntrip_njobs' \in Int
          /\ ntrip_queue' = ntrip_queue /\ ntrip_njobs' = ntrip_njobs
      BY <3>1, EnqueueFacts, Zenon
    <3> QED
      BY <1>15, <2>2, <3>2, Zenon DEF TypeOK, CbLocked, Signal
  <2> QED BY <2>1, <2>2
<1>16. ASSUME NEW w \in Workers, CbRef(w)
       PROVE  TypeOK'
  <2>1. append_jobq' \in Seq(UnlockedJobs)
    BY Zenon, <1>16, AppendFacts DEF TypeOK, PcInv, CbRef, AppendUnlocked, UnlockedJobs
  <2>2. refcnt' \in [Sessions -> Int]
    <3>1. refcnt' = [refcnt EXCEPT ![hand[w]] = @ + 1]
      BY ZenonT(60), <1>16 DEF CbRef, Incref
    <3>2. refcnt \in [Sessions -> Int] /\ hand[w] \in Sessions
      BY Zenon, <1>16 DEF TypeOK, PcInv, CbRef
    <3>3. refcnt[hand[w]] + 1 \in Int
      BY <3>2
    <3> QED BY <3>1, <3>2, <3>3
  <2>3. append_njobs' \in Int /\ waiters' \subseteq Workers
    BY <1>16 DEF TypeOK, CbRef, AppendUnlocked, Signal
  <2>4. UNCHANGED <<jobq, njobs, mainVars, stVars, ended, registered, free_queue,
                    freed, mutex, bev, threadVars, stops>>
    BY <1>16, Zenon DEF CbRef, AppendUnlocked
  <2> QED
    BY <2>1, <2>2, <2>3, <2>4, Zenon DEF TypeOK
<1>17. ASSUME NEW w \in Workers, CbEnd(w)
       PROVE  TypeOK'
  <2>1. PICK isSource \in BOOLEAN : DecrefEnd(hand[w], isSource)
    BY <1>17, Zenon DEF CbEnd
  <2>2. hand[w] \in Sessions
    BY <1>17, Zenon DEF CbEnd, PcInv
  <2>3. /\ st_jobq' \in [Sessions -> Seq(JobKinds)]
        /\ st_njobs' \in [Sessions -> Int]
        /\ newjobs' = newjobs
        /\ refcnt' \in [Sessions -> Int]
        /\ ended' \in [Sessions -> BOOLEAN]
        /\ append_jobq' \in Seq(UnlockedJobs) /\ append_njobs' \in Int
        /\ jobq' = jobq /\ njobs' = njobs
        /\ waiters' \subseteq Workers
    BY <2>1, <2>2, DecrefEndFacts, Zenon
  <2> QED BY <1>17, <2>3, Zenon DEF TypeOK, CbEnd, Labels
<1>18. ASSUME NEW w \in Workers, CbReturn(w)
       PROVE  TypeOK'
  BY <1>18, Zenon DEF TypeOK, CbReturn, Labels
<1>19. ASSUME NEW w \in Workers, EndBatch(w)
       PROVE  TypeOK'
  BY ZenonT(60), <1>19 DEF TypeOK, EndBatch, UnlockBev, Labels
<1>20. ASSUME NEW w \in Workers, ReapTake(w)
       PROVE  TypeOK'
  <2>1. CASE free_queue = <<>>
    <3>1. PICK label \in {"lock", "relock"} : pc' = [pc EXCEPT ![w] = label]
      BY <1>20, <2>1, Zenon DEF ReapTake, AfterReap, Goto
    <3> QED
      BY <1>20, <2>1, <3>1, Zenon
      DEF TypeOK, ReapTake, Labels, unlockedVars, mainVars, stVars
  <2>2. CASE free_queue # <<>>
    <3>1. Head(free_queue) \in Sessions /\ Tail(free_queue) \in Seq(Sessions)
      BY <2>2, TailFacts, Zenon DEF TypeOK
    <3>2. /\ hand' = [hand EXCEPT ![w] = Head(free_queue)]
          /\ free_queue' = Tail(free_queue)
          /\ pc' = [pc EXCEPT ![w] = "free1"]
          /\ UNCHANGED <<unlockedVars, mainVars, stVars, ended, refcnt,
                         registered, freed, mutex, bev, waiters, job, stops>>
      BY <1>20, <2>2, Zenon DEF ReapTake, Goto
    <3> QED
      BY <3>1, <3>2, Zenon
      DEF TypeOK, Labels, unlockedVars, mainVars, stVars
  <2> QED BY <2>1, <2>2
<1>21. ASSUME NEW w \in Workers, ReapOne(w)
       PROVE  TypeOK'
  <2>1. hand[w] \in Sessions
    BY <1>21, Zenon DEF PcInv, ReapOne
  <2>2. Append(free_queue, hand[w]) \in Seq(Sessions)
    BY <2>1, AppendFacts, Zenon DEF TypeOK
  <2>3. free_queue' \in Seq(Sessions) /\ freed' \in [Sessions -> BOOLEAN]
    BY ZenonT(60), <1>21, <2>1, <2>2 DEF TypeOK, ReapOne, PutBack
  <2>4. PICK label \in {"lock", "relock", "reap"} : pc' = [pc EXCEPT ![w] = label]
    BY <1>21, Zenon DEF ReapOne, AfterReap, Goto
  <2>5. /\ hand' = [hand EXCEPT ![w] = NoOne]
        /\ UNCHANGED <<unlockedVars, mainVars, stVars, ended, refcnt,
                       registered, mutex, bev, waiters, job, stops>>
    BY <1>21, Zenon DEF ReapOne
  <2> QED
    BY <2>3, <2>4, <2>5, Zenon
    DEF TypeOK, Labels, unlockedVars, mainVars, stVars
<1>22. ASSUME UNCHANGED vars
       PROVE  TypeOK'
  BY <1>22, Zenon DEF TypeOK, vars
<1> QED
  BY <1>1, <1>2, <1>3, <1>4, <1>5, <1>6, <1>7, <1>8, <1>9, <1>10, <1>11, <1>12,
     <1>13, <1>14, <1>15, <1>16, <1>17, <1>18, <1>19, <1>20, <1>21, <1>22,
     <1>23
  DEF Next, WorkerStep

-----------------------------------------------------------------------------
(* A session is in the main queues at most once *)


\* A step that touches neither the main queues, nor newjobs, nor a worker about
\* to lock a session preserves QueuedOnce.
LEMMA QueuedOnceUnchanged ==
    ASSUME QueuedOnce, UNCHANGED <<ntrip_queue, append_queue, newjobs>>,
           \A s \in Sessions : Popped(s)' = Popped(s)
    PROVE  QueuedOnce'
  BY Zenon DEF QueuedOnce, InMainQueue

\* A step of one thread between labels other than "bev" takes no session.
LEMMA PoppedUnchanged ==
    ASSUME TypeOK, NEW t \in Threads, pc[t] # "bev", pc'[t] # "bev",
           \A v \in Workers : v # t => pc'[v] = pc[v] /\ hand'[v] = hand[v]
    PROVE  \A s \in Sessions : Popped(s)' = Popped(s)
  BY Zenon DEF Popped

\* Appending a job to a session that is alive.
LEMMA EnqueueQueuedOnce ==
    ASSUME TypeOK, QueuedOnce, NEW s \in Sessions, NEW k \in JobKinds,
           Enqueue(s, k), \A r \in Sessions : Popped(r)' = Popped(r)
    PROVE  QueuedOnce'
<1>1. /\ newjobs' = [newjobs EXCEPT ![s] = -1]
      /\ append_queue' = IF newjobs[s] = -1 THEN append_queue
                         ELSE Append(append_queue, s)
      /\ ntrip_queue' = ntrip_queue
  BY EnqueueFacts, Zenon
<1>2. CASE newjobs[s] = -1
  <2>1. newjobs' = newjobs /\ append_queue' = append_queue
    BY <1>1, <1>2, Zenon DEF TypeOK
  <2> QED BY <1>1, <2>1, QueuedOnceUnchanged, Zenon
<1>3. CASE newjobs[s] # -1
  <2>1. append_queue \in Seq(Sessions) /\ append_queue' = Append(append_queue, s)
    BY <1>1, <1>3, Zenon DEF TypeOK
  <2>2. ~InMainQueue(s) /\ Popped(s) = {}
    BY <1>3, Zenon DEF QueuedOnce
  <2>3. NoRepeat(append_queue)'
    BY <2>1, <2>2, OccursAppend, Zenon DEF QueuedOnce, InMainQueue
  <2>4. \A r \in Sessions :
          Occurs(append_queue', r) <=> (Occurs(append_queue, r) \/ r = s)
    BY <2>1, OccursAppend, Zenon
  <2>5. \A r \in Sessions : newjobs'[r] = IF r = s THEN -1 ELSE newjobs[r]
    BY <1>1, Zenon DEF TypeOK
  <2>6. NoRepeat(ntrip_queue)' /\ \A r : Occurs(ntrip_queue', r) <=> Occurs(ntrip_queue, r)
    BY <1>1, Zenon DEF QueuedOnce
  <2>7. ASSUME NEW r \in Sessions
        PROVE  /\ ~ (Occurs(ntrip_queue, r)' /\ Occurs(append_queue, r)')
               /\ InMainQueue(r)' => Popped(r)' = {}
               /\ \A v, w \in Popped(r)' : v = w
               /\ (newjobs'[r] = -1) <=> (InMainQueue(r)' \/ Popped(r)' # {})
    <3>1. /\ ~ (Occurs(ntrip_queue, r) /\ Occurs(append_queue, r))
          /\ InMainQueue(r) => Popped(r) = {}
          /\ \A v, w \in Popped(r) : v = w
          /\ (newjobs[r] = -1) <=> (InMainQueue(r) \/ Popped(r) # {})
          /\ Popped(r)' = Popped(r)
      BY Zenon DEF QueuedOnce
    <3>2. /\ Occurs(ntrip_queue, r)' <=> Occurs(ntrip_queue, r)
          /\ Occurs(append_queue, r)' <=> (Occurs(append_queue, r) \/ r = s)
          /\ r = s => newjobs'[r] = -1
          /\ r # s => newjobs'[r] = newjobs[r]
      BY <2>4, <2>5, <2>6, Zenon
    <3> QED BY <2>2, <3>1, <3>2, Zenon DEF InMainQueue
  <2> QED
    BY <2>3, <2>6, <2>7, Zenon DEF QueuedOnce
<1> QED BY <1>2, <1>3

\* One fact per action that touches the main queues; the others stutter.
LEMMA QueueStep ==
    ASSUME IInv, [Next]_vars
    PROVE  QueuedOnce'
<1> USE ThreadsAssumption
<1> USE DEF IInv, Threads, Goto, mainVars, stVars, threadVars
<1>1. ASSUME NEW l \in Loops, NEW s \in Sessions, NEW k \in LibeventJobs(s),
             LoopAppend(l, s, k)
      PROVE  QueuedOnce'
  <2>1. \A r \in Sessions : Popped(r)' = Popped(r)
    BY <1>1 DEF TypeOK, LoopAppend, Popped
  <2>2. CASE Dropped(s, k)
    BY <1>1, <2>1, <2>2, QueuedOnceUnchanged, Zenon DEF LoopAppend
  <2>3. CASE ~Dropped(s, k)
    <3>1. Enqueue(s, k) /\ k \in JobKinds
      BY <1>1, <2>3, Zenon DEF LoopAppend, JobKinds
    <3> QED BY <2>1, <3>1, EnqueueQueuedOnce, Zenon
  <2> QED BY <2>2, <2>3
<1>2. ASSUME NEW w \in Workers, CbLocked(w)
      PROVE  QueuedOnce'
  <2>1. \A r \in Sessions : Popped(r)' = Popped(r)
    BY <1>2, Zenon DEF CbLocked, Popped
  <2>2. CASE Dropped(hand[w], "lock")
    BY <1>2, <2>1, <2>2, QueuedOnceUnchanged, Zenon DEF CbLocked
  <2>3. CASE ~Dropped(hand[w], "lock")
    <3>1. Enqueue(hand[w], "lock") /\ "lock" \in JobKinds /\ hand[w] \in Sessions
      BY <1>2, <2>3, Zenon DEF CbLocked, JobKinds, PcInv
    <3> QED BY <2>1, <3>1, EnqueueQueuedOnce, Zenon
  <2> QED BY <2>2, <2>3
<1>3. ASSUME NEW w \in Workers, TakeSession(w)
      PROVE  QueuedOnce'
  <2> DEFINE q == IF ntrip_queue = <<>> THEN append_queue ELSE ntrip_queue
  <2>1. pc[w] = "sessions" /\ newjobs' = newjobs /\ q \in Seq(Sessions)
    BY <1>3, Zenon DEF TypeOK, TakeSession
  <2>2. CASE q = <<>>
    <3>1. /\ UNCHANGED <<ntrip_queue, append_queue, hand>>
          /\ \E label \in {"top", "sleep"} : pc' = [pc EXCEPT ![w] = label]
      BY <1>3, <2>2, Zenon DEF TakeSession
    <3>2. \A s \in Sessions : Popped(s)' = Popped(s)
      BY <2>1, <3>1 DEF TypeOK, Popped
    <3> QED BY <2>1, <3>1, <3>2, QueuedOnceUnchanged, Zenon
  <2>3. CASE q # <<>>
    <3>1. /\ ntrip_queue' = Tail(q)
          /\ append_queue' = IF ntrip_queue = <<>> THEN <<>> ELSE append_queue
          /\ hand' = [hand EXCEPT ![w] = Head(q)]
          /\ pc' = [pc EXCEPT ![w] = "bev"]
      BY <1>3, <2>3, Zenon DEF TakeSession
    <3>2. \A s \in Sessions :
            /\ InMainQueue(s) <=> (Occurs(q, s) \/ Occurs(append_queue', s))
            /\ ~ (Occurs(q, s) /\ Occurs(append_queue', s))
      <4>1. \A s : ~Occurs(<<>>, s)
        BY DEF Occurs
      <4> QED BY <3>1, <4>1, Zenon DEF InMainQueue, QueuedOnce
    <3>3. NoRepeat(q) /\ NoRepeat(append_queue')
      <4>1. NoRepeat(<<>>)
        BY DEF NoRepeat
      <4> QED BY <3>1, <4>1, Zenon DEF QueuedOnce
    <3>4. PICK h \in Sessions : h = Head(q)
      BY <2>1, <2>3, TailFacts, Zenon
    <3>5. /\ \A s \in Sessions : Occurs(Tail(q), s) <=> (Occurs(q, s) /\ s # h)
          /\ NoRepeat(Tail(q))
          /\ Occurs(q, h)
      BY <2>1, <2>3, <3>3, <3>4, OccursTail, Zenon
    <3> HIDE DEF q
    <3>6. /\ Popped(h)' = Popped(h) \cup {w}
          /\ \A s \in Sessions : s # h => Popped(s)' = Popped(s)
      <4>1. hand'[w] = h /\ pc'[w] = "bev" /\ pc[w] # "bev"
        BY <2>1, <3>1, <3>4, Zenon DEF TypeOK
      <4>2. \A v \in Workers : v # w => hand'[v] = hand[v] /\ pc'[v] = pc[v]
        BY <3>1, Zenon DEF TypeOK
      <4>3. \A s \in Sessions, v \in Workers :
              v \in Popped(s)' <=> (pc'[v] = "bev" /\ hand'[v] = s)
        BY Zenon DEF Popped
      <4>4. \A s \in Sessions, v \in Workers :
              v \in Popped(s) <=> (pc[v] = "bev" /\ hand[v] = s)
        BY Zenon DEF Popped
      <4>5. \A s \in Sessions : Popped(s)' \subseteq Workers /\ Popped(s) \subseteq Workers
        BY Zenon DEF Popped
      <4>6. ASSUME NEW s \in Sessions, NEW v \in Workers
            PROVE  v \in Popped(s)' <=> (v \in Popped(s) \/ (s = h /\ v = w))
        BY <4>1, <4>2, <4>3, <4>4
      <4> QED BY <3>4, <4>5, <4>6, Zenon
    <3>7. Popped(h) = {} /\ newjobs[h] = -1
      BY <3>2, <3>4, <3>5, Zenon DEF QueuedOnce
    <3>8. \A s \in Sessions :
            InMainQueue(s)' <=> ((Occurs(q, s) /\ s # h) \/ Occurs(append_queue', s))
      BY <3>1, <3>5, Zenon DEF InMainQueue
    <3>9. NoRepeat(ntrip_queue)' /\ NoRepeat(append_queue)'
      BY <3>1, <3>3, <3>5
    <3>10. ASSUME NEW s \in Sessions
           PROVE  /\ ~ (Occurs(ntrip_queue, s) /\ Occurs(append_queue, s))'
                  /\ InMainQueue(s)' => Popped(s)' = {}
                  /\ \A u, v \in Popped(s)' : u = v
                  /\ (newjobs'[s] = -1) <=> (InMainQueue(s)' \/ Popped(s)' # {})
      <4>1. CASE s = h
        BY ZenonT(60), <2>1, <3>1, <3>2, <3>4, <3>5, <3>6, <3>7, <3>8, <4>1
      <4>2. CASE s # h
        <5>1. /\ InMainQueue(s) => Popped(s) = {}
              /\ \A u, v \in Popped(s) : u = v
              /\ (newjobs[s] = -1) <=> (InMainQueue(s) \/ Popped(s) # {})
          BY Zenon DEF QueuedOnce
        <5>2. Popped(s)' = Popped(s) /\ newjobs'[s] = newjobs[s]
          BY <2>1, <3>6, <4>2, Zenon
        <5>3. InMainQueue(s)' <=> InMainQueue(s)
          BY <3>2, <3>8, <4>2, Zenon
        <5>4. ~ (Occurs(ntrip_queue', s) /\ Occurs(append_queue', s))
          BY <3>1, <3>2, <3>5, <4>2, Zenon
        <5> QED BY <5>1, <5>2, <5>3, <5>4, Zenon
      <4> QED BY <4>1, <4>2, Zenon
    <3> QED BY <3>9, <3>10, Zenon DEF QueuedOnce
  <2> QED BY <2>2, <2>3
<1>4. ASSUME NEW w \in Workers, LockSession(w)
      PROVE  QueuedOnce'
  <2>1. /\ pc[w] = "bev" /\ hand[w] \in Sessions
        /\ newjobs' = [newjobs EXCEPT ![hand[w]] = 0]
        /\ pc' = [pc EXCEPT ![w] = "batch"]
        /\ UNCHANGED <<ntrip_queue, append_queue, hand>>
    BY <1>4, Zenon DEF LockSession, PcInv
  <2>h. PICK h \in Sessions : h = hand[w]
    BY <2>1, Zenon
  <2>2. \A s \in Sessions : Popped(s)' = Popped(s) \ {w}
    BY <2>1, Zenon DEF TypeOK, Popped
  <2>3. w \in Popped(h)
    BY <2>1, <2>h, Zenon DEF Popped
  <2>4. Popped(h)' = {} /\ ~InMainQueue(h)
    BY <2>2, <2>3 DEF QueuedOnce
  <2>5. \A s \in Sessions : s # h => Popped(s)' = Popped(s)
    BY <2>1, <2>2, <2>h DEF Popped
  <2>6. \A s \in Sessions : newjobs'[s] = IF s = h THEN 0 ELSE newjobs[s]
    BY <2>1, <2>h, Zenon DEF TypeOK
  <2>7. \A s \in Sessions : InMainQueue(s)' <=> InMainQueue(s)
    BY <2>1, Zenon DEF InMainQueue
  <2>8. NoRepeat(ntrip_queue)' /\ NoRepeat(append_queue)'
    BY <2>1, Zenon DEF QueuedOnce
  <2>9. ASSUME NEW s \in Sessions
        PROVE  /\ ~ (Occurs(ntrip_queue, s) /\ Occurs(append_queue, s))'
               /\ InMainQueue(s)' => Popped(s)' = {}
               /\ \A u, v \in Popped(s)' : u = v
               /\ (newjobs'[s] = -1) <=> (InMainQueue(s)' \/ Popped(s)' # {})
    <3>1. ~ (Occurs(ntrip_queue, s) /\ Occurs(append_queue, s))'
      BY <2>1, Zenon DEF QueuedOnce
    <3>2. CASE s = h
      BY <2>4, <2>6, <2>7, <3>1, <3>2
    <3>3. CASE s # h
      <4>1. /\ InMainQueue(s) => Popped(s) = {}
            /\ \A u, v \in Popped(s) : u = v
            /\ (newjobs[s] = -1) <=> (InMainQueue(s) \/ Popped(s) # {})
        BY DEF QueuedOnce
      <4>2. Popped(s)' = Popped(s) /\ newjobs'[s] = newjobs[s]
        BY <2>5, <2>6, <3>3, Zenon
      <4> QED BY <2>7, <3>1, <4>1, <4>2, Zenon
    <3> QED BY <3>2, <3>3
  <2> QED BY <2>8, <2>9, Zenon DEF QueuedOnce
<1>5. ASSUME NEW l \in Loops, LoopSignal(l)
      PROVE  QueuedOnce'
  <2>1. \A s \in Sessions : Popped(s)' = Popped(s)
    BY <1>5, Zenon DEF TypeOK, LoopSignal, Popped
  <2> QED BY <1>5, <2>1, QueuedOnceUnchanged, Zenon DEF LoopSignal
<1>6. ASSUME NEW w \in Workers,
             \/ RunRef(w) \/ Unref(w) \/ CbEnd(w)
      PROVE  QueuedOnce'
  <2>1. newjobs' = newjobs
    <3>1. CASE RunRef(w)
      <4>1. CASE newjobs' = newjobs
        BY <4>1
      <4>2. ASSUME NEW s \in registered, NEW isSource \in BOOLEAN,
                   DecrefEnd(s, isSource)
            PROVE  newjobs' = newjobs
        BY <4>2, DecrefEndFacts DEF TypeOK
      <4> QED BY <3>1, <4>1, <4>2, Zenon DEF RunRef
    <3>2. CASE Unref(w)
      BY <3>2, DecrefFacts, Zenon DEF Unref, PcInv
    <3>3. CASE CbEnd(w)
      <4>1. hand[w] \in Sessions
        BY <3>3, Zenon DEF CbEnd, PcInv
      <4>2. PICK isSource \in BOOLEAN : DecrefEnd(hand[w], isSource)
        BY <3>3 DEF CbEnd
      <4> QED BY <4>1, <4>2, DecrefEndFacts, Zenon
    <3> QED BY <1>6, <3>1, <3>2, <3>3
  <2>2. /\ UNCHANGED <<mainVars, hand>>
        /\ pc[w] # "bev"
        /\ \E label \in {"unref", "relock", "batch"} : pc' = [pc EXCEPT ![w] = label]
    BY <1>6, Zenon DEF RunRef, Unref, CbEnd
  <2>3. \A s \in Sessions : Popped(s)' = Popped(s)
    BY <2>2 DEF TypeOK, Popped
  <2> QED BY <2>1, <2>2, <2>3, QueuedOnceUnchanged, Zenon
<1>7. ASSUME NEW w \in Workers, RunJob(w)
      PROVE  QueuedOnce'
  <2>1. hand[w] \in Sessions
    BY <1>7, Zenon DEF PcInv, RunJob
  <2>2. newjobs' = newjobs
    <3>1. OneLess(newjobs[hand[w]]) = newjobs[hand[w]]
      <4>1. newjobs[hand[w]] = -1 \/ newjobs[hand[w]] = 0
        BY <2>1 DEF TypeOK
      <4> QED BY <4>1 DEF OneLess
    <3> QED BY <1>7, <2>1, <3>1 DEF TypeOK, RunJob
  <2>3. /\ UNCHANGED <<mainVars, hand>> /\ pc[w] = "batch"
        /\ \E label \in {"batch", "cb", "lockcb"} : pc' = [pc EXCEPT ![w] = label]
    BY ZenonT(60), <1>7 DEF RunJob
  <2>4. \A s \in Sessions : Popped(s)' = Popped(s)
    BY <2>3 DEF TypeOK, Popped
  <2> QED BY <2>2, <2>3, <2>4, QueuedOnceUnchanged, Zenon
<1>8. ASSUME NEW w \in Workers,
             \/ Lock(w) \/ TakeUnlocked(w) \/ DeferredFree2(w) \/ ExitThread(w)
             \/ Wait(w) \/ CbReturn(w) \/ EndBatch(w) \/ ReapTake(w) \/ ReapOne(w)
      PROVE  QueuedOnce'
  <2>1. UNCHANGED <<mainVars, newjobs>>
    BY <1>8, Zenon DEF Lock, TakeUnlocked, DeferredFree2, ExitThread, Wait, CbReturn,
                EndBatch, ReapTake, ReapOne
  <2>2. pc[w] # "bev" /\ \E label : label # "bev" /\ pc' = [pc EXCEPT ![w] = label]
    <3>1. CASE Lock(w)
      BY <3>1, Zenon DEF Lock
    <3>2. CASE TakeUnlocked(w)
      <4> DEFINE q == IF jobq = <<>> THEN append_jobq ELSE jobq
      <4>1. q \in Seq(UnlockedJobs)
        BY Zenon DEF TypeOK
      <4>2. CASE q = <<>>
        BY ZenonT(60), <3>2, <4>2 DEF TakeUnlocked
      <4>3. CASE q # <<>>
        <5>1. pc[w] = "top" /\ pc' = [pc EXCEPT ![w] = Head(q).type]
          BY <3>2, <4>3, Zenon DEF TakeUnlocked
        <5>2. Head(q) \in UnlockedJobs
          BY <4>1, <4>3, TailFacts, Zenon
        <5>3. Head(q).type # "bev"
          BY <5>2 DEF UnlockedJobs, StopJob
        <5> QED BY ZenonT(60), <5>1, <5>3
      <4> QED BY <4>2, <4>3, Zenon
    <3>3. CASE DeferredFree2(w)
      BY <3>3, Zenon DEF DeferredFree2
    <3>4. CASE ExitThread(w)
      BY <3>4, Zenon DEF ExitThread
    <3>5. CASE Wait(w)
      BY <3>5, Zenon DEF Wait
    <3>6. CASE CbReturn(w)
      BY <3>6, Zenon DEF CbReturn
    <3>7. CASE EndBatch(w)
      BY <3>7, Zenon DEF EndBatch
    <3>8. CASE ReapTake(w)
      BY <3>8, Zenon DEF ReapTake, AfterReap
    <3>9. CASE ReapOne(w)
      BY <3>9, Zenon DEF ReapOne, AfterReap
    <3> QED BY <1>8, <3>1, <3>2, <3>3, <3>4, <3>5, <3>6, <3>7, <3>8, <3>9, Zenon
  <2>3. \A v \in Workers : v # w => hand'[v] = hand[v]
    BY ZenonT(60), <1>8 DEF TypeOK, Lock, TakeUnlocked, DeferredFree2, ExitThread, Wait, CbReturn,
                EndBatch, ReapTake, ReapOne
  <2>4. pc'[w] # "bev" /\ \A v \in Workers : v # w => pc'[v] = pc[v]
    BY <2>2, Zenon DEF TypeOK
  <2>5. \A s \in Sessions : Popped(s)' = Popped(s)
    BY <2>2, <2>3, <2>4, PoppedUnchanged, Zenon
  <2> QED BY <2>1, <2>5, QueuedOnceUnchanged, Zenon
<1>9. ASSUME \/ StopThread
             \/ \E w \in Workers : SpuriousWakeup(w) \/ CbRef(w)
             \/ UNCHANGED vars
      PROVE  QueuedOnce'
  <2>1. UNCHANGED <<ntrip_queue, append_queue, newjobs, pc, hand>>
    BY <1>9, Zenon DEF StopThread, SpuriousWakeup, CbRef, vars
  <2>2. \A s \in Sessions : Popped(s)' = Popped(s)
    BY <2>1, Zenon DEF Popped
  <2> QED BY <2>1, <2>2, QueuedOnceUnchanged, Zenon
<1>10. ASSUME NEW s \in Sessions, DropAll(s)
       PROVE  QueuedOnce'
  <2>1. newjobs' = newjobs
    BY <1>10, DecrefEndFacts, Zenon DEF DropAll
  <2>2. UNCHANGED <<ntrip_queue, append_queue, pc, hand>>
    BY <1>10, Zenon DEF DropAll
  <2>3. \A t \in Sessions : Popped(t)' = Popped(t)
    BY <2>2, Zenon DEF Popped
  <2> QED BY <2>1, <2>2, <2>3, QueuedOnceUnchanged, Zenon
<1> QED
  BY <1>1, <1>2, <1>3, <1>4, <1>5, <1>6, <1>7, <1>8, <1>9, <1>10, Zenon DEF Next, WorkerStep

-----------------------------------------------------------------------------
(* The places of the threads are preserved *)

\* A worker moves, and what the other threads hold stays the same.
LEMMA WorkerMoves ==
    ASSUME IInv, NEW w \in Workers, NEW label \in Labels,
           pc' = [pc EXCEPT ![w] = label],
           \A v \in Threads : v # w => hand'[v] = hand[v] /\ job'[v] = job[v],
           label \in {"bev", "batch", "cb", "lockcb", "free1"} => hand'[w] \in Sessions,
           label \in {"ref", "unref", "free"} => job'[w].st \in Sessions,
           label \in {"top", "sessions", "bev"} => mutex' = w,
           mutex' = mutex \/ mutex = NoOne \/ mutex = w
    PROVE  PcInv'
<1>1. pc \in [Threads -> Labels \cup {"loop", "signal"}] /\ PcInv
  BY Zenon DEF IInv, TypeOK
<1>2. w \in Threads /\ w \notin Loops /\ NoOne \notin Workers
  BY ThreadsAssumption, Zenon DEF Threads
<1>3. \A v \in Threads : pc'[v] = IF v = w THEN label ELSE pc[v]
  BY <1>1, <1>2, Zenon
<1>4. ASSUME NEW v \in Workers
      PROVE  /\ pc'[v] \in Labels
             /\ pc'[v] \in {"bev", "batch", "cb", "lockcb", "free1"} => hand'[v] \in Sessions
             /\ pc'[v] \in {"ref", "unref", "free"} => job'[v].st \in Sessions
             /\ pc'[v] \in {"top", "sessions", "bev"} => mutex' = v
  <2>1. CASE v = w
    BY <1>2, <1>3, <2>1, Zenon
  <2>2. CASE v # w
    <3>1. pc'[v] = pc[v] /\ hand'[v] = hand[v] /\ job'[v] = job[v]
      BY <1>3, <2>2, Zenon DEF Threads
    <3>2. mutex = v => mutex' = v
      BY <1>2, <2>2, Zenon
    <3> QED BY <1>1, <3>1, <3>2, Zenon DEF PcInv
  <2> QED BY <2>1, <2>2, Zenon
<1>5. ASSUME NEW l \in Loops
      PROVE  /\ pc'[l] \in {"loop", "signal"}
             /\ pc'[l] = "signal" => hand'[l] \in Sessions
  <2>1. pc'[l] = pc[l] /\ hand'[l] = hand[l]
    BY <1>2, <1>3, Zenon DEF Threads
  <2> QED BY <1>1, <2>1, Zenon DEF PcInv
<1> QED BY <1>4, <1>5, Zenon DEF PcInv

\* Where the threads are, one fact per action that moves one.
LEMMA PcStep ==
    ASSUME IInv, [Next]_vars
    PROVE  PcInv'
<1> USE DEF Goto, threadVars
<1>0. /\ PcInv /\ hand \in [Threads -> Sessions \cup {NoOne}]
      /\ job \in [Threads -> UnlockedJobs \cup {NoJob}]
      /\ pc \in [Threads -> Labels \cup {"loop", "signal"}]
      /\ Workers \subseteq Threads /\ Loops \subseteq Threads
      /\ Workers \cap Loops = {}
  BY ThreadsAssumption, Zenon DEF IInv, TypeOK, Threads
<1>1. ASSUME NEW l \in Loops, NEW s \in Sessions, NEW k \in LibeventJobs(s),
             LoopAppend(l, s, k)
      PROVE  PcInv'
  <2>1. CASE Dropped(s, k)
    BY <1>0, <1>1, <2>1, Zenon DEF LoopAppend, PcInv
  <2>2. CASE ~Dropped(s, k)
    <3>1. /\ hand' = [hand EXCEPT ![l] = s] /\ pc' = [pc EXCEPT ![l] = "signal"]
          /\ job' = job /\ mutex' = mutex
      BY <1>1, <2>2, Zenon DEF LoopAppend
    <3>2. \A t \in Threads : /\ pc'[t] = IF t = l THEN "signal" ELSE pc[t]
                             /\ hand'[t] = IF t = l THEN s ELSE hand[t]
      BY <1>0, <3>1, Zenon
    <3> QED BY <1>0, <3>1, <3>2, Zenon DEF PcInv
  <2> QED BY <2>1, <2>2, Zenon
<1>2. ASSUME NEW l \in Loops, LoopSignal(l)
      PROVE  PcInv'
  <2>1. /\ hand' = [hand EXCEPT ![l] = NoOne] /\ pc' = [pc EXCEPT ![l] = "loop"]
        /\ job' = job /\ mutex' = mutex
    BY <1>2, Zenon DEF LoopSignal
  <2>2. \A t \in Threads : /\ pc'[t] = IF t = l THEN "loop" ELSE pc[t]
                           /\ hand'[t] = IF t = l THEN NoOne ELSE hand[t]
    BY <1>0, <2>1, Zenon
  <2> QED BY <1>0, <2>1, <2>2, Zenon DEF PcInv
<1>3. ASSUME NEW w \in Workers, Lock(w)
      PROVE  PcInv'
  <2>1. /\ mutex = NoOne /\ mutex' = w /\ hand' = hand /\ job' = job
        /\ \E label \in {"sessions", "top"} : pc' = [pc EXCEPT ![w] = label]
    BY <1>3, Zenon DEF Lock
  <2> QED BY <2>1, WorkerMoves, Zenon DEF Labels
<1>4. ASSUME NEW w \in Workers, TakeUnlocked(w)
      PROVE  PcInv'
  <2> DEFINE q == IF jobq = <<>> THEN append_jobq ELSE jobq
  <2>1. q \in Seq(UnlockedJobs) /\ mutex = w /\ hand' = hand
    BY <1>0, <1>4, Zenon DEF IInv, TypeOK, PcInv, TakeUnlocked
  <2>2. CASE q = <<>>
    <3>1. /\ pc' = [pc EXCEPT ![w] = "sessions"] /\ mutex' = mutex
          /\ job' = [job EXCEPT ![w] = NoJob]
      BY <1>4, <2>2, Zenon DEF TakeUnlocked
    <3> QED BY <1>0, <2>1, <3>1, WorkerMoves, Zenon DEF Labels
  <2>3. CASE q # <<>>
    <3>1. /\ pc' = [pc EXCEPT ![w] = Head(q).type] /\ mutex' = NoOne
          /\ job' = [job EXCEPT ![w] = Head(q)]
      BY <1>4, <2>3, Zenon DEF TakeUnlocked
    <3>2. Head(q) \in UnlockedJobs
      BY <2>1, <2>3, TailFacts, Zenon
    <3> HIDE DEF q
    <3>3. /\ Head(q).type \in {"ref", "free", "stop"}
          /\ Head(q).type # "stop" => Head(q).st \in Sessions
      BY <3>2 DEF UnlockedJobs, StopJob
    <3>4. job'[w] = Head(q) /\ \A v \in Threads : v # w => job'[v] = job[v]
      BY <1>0, <3>1, Zenon
    <3> QED BY <2>1, <3>1, <3>3, <3>4, WorkerMoves, Zenon DEF Labels
  <2> QED BY <2>2, <2>3
<1>5. ASSUME NEW w \in Workers, TakeSession(w)
      PROVE  PcInv'
  <2> DEFINE q == IF ntrip_queue = <<>> THEN append_queue ELSE ntrip_queue
  <2>1. q \in Seq(Sessions) /\ mutex = w /\ job' = job
    BY <1>0, <1>5, Zenon DEF IInv, TypeOK, PcInv, TakeSession
  <2>2. CASE q = <<>>
    <3>1. /\ hand' = hand
          /\ \/ pc' = [pc EXCEPT ![w] = "top"] /\ mutex' = mutex
             \/ pc' = [pc EXCEPT ![w] = "sleep"] /\ mutex' = NoOne
      BY <1>5, <2>2, Zenon DEF TakeSession
    <3> QED BY <2>1, <3>1, WorkerMoves, Zenon DEF Labels
  <2>3. CASE q # <<>>
    <3>1. /\ pc' = [pc EXCEPT ![w] = "bev"] /\ mutex' = mutex
          /\ hand' = [hand EXCEPT ![w] = Head(q)]
      BY <1>5, <2>3, Zenon DEF TakeSession
    <3>2. Head(q) \in Sessions
      BY <2>1, <2>3, TailFacts, Zenon
    <3> HIDE DEF q
    <3>3. hand'[w] \in Sessions /\ \A v \in Threads : v # w => hand'[v] = hand[v]
      BY <1>0, <3>1, <3>2, Zenon
    <3> QED BY <2>1, <3>1, <3>3, WorkerMoves, Zenon DEF Labels
  <2> QED BY <2>2, <2>3
<1>6. ASSUME NEW w \in Workers,
             \/ RunRef(w) \/ Unref(w) \/ DeferredFree2(w) \/ ExitThread(w) \/ Wait(w)
      PROVE  PcInv'
  <2>1. UNCHANGED <<hand, job, mutex>>
    BY <1>6, Zenon DEF RunRef, Unref, DeferredFree2, ExitThread, Wait
  <2>2. CASE RunRef(w)
    <3>1. pc' = [pc EXCEPT ![w] = "unref"] /\ job[w].st \in Sessions
      BY <1>0, <2>2, Zenon DEF RunRef, PcInv
    <3> QED BY <2>1, <3>1, WorkerMoves, Zenon DEF Labels
  <2>3. CASE Unref(w) \/ DeferredFree2(w) \/ ExitThread(w) \/ Wait(w)
    <3>1. \E label \in {"relock", "reap", "exited", "wait"} :
            pc' = [pc EXCEPT ![w] = label]
      BY <2>3, Zenon DEF Unref, DeferredFree2, ExitThread, Wait
    <3> QED BY <2>1, <3>1, WorkerMoves, Zenon DEF Labels
  <2> QED BY <1>6, <2>2, <2>3, Zenon
<1>7. ASSUME NEW w \in Workers,
             LockSession(w) \/ RunJob(w) \/ CbEnd(w) \/ CbReturn(w)
      PROVE  PcInv'
  <2>1. /\ UNCHANGED <<hand, job>>
        /\ \E label \in {"batch", "cb", "lockcb"} : pc' = [pc EXCEPT ![w] = label]
    BY <1>7, Zenon DEF LockSession, RunJob, CbEnd, CbReturn
  <2>2. hand[w] \in Sessions
    BY <1>0, <1>7, Zenon DEF LockSession, RunJob, CbEnd, CbReturn, PcInv
  <2>3. mutex' = mutex \/ mutex = w
    BY <1>0, <1>7, Zenon DEF LockSession, RunJob, CbEnd, CbReturn, PcInv
  <2> QED BY <2>1, <2>2, <2>3, WorkerMoves, Zenon DEF Labels
<1>8. ASSUME NEW w \in Workers, EndBatch(w)
      PROVE  PcInv'
  <2>1. /\ hand' = [hand EXCEPT ![w] = NoOne] /\ job' = [job EXCEPT ![w] = NoJob]
        /\ pc' = [pc EXCEPT ![w] = "reap"] /\ mutex' = mutex
    BY <1>8, Zenon DEF EndBatch
  <2>2. \A v \in Threads : v # w => hand'[v] = hand[v] /\ job'[v] = job[v]
    BY <1>0, <2>1, Zenon
  <2> QED BY <2>1, <2>2, WorkerMoves, Zenon DEF Labels
<1>9. ASSUME NEW w \in Workers, ReapTake(w)
      PROVE  PcInv'
  <2>1. CASE free_queue = <<>>
    <3>1. /\ UNCHANGED <<hand, job, mutex>>
          /\ \E label \in {"lock", "relock"} : pc' = [pc EXCEPT ![w] = label]
      BY <1>9, <2>1, Zenon DEF ReapTake, AfterReap
    <3> QED BY <3>1, WorkerMoves, Zenon DEF Labels
  <2>2. CASE free_queue # <<>>
    <3>1. /\ hand' = [hand EXCEPT ![w] = Head(free_queue)] /\ UNCHANGED <<job, mutex>>
          /\ pc' = [pc EXCEPT ![w] = "free1"]
      BY <1>9, <2>2, Zenon DEF ReapTake
    <3>2. Head(free_queue) \in Sessions
      BY <2>2, TailFacts, Zenon DEF IInv, TypeOK
    <3>3. hand'[w] \in Sessions /\ \A v \in Threads : v # w => hand'[v] = hand[v]
      BY <1>0, <3>1, <3>2, Zenon
    <3> QED BY <3>1, <3>3, WorkerMoves, Zenon DEF Labels
  <2> QED BY <2>1, <2>2
<1>10. ASSUME NEW w \in Workers, ReapOne(w)
       PROVE  PcInv'
  <2>1. /\ hand' = [hand EXCEPT ![w] = NoOne] /\ UNCHANGED <<job, mutex>>
        /\ \E label \in {"lock", "relock", "reap"} : pc' = [pc EXCEPT ![w] = label]
    BY <1>10, Zenon DEF ReapOne, AfterReap
  <2>2. \A v \in Threads : v # w => hand'[v] = hand[v]
    BY <1>0, <2>1, Zenon
  <2> QED BY <2>1, <2>2, WorkerMoves, Zenon DEF Labels
<1>11. ASSUME \/ StopThread \/ \E s \in Sessions : DropAll(s)
              \/ \E w \in Workers : SpuriousWakeup(w) \/ CbLocked(w) \/ CbRef(w)
              \/ UNCHANGED vars
       PROVE  PcInv'
  <2>1. UNCHANGED <<pc, hand, job, mutex>>
    BY <1>11, Zenon DEF StopThread, DropAll, SpuriousWakeup, CbLocked, CbRef, vars
  <2> QED BY <1>0, <2>1, Zenon DEF PcInv
<1> QED
  BY <1>1, <1>2, <1>3, <1>4, <1>5, <1>6, <1>7, <1>8, <1>9, <1>10, <1>11, Zenon
  DEF Next, WorkerStep

-----------------------------------------------------------------------------
(* The lock order *)

\* The labels at which a worker holds the mutex, and those at which a thread
\* holds the bufferevent of the session in hand.
MutexLabels == {"top", "sessions", "bev"}
\* What a lock owner is doing, as far as the steps below need to know.
LEMMA LockFacts ==
    ASSUME IInv
    PROVE  /\ pc \in [Threads -> Labels \cup {"loop", "signal"}]
           /\ hand \in [Threads -> Sessions \cup {NoOne}]
           /\ mutex \in Threads \cup {NoOne}
           /\ bev \in [Sessions -> Threads \cup {NoOne}]
           /\ NoOne \notin Threads
           /\ mutex # NoOne => pc[mutex] \in MutexLabels
           /\ \A s \in Sessions : bev[s] # NoOne =>
                bev[s] \in Threads /\ hand[bev[s]] = s /\ pc[bev[s]] \in BevLabels
<1>1. TypeOK /\ LockOrder
  BY DEF IInv
<1>2. NoOne \notin Threads
  BY ThreadsAssumption DEF Threads
<1>3. bev \in [Sessions -> Threads \cup {NoOne}] /\ mutex \in Threads \cup {NoOne}
  BY <1>1, Zenon DEF TypeOK, Threads
<1> QED BY <1>1, <1>2, <1>3 DEF TypeOK, LockOrder, MutexLabels, BevLabels

\* A thread that holds no lock moves, and takes none.
LEMMA IdleStep ==
    ASSUME IInv, NEW t \in Threads, NEW label,
           pc[t] \notin MutexLabels \cup BevLabels,
           pc' = [pc EXCEPT ![t] = label],
           \A v \in Threads : v # t => hand'[v] = hand[v],
           UNCHANGED <<mutex, bev>>
    PROVE  LockOrder'
<1>1. \A v \in Threads : v # t => pc'[v] = pc[v] /\ hand'[v] = hand[v]
  BY LockFacts, Zenon
<1>2. mutex # t /\ \A s \in Sessions : bev[s] # t
  BY LockFacts
<1>3. mutex' # NoOne => pc'[mutex'] \in MutexLabels
  BY <1>1, <1>2, LockFacts, Zenon
<1>4. \A s \in Sessions : bev'[s] # NoOne =>
        hand'[bev'[s]] = s /\ pc'[bev'[s]] \in BevLabels
  BY <1>1, <1>2, LockFacts, Zenon
<1> QED BY <1>3, <1>4, Zenon DEF LockOrder, MutexLabels, BevLabels

\* A thread that holds the session in hand goes on with it.
LEMMA BatchStep ==
    ASSUME IInv, NEW t \in Threads, NEW label \in BevLabels,
           pc[t] \in BevLabels,
           pc' = [pc EXCEPT ![t] = label],
           UNCHANGED <<hand, mutex, bev>>
    PROVE  LockOrder'
<1>1. \A v \in Threads : pc'[v] = IF v = t THEN label ELSE pc[v]
  BY LockFacts, Zenon
<1>2. mutex # t
  BY LockFacts, Zenon DEF MutexLabels, BevLabels
<1>3. mutex' # NoOne => pc'[mutex'] \in MutexLabels
  BY <1>1, <1>2, LockFacts, Zenon
<1>4. \A s \in Sessions : bev'[s] # NoOne =>
        hand'[bev'[s]] = s /\ pc'[bev'[s]] \in BevLabels
  BY <1>1, LockFacts, Zenon
<1> QED BY <1>3, <1>4, Zenon DEF LockOrder, MutexLabels, BevLabels

\* A thread releases the session in hand.
LEMMA ReleaseStep ==
    ASSUME IInv, NEW t \in Threads, NEW label,
           pc[t] \in BevLabels,
           pc' = [pc EXCEPT ![t] = label],
           hand' = [hand EXCEPT ![t] = NoOne],
           bev' = [bev EXCEPT ![hand[t]] = NoOne],
           UNCHANGED mutex
    PROVE  LockOrder'
<1>1. \A v \in Threads : v # t => pc'[v] = pc[v] /\ hand'[v] = hand[v]
  BY LockFacts, Zenon
<1>2. mutex # t
  BY LockFacts, Zenon DEF MutexLabels, BevLabels
<1>3. mutex' # NoOne => pc'[mutex'] \in MutexLabels
  BY <1>1, <1>2, LockFacts, Zenon
<1>4. \A s \in Sessions : bev'[s] # NoOne => bev'[s] = bev[s] /\ bev[s] # t
  BY LockFacts, Zenon
<1>5. \A s \in Sessions : bev'[s] # NoOne =>
        hand'[bev'[s]] = s /\ pc'[bev'[s]] \in BevLabels
  BY <1>1, <1>4, LockFacts
<1> QED BY <1>3, <1>5, Zenon DEF LockOrder, MutexLabels, BevLabels

\* A worker that holds the mutex keeps it at another of its labels, or leaves it.
LEMMA MutexStep ==
    ASSUME IInv, NEW t \in Threads, NEW label,
           pc[t] \in MutexLabels,
           pc' = [pc EXCEPT ![t] = label],
           \A v \in Threads : v # t => hand'[v] = hand[v],
           mutex' = NoOne \/ (mutex' = mutex /\ label \in MutexLabels),
           UNCHANGED bev
    PROVE  LockOrder'
<1>1. \A v \in Threads : /\ pc'[v] = IF v = t THEN label ELSE pc[v]
                         /\ v # t => hand'[v] = hand[v]
  BY LockFacts, Zenon
<1>2. \A s \in Sessions : bev[s] # t
  BY LockFacts DEF MutexLabels, BevLabels
<1>3. mutex' # NoOne => pc'[mutex'] \in MutexLabels
  BY <1>1, LockFacts
<1>4. \A s \in Sessions : bev'[s] # NoOne =>
        hand'[bev'[s]] = s /\ pc'[bev'[s]] \in BevLabels
  BY <1>1, <1>2, LockFacts, Zenon
<1> QED BY <1>3, <1>4, Zenon DEF LockOrder, MutexLabels, BevLabels

\* One fact per action that moves a thread.
LEMMA LockStep ==
    ASSUME IInv, [Next]_vars
    PROVE  LockOrder'
<1>1. ASSUME NEW l \in Loops, NEW s \in Sessions, NEW k \in LibeventJobs(s),
             LoopAppend(l, s, k)
      PROVE  LockOrder'
  <2>1. l \in Threads /\ pc[l] = "loop" /\ bev[s] = NoOne /\ mutex' = mutex
    BY <1>1, Zenon DEF LoopAppend, Threads
  <2>2. CASE Dropped(s, k)
    BY <1>1, <2>1, <2>2, Zenon DEF LoopAppend, IInv, LockOrder
  <2>3. CASE ~Dropped(s, k)
    <3>1. /\ bev' = [bev EXCEPT ![s] = l]
          /\ hand' = [hand EXCEPT ![l] = s]
          /\ pc' = [pc EXCEPT ![l] = "signal"]
      BY <1>1, <2>3, Zenon DEF LoopAppend, Goto
    <3>2. mutex # l /\ \A r \in Sessions : bev[r] # l
      BY <2>1, LockFacts DEF MutexLabels, BevLabels
    <3>3. \A v \in Threads : v # l => pc'[v] = pc[v] /\ hand'[v] = hand[v]
      BY <3>1, LockFacts, Zenon
    <3>4. pc'[l] = "signal" /\ hand'[l] = s
      BY <2>1, <3>1, LockFacts, Zenon
    <3>5. mutex' # NoOne => pc'[mutex'] \in MutexLabels
      BY <2>1, <3>2, <3>3, LockFacts, Zenon
    <3>6. \A r \in Sessions : bev'[r] # NoOne =>
            hand'[bev'[r]] = r /\ pc'[bev'[r]] \in BevLabels
      <4> TAKE r \in Sessions
      <4>1. CASE r = s
        BY <3>1, <3>4, <4>1, LockFacts DEF BevLabels
      <4>2. CASE r # s
        BY <3>1, <3>2, <3>3, <4>2, LockFacts
      <4> QED BY <4>1, <4>2, Zenon
    <3> QED BY <3>5, <3>6, Zenon DEF LockOrder, MutexLabels, BevLabels
  <2> QED BY <2>2, <2>3
<1>2. ASSUME NEW w \in Workers, TakeUnlocked(w)
      PROVE  LockOrder'
  <2>1. /\ w \in Threads /\ pc[w] \in MutexLabels /\ UNCHANGED <<bev, hand>>
        /\ \E label : /\ pc' = [pc EXCEPT ![w] = label]
                      /\ mutex' = NoOne \/ (mutex' = mutex /\ label \in MutexLabels)
    <3> DEFINE q == IF jobq = <<>> THEN append_jobq ELSE jobq
    <3> USE DEF Goto, Threads, MutexLabels
    <3>1. CASE q = <<>>
      BY <1>2, <3>1, Zenon DEF TakeUnlocked
    <3>2. CASE q # <<>>
      BY <1>2, <3>2, Zenon DEF TakeUnlocked
    <3> QED BY <3>1, <3>2, Zenon
  <2> QED BY <2>1, MutexStep, Zenon
<1>3. ASSUME NEW w \in Workers, TakeSession(w)
      PROVE  LockOrder'
  <2>1. /\ w \in Threads /\ pc[w] \in MutexLabels /\ UNCHANGED bev
        /\ \A v \in Threads : v # w => hand'[v] = hand[v]
        /\ \E label : /\ pc' = [pc EXCEPT ![w] = label]
                      /\ mutex' = NoOne \/ (mutex' = mutex /\ label \in MutexLabels)
    <3> DEFINE q == IF ntrip_queue = <<>> THEN append_queue ELSE ntrip_queue
    <3> USE DEF Goto, Threads, MutexLabels
    <3>0. hand \in [Threads -> Sessions \cup {NoOne}]
      BY LockFacts, Zenon
    <3>1. CASE q = <<>> /\ job[w] # NoJob
      BY <1>3, <3>1, Zenon DEF TakeSession
    <3>2. CASE q = <<>> /\ job[w] = NoJob
      BY <1>3, <3>2, Zenon DEF TakeSession
    <3>3. CASE q # <<>>
      BY <1>3, <3>0, <3>3, Zenon DEF TakeSession
    <3> QED BY <3>1, <3>2, <3>3, Zenon
  <2> QED BY <2>1, MutexStep, Zenon
<1>4. ASSUME NEW l \in Loops, LoopSignal(l)
      PROVE  LockOrder'
  <2>1. /\ l \in Threads /\ pc[l] \in BevLabels
        /\ pc' = [pc EXCEPT ![l] = "loop"] /\ hand' = [hand EXCEPT ![l] = NoOne]
        /\ bev' = [bev EXCEPT ![hand[l]] = NoOne] /\ mutex' = mutex
    BY <1>4, Zenon DEF LoopSignal, UnlockBev, Goto, Threads, BevLabels
  <2> QED BY <2>1, ReleaseStep, Zenon
<1>5. ASSUME NEW w \in Workers, EndBatch(w)
      PROVE  LockOrder'
  <2>1. /\ w \in Threads /\ pc[w] \in BevLabels
        /\ pc' = [pc EXCEPT ![w] = "reap"] /\ hand' = [hand EXCEPT ![w] = NoOne]
        /\ bev' = [bev EXCEPT ![hand[w]] = NoOne] /\ mutex' = mutex
    BY <1>5, Zenon DEF EndBatch, UnlockBev, Goto, Threads, BevLabels
  <2> QED BY <2>1, ReleaseStep, Zenon
<1>6. ASSUME NEW w \in Workers, Lock(w)
      PROVE  LockOrder'
  <2>1. /\ w \in Threads /\ pc[w] \notin MutexLabels \cup BevLabels
        /\ mutex' = w /\ UNCHANGED <<bev, hand>>
        /\ \E label \in MutexLabels : pc' = [pc EXCEPT ![w] = label]
    BY <1>6, Zenon DEF Lock, Goto, Threads, MutexLabels, BevLabels
  <2>2. \A v \in Threads : v # w => pc'[v] = pc[v]
    BY <2>1, LockFacts, Zenon
  <2>3. pc'[w] \in MutexLabels /\ \A s \in Sessions : bev[s] # w
    BY <2>1, LockFacts
  <2>4. \A s \in Sessions : bev'[s] # NoOne =>
          hand'[bev'[s]] = s /\ pc'[bev'[s]] \in BevLabels
    BY <2>1, <2>2, <2>3, LockFacts, Zenon
  <2> QED BY <2>1, <2>3, <2>4, Zenon DEF LockOrder, MutexLabels, BevLabels
<1>7. ASSUME NEW w \in Workers, LockSession(w)
      PROVE  LockOrder'
  <2>1. /\ w \in Threads /\ hand[w] \in Sessions
        /\ bev' = [bev EXCEPT ![hand[w]] = w]
        /\ pc' = [pc EXCEPT ![w] = "batch"]
        /\ mutex' = NoOne /\ hand' = hand /\ pc[w] = "bev"
    BY <1>7, Zenon DEF LockSession, Goto, Threads, IInv, PcInv
  <2>2. \A v \in Threads : v # w => pc'[v] = pc[v]
    BY <2>1, LockFacts, Zenon
  <2>3. pc'[w] = "batch" /\ \A s \in Sessions : bev[s] # w
    BY <2>1, LockFacts DEF BevLabels
  <2>4. \A s \in Sessions : bev'[s] # NoOne =>
          hand'[bev'[s]] = s /\ pc'[bev'[s]] \in BevLabels
    <3> TAKE s \in Sessions
    <3>1. CASE s = hand[w]
      BY <2>1, <2>3, <3>1, LockFacts DEF BevLabels
    <3>2. CASE s # hand[w]
      BY <2>1, <2>2, <2>3, <3>2, LockFacts
    <3> QED BY <3>1, <3>2, Zenon
  <2> QED BY <2>1, <2>4, Zenon DEF LockOrder, MutexLabels, BevLabels
<1>8. ASSUME NEW w \in Workers, RunJob(w) \/ CbEnd(w) \/ CbReturn(w)
      PROVE  LockOrder'
  <2>1. /\ w \in Threads /\ pc[w] \in BevLabels /\ UNCHANGED <<hand, mutex, bev>>
        /\ \E label \in BevLabels : pc' = [pc EXCEPT ![w] = label]
    <3> USE DEF Goto, Threads, BevLabels
    <3>1. CASE RunJob(w)
      BY <3>1, Zenon DEF RunJob
    <3>2. CASE CbEnd(w)
      BY <3>2, Zenon DEF CbEnd
    <3>3. CASE CbReturn(w)
      BY <3>3, Zenon DEF CbReturn
    <3> QED BY <1>8, <3>1, <3>2, <3>3, Zenon
  <2> QED BY <2>1, BatchStep, Zenon
<1>9. ASSUME NEW w \in Workers,
             \/ RunRef(w) \/ Unref(w) \/ DeferredFree2(w) \/ ExitThread(w)
             \/ Wait(w) \/ ReapTake(w) \/ ReapOne(w)
      PROVE  LockOrder'
  <2>1. /\ w \in Threads /\ pc[w] \notin MutexLabels \cup BevLabels
        /\ UNCHANGED <<mutex, bev>>
        /\ \A v \in Threads : v # w => hand'[v] = hand[v]
        /\ \E label : pc' = [pc EXCEPT ![w] = label]
    <3> USE DEF Goto, Threads, MutexLabels, BevLabels
    <3>0. hand \in [Threads -> Sessions \cup {NoOne}]
      BY LockFacts, Zenon
    <3>1. CASE RunRef(w) \/ Unref(w)
      BY <3>1, Zenon DEF RunRef, Unref
    <3>2. CASE DeferredFree2(w) \/ ExitThread(w) \/ Wait(w)
      BY <3>2, Zenon DEF DeferredFree2, ExitThread, Wait
    <3>3. CASE ReapTake(w)
      BY <3>0, <3>3, Zenon DEF ReapTake
    <3>4. CASE ReapOne(w)
      BY <3>0, <3>4, Zenon DEF ReapOne
    <3> QED BY <1>9, <3>1, <3>2, <3>3, <3>4, Zenon
  <2> QED BY ZenonT(60), <2>1, IdleStep
<1>10. ASSUME \/ StopThread \/ \E s \in Sessions : DropAll(s)
              \/ \E w \in Workers : SpuriousWakeup(w) \/ CbLocked(w) \/ CbRef(w)
              \/ UNCHANGED vars
       PROVE  LockOrder'
  <2>1. UNCHANGED <<mutex, bev, pc, hand>>
    BY <1>10, Zenon DEF StopThread, DropAll, SpuriousWakeup, CbLocked, CbRef, vars, threadVars
  <2> QED BY <2>1, Zenon DEF IInv, LockOrder
<1> QED
  BY <1>1, <1>2, <1>3, <1>4, <1>5, <1>6, <1>7, <1>8, <1>9, <1>10, Zenon
  DEF Next, WorkerStep

-----------------------------------------------------------------------------
(* The theorems *)

\* The initial state satisfies the inductive invariant.
LEMMA InitIInv == Init => IInv
<1> SUFFICES ASSUME Init PROVE IInv
  OBVIOUS
<1>1. TypeOK
  <2>1. /\ jobq \in Seq(UnlockedJobs) /\ append_jobq \in Seq(UnlockedJobs)
        /\ ntrip_queue \in Seq(Sessions) /\ append_queue \in Seq(Sessions)
        /\ free_queue \in Seq(Sessions)
    BY DEF Init
  <2>2. /\ njobs \in Int /\ append_njobs \in Int
        /\ ntrip_njobs \in Int /\ append_ntrip_njobs \in Int /\ stops \in Nat
    BY DEF Init
  <2>3. st_jobq \in [Sessions -> Seq(JobKinds)]
    BY DEF Init
  <2>4. /\ st_njobs \in [Sessions -> Int] /\ newjobs \in [Sessions -> {-1, 0}]
        /\ refcnt \in [Sessions -> Int]
    BY DEF Init
  <2>5. /\ ended \in [Sessions -> BOOLEAN] /\ freed \in [Sessions -> BOOLEAN]
        /\ registered \subseteq Sessions
    BY Zenon DEF Init
  <2>6. /\ mutex \in Workers \cup {NoOne} /\ bev \in [Sessions -> Threads \cup {NoOne}]
        /\ waiters \subseteq Workers
    BY Zenon DEF Init
  <2>7. pc \in [Threads -> Labels \cup {"loop", "signal"}]
    BY Zenon DEF Init, Labels
  <2>8. /\ hand \in [Threads -> Sessions \cup {NoOne}]
        /\ job \in [Threads -> UnlockedJobs \cup {NoJob}]
    BY Zenon DEF Init
  <2> QED BY <2>1, <2>2, <2>3, <2>4, <2>5, <2>6, <2>7, <2>8, Zenon DEF TypeOK
<1>2. PcInv
  BY ThreadsAssumption, Zenon DEF Init, PcInv, Labels, Threads
<1>3. QueuedOnce
  <2>1. ntrip_queue = <<>> /\ append_queue = <<>>
    BY Zenon DEF Init
  <2>2. NoRepeat(<<>>) /\ \A s : ~Occurs(<<>>, s)
    BY DEF NoRepeat, Occurs
  <2>3. \A s \in Sessions : Popped(s) = {}
    BY ThreadsAssumption, Zenon DEF Init, Popped, Threads
  <2>4. \A s \in Sessions : ~(newjobs[s] = -1)
    BY DEF Init
  <2>5. \A s \in Sessions : ~Occurs(ntrip_queue, s) /\ ~Occurs(append_queue, s)
    BY <2>1, <2>2
  <2>6. NoRepeat(ntrip_queue) /\ NoRepeat(append_queue)
    BY <2>1, <2>2
  <2> QED BY <2>3, <2>4, <2>5, <2>6, Zenon DEF QueuedOnce, InMainQueue
<1>4. LockOrder
  BY Zenon DEF Init, LockOrder
<1> QED BY <1>1, <1>2, <1>3, <1>4 DEF IInv

\* The inductive invariant holds in every reachable state.
THEOREM Invariance == Spec => []IInv
<1>1. IInv /\ [Next]_vars => IInv'
  BY TypeStep, PcStep, QueueStep, LockStep, Zenon DEF IInv
<1> QED BY <1>1, InitIInv, PTL DEF Spec

\* Type correctness of the scheduler of jobs.c.
THEOREM TypeCorrect == Spec => []TypeOK
<1>1. IInv => TypeOK
  BY DEF IInv
<1> QED BY <1>1, Invariance, PTL

\* A session is in the main queues of joblist_run() at most once, and newjobs
\* says exactly when.
THEOREM QueuedAtMostOnce == Spec => []QueuedOnce
<1>1. IInv => QueuedOnce
  BY DEF IInv
<1> QED BY <1>1, Invariance, PTL

\* No worker that holds a bufferevent waits for the mutex of the job list.
THEOREM LocksAreOrdered == Spec => []LockOrder
<1>1. IInv => LockOrder
  BY DEF IInv
<1> QED BY <1>1, Invariance, PTL

=============================================================================
