------------------------------ MODULE JobList ------------------------------
(***************************************************************************)
(* The job scheduler of the caster (caster/jobs.c) together with the end   *)
(* of life of the sessions it schedules (caster/ntrip_common.c).           *)
(*                                                                         *)
(* Event-loop threads receive libevent callbacks on a session's            *)
(* bufferevent and append a job to that session; worker threads run        *)
(* joblist_run().  There are two families of jobs:                         *)
(*                                                                         *)
(*   - locked jobs live in the session's own queue (st->jobq) and are run  *)
(*     in a batch by one worker holding the session's bufferevent lock;    *)
(*     the session itself is queued in append_queue, then ntrip_queue;     *)
(*   - unlocked jobs live in append_jobq, then jobq.  Three things can be  *)
(*     in one: a callback that holds a reference on a session              *)
(*     (JOB_NTRIP_LIVESOURCE, JOB_NTRIP_PACKET,                            *)
(*     JOB_NTRIP_UNLOCKED_CONTENT), the second half of the release of a    *)
(*     session (JOB_NTRIP_UNLOCKED), and the order to exit                 *)
(*     (JOB_STOP_THREAD).                                                  *)
(*                                                                         *)
(* One action is one critical section of the code.  append_mutex, condlock *)
(* and free_lock are leaves of the lock order and nothing blocks while     *)
(* holding them, so what they protect is one atomic step; "mutex" and the  *)
(* bufferevent locks are held across steps and are variables.              *)
(***************************************************************************)
EXTENDS Integers, Sequences, FiniteSets

CONSTANTS
    Workers,    \* generic worker threads, running joblist_run()
    Loops,      \* event-loop threads, delivering libevent callbacks
    Sessions,   \* struct ntrip_state
    NoOne,      \* no thread, no session
    RefSessions, \* sessions that queue jobs referring to them (API requests,
                \* livesources)
    LibeventJobs(_), \* kinds of libevent callbacks of a session (JOB_LIBEVENT_RW,
                \* JOB_LIBEVENT_EVENT)
    Shutdown,   \* whether the caster is stopped at some point
    MaxJobs,    \* bound on the length of a session's queue
    MaxRefs     \* bound on a session's reference counter

ASSUME ThreadsAssumption ==
    /\ Workers \cap Loops = {}
    /\ NoOne \notin Workers \cup Loops \cup Sessions

ASSUME WorkersAssumption == IsFiniteSet(Workers)

ASSUME JobsAssumption == \A s \in Sessions : "lock" \notin LibeventJobs(s)

ASSUME BoundsAssumption ==
    MaxJobs \in Nat /\ MaxRefs \in Nat /\ Shutdown \in BOOLEAN

Threads == Workers \cup Loops

\* Libevent jobs and JOB_NTRIP_LOCK; two jobs of the same kind stand for two
\* jobs that job_equal() finds equal.
JobKinds == {"lock"} \cup UNION {LibeventJobs(s) : s \in Sessions}

StopJob == [type |-> "stop", st |-> NoOne]
NoJob == [type |-> "none", st |-> NoOne]
UnlockedJobs == [type : {"ref", "free"}, st : Sessions] \cup {StopJob}

VARIABLES
    jobq, append_jobq,          \* unlocked jobs
    njobs, append_njobs,
    ntrip_queue, append_queue,  \* sessions with work
    ntrip_njobs, append_ntrip_njobs,
    st_jobq, st_njobs, newjobs, \* per session: queue, its length, status
    ended,      \* NTRIP_END reached
    refcnt,
    registered, \* caster->ntrips.queue
    free_queue, \* caster->ntrips.free_queue
    freed,
    mutex,      \* owner of joblist->mutex
    bev,        \* owner of each bufferevent lock
    waiters,    \* workers blocked on condjob
    pc, hand, job, \* per thread: next step, session in hand, unlocked job
    stops       \* JOB_STOP_THREAD jobs appended so far

unlockedVars == <<jobq, append_jobq, njobs, append_njobs>>
mainVars == <<ntrip_queue, append_queue, ntrip_njobs, append_ntrip_njobs>>
stVars == <<st_jobq, st_njobs, newjobs>>
lifeVars == <<ended, refcnt, registered, free_queue, freed>>
threadVars == <<pc, hand, job>>
vars == <<unlockedVars, mainVars, stVars, lifeVars, mutex, bev, waiters,
          threadVars, stops>>

Init ==
    /\ jobq = <<>> /\ append_jobq = <<>> /\ njobs = 0 /\ append_njobs = 0
    /\ ntrip_queue = <<>> /\ append_queue = <<>>
    /\ ntrip_njobs = 0 /\ append_ntrip_njobs = 0
    /\ st_jobq = [s \in Sessions |-> <<>>]
    /\ st_njobs = [s \in Sessions |-> 0]
    /\ newjobs = [s \in Sessions |-> 0]
    /\ ended = [s \in Sessions |-> FALSE]
    /\ refcnt = [s \in Sessions |-> 1]
    /\ registered = Sessions
    /\ free_queue = <<>>
    /\ freed = [s \in Sessions |-> FALSE]
    /\ mutex = NoOne
    /\ bev = [s \in Sessions |-> NoOne]
    /\ waiters = {}
    /\ pc = [t \in Threads |-> IF t \in Workers THEN "lock" ELSE "loop"]
    /\ hand = [t \in Threads |-> NoOne]
    /\ job = [t \in Threads |-> NoJob]
    /\ stops = 0

-----------------------------------------------------------------------------
(* Helpers *)

Goto(t, label) == pc' = [pc EXCEPT ![t] = label]

\* pthread_cond_signal() and pthread_cond_broadcast() on condjob.
Signal ==
    \/ waiters = {} /\ UNCHANGED waiters
    \/ \E w \in waiters : waiters' = waiters \ {w}

Broadcast == waiters' = {}

\* _joblist_append_generic() with st == NULL.
AppendUnlocked(j) ==
    /\ append_jobq' = Append(append_jobq, j)
    /\ append_njobs' = append_njobs + 1
    /\ Signal
    /\ UNCHANGED <<jobq, njobs>>

LastIs(q, k) == q # <<>> /\ q[Len(q)] = k

\* Mutant: no test of NTRIP_END.
DroppedMutant(s, k) == LastIs(st_jobq[s], k)

\* _joblist_append_generic() does nothing when the session is ending or when
\* the last job is the same.
Dropped(s, k) == ended[s] \/ LastIs(st_jobq[s], k)

\* Mutant: insert the session each time it is not known to be queued.
NeedsInsertMutant(n) == n # 0

\* Mutant: the session is queued for its second job only.
NeedsInsertLateMutant(n) == n = 2

\* Whether a session whose newjobs became n must be queued.
NeedsInsert(n) == n = 1

\* The rest of _joblist_append_generic(), up to the signal.
Enqueue(s, k) ==
    /\ st_jobq' = [st_jobq EXCEPT ![s] = Append(@, k)]
    /\ st_njobs' = [st_njobs EXCEPT ![s] = @ + 1]
    /\ LET n == IF newjobs[s] >= 0 THEN newjobs[s] + 1 ELSE newjobs[s]
       IN  IF NeedsInsert(n)
           THEN /\ append_queue' = Append(append_queue, s)
                /\ append_ntrip_njobs' = append_ntrip_njobs + 1
                /\ newjobs' = [newjobs EXCEPT ![s] = -1]
           ELSE /\ newjobs' = [newjobs EXCEPT ![s] = n]
                /\ UNCHANGED <<append_queue, append_ntrip_njobs>>
    /\ UNCHANGED <<ntrip_queue, ntrip_njobs>>

\* joblist_drain(): st->njobs and st->newjobs once n jobs are dropped.
DrainedCount(count, n) == count - n
DrainedNew(new, n) == IF new <= 0 THEN new ELSE IF new > n THEN new - n ELSE 0

\* ntrip_deferred_free(): drain the session's queue, then ask a worker to
\* release it.
DeferredFree(s) ==
    LET n == Len(st_jobq[s])
    IN  /\ st_jobq' = [st_jobq EXCEPT ![s] = <<>>]
        /\ st_njobs' = [st_njobs EXCEPT ![s] = DrainedCount(@, n)]
        /\ newjobs' = [newjobs EXCEPT ![s] = DrainedNew(@, n)]
        /\ AppendUnlocked([type |-> "free", st |-> s])

\* Mutant: the job does not take its reference.
IncrefMutant(s) == UNCHANGED refcnt

\* ntrip_incref().
Incref(s) == refcnt' = [refcnt EXCEPT ![s] = @ + 1]

\* ntrip_decref().
Decref(s) ==
    /\ refcnt' = [refcnt EXCEPT ![s] = @ - 1]
    /\ IF refcnt[s] = 1
       THEN DeferredFree(s)
       ELSE UNCHANGED <<stVars, unlockedVars, waiters>>

\* ntrip_decref_end(): a no-op the second time.  A session that feeds a
\* livesource first queues a job, holding a reference, to unregister it.
DecrefEnd(s, isSource) ==
    IF ended[s]
    THEN UNCHANGED <<ended, refcnt, stVars, unlockedVars, waiters>>
    ELSE /\ ended' = [ended EXCEPT ![s] = TRUE]
         /\ IF isSource
            THEN /\ s \in RefSessions
                 /\ AppendUnlocked([type |-> "ref", st |-> s])
                 /\ UNCHANGED <<refcnt, stVars>>
            ELSE Decref(s)

\* Mutant: a missing bufferevent_unlock().
UnlockBevMutant(s) == UNCHANGED bev

\* bufferevent_unlock().
UnlockBev(s) == bev' = [bev EXCEPT ![s] = NoOne]

-----------------------------------------------------------------------------
(* Event-loop threads *)

\* A libevent callback: libevent holds the bufferevent lock while
\* joblist_append() records the job.  Callbacks are disabled by
\* ntrip_deferred_free(), when the last reference goes.
LoopAppend(l, s, k) ==
    /\ pc[l] = "loop"
    /\ bev[s] = NoOne
    /\ refcnt[s] > 0
    /\ IF Dropped(s, k)
       THEN UNCHANGED <<stVars, mainVars, bev, pc, hand>>
       ELSE /\ st_njobs[s] < MaxJobs
            /\ Enqueue(s, k)
            /\ bev' = [bev EXCEPT ![s] = l]
            /\ hand' = [hand EXCEPT ![l] = s]
            /\ Goto(l, "signal")
    /\ UNCHANGED <<unlockedVars, lifeVars, mutex, waiters, job, stops>>

\* The signal that ends joblist_append(), then the return to libevent.
LoopSignal(l) ==
    /\ pc[l] = "signal"
    /\ Signal
    /\ UnlockBev(hand[l])
    /\ hand' = [hand EXCEPT ![l] = NoOne]
    /\ Goto(l, "loop")
    /\ UNCHANGED <<unlockedVars, mainVars, stVars, lifeVars, mutex, job, stops>>

\* caster_free() on the main thread: ntrip_drop_by_id() with id 0 ends the
\* registered sessions one by one, each under its lock.  It restarts from the
\* head of caster->ntrips.queue until the list is empty; ending a session twice
\* changes nothing.
DropAll(s) ==
    /\ Shutdown
    /\ s \in registered
    /\ ~ended[s]
    /\ bev[s] = NoOne
    /\ \E isSource \in BOOLEAN : DecrefEnd(s, isSource)
    /\ UNCHANGED <<mainVars, registered, free_queue, freed, mutex, bev,
                   threadVars, stops>>

\* The first loop of jobs_stop_threads(), once no session is left in
\* caster->ntrips.queue: one JOB_STOP_THREAD for each worker.  (Its second loop
\* only reads, with pthread_kill(), whether the threads are gone: it changes
\* nothing that a worker sees, and what it reads of a thread that has exited and
\* is not joined is up to the C library.)
StopThread ==
    /\ Shutdown
    /\ registered = {}
    /\ stops < Cardinality(Workers)
    /\ stops' = stops + 1
    /\ AppendUnlocked(StopJob)
    /\ UNCHANGED <<mainVars, stVars, lifeVars, mutex, bev, threadVars>>

-----------------------------------------------------------------------------
(* Workers: joblist_run() *)

\* P_MUTEX_LOCK(&this->mutex), at the top of the loop or after an unlocked
\* job; a worker woken from pthread_cond_wait() is back at the top.
Lock(w) ==
    /\ pc[w] \in {"lock", "relock", "wait"}
    /\ w \notin waiters
    /\ mutex = NoOne
    /\ mutex' = w
    /\ Goto(w, IF pc[w] = "relock" THEN "sessions" ELSE "top")
    /\ UNCHANGED <<unlockedVars, mainVars, stVars, lifeVars, bev, waiters,
                   hand, job, stops>>

\* The head of the unlocked queue, refilled from the append queue if empty.
TakeUnlocked(w) ==
    /\ pc[w] = "top"
    /\ LET refill == jobq = <<>>
           q == IF refill THEN append_jobq ELSE jobq
           n == IF refill THEN append_njobs ELSE njobs
       IN  /\ append_jobq' = IF refill THEN jobq ELSE append_jobq
           /\ append_njobs' = IF refill THEN njobs ELSE append_njobs
           /\ IF q = <<>>
              THEN /\ jobq' = q /\ njobs' = n
                   /\ job' = [job EXCEPT ![w] = NoJob]
                   /\ Goto(w, "sessions")
                   /\ UNCHANGED mutex
              ELSE /\ jobq' = Tail(q) /\ njobs' = n - 1
                   /\ job' = [job EXCEPT ![w] = Head(q)]
                   /\ Goto(w, Head(q).type)
                   /\ mutex' = NoOne
    /\ UNCHANGED <<mainVars, stVars, lifeVars, bev, waiters, hand, stops>>

\* The callback of a job that holds a reference on a session.  It runs
\* without lock; one of them, ntrip_drop_by_id(), ends any registered
\* session, under that session's lock.
RunRef(w) ==
    /\ pc[w] = "ref"
    /\ \/ UNCHANGED <<ended, refcnt, stVars, unlockedVars, waiters>>
       \/ \E s \in registered, isSource \in BOOLEAN :
            /\ bev[s] = NoOne
            /\ DecrefEnd(s, isSource)
    /\ Goto(w, "unref")
    /\ UNCHANGED <<mainVars, registered, free_queue, freed, mutex, bev, hand,
                   job, stops>>

\* After the callback: drop the reference under the session's lock.
Unref(w) ==
    /\ pc[w] = "unref"
    /\ bev[job[w].st] = NoOne
    /\ Decref(job[w].st)
    /\ Goto(w, "relock")
    /\ UNCHANGED <<mainVars, ended, registered, free_queue, freed, mutex, bev,
                   hand, job, stops>>

\* ntrip_deferred_free2(): out of the session list, into the free queue.
DeferredFree2(w) ==
    /\ pc[w] = "free"
    /\ bev[job[w].st] = NoOne
    /\ registered' = registered \ {job[w].st}
    /\ free_queue' = Append(free_queue, job[w].st)
    /\ Goto(w, "reap")
    /\ UNCHANGED <<unlockedVars, mainVars, stVars, ended, refcnt, freed, mutex,
                   bev, waiters, hand, job, stops>>

\* JOB_STOP_THREAD.
ExitThread(w) ==
    /\ pc[w] = "stop"
    /\ Goto(w, "exited")
    /\ UNCHANGED <<unlockedVars, mainVars, stVars, lifeVars, mutex, bev,
                   waiters, hand, job, stops>>

\* The first session with work, after a refill of the work queue from the
\* append queue if it is empty; with no session anywhere, start over if
\* there was an unlocked job, else prepare to wait.
TakeSession(w) ==
    /\ pc[w] = "sessions"
    /\ LET refill == ntrip_queue = <<>>
           q == IF refill THEN append_queue ELSE ntrip_queue
           n == IF refill THEN append_ntrip_njobs ELSE ntrip_njobs
       IN  IF q = <<>>
           THEN /\ Goto(w, IF job[w] # NoJob THEN "top" ELSE "sleep")
                /\ mutex' = IF job[w] # NoJob THEN mutex ELSE NoOne
                /\ UNCHANGED <<mainVars, waiters, hand>>
           ELSE /\ ntrip_queue' = Tail(q) /\ ntrip_njobs' = n - 1
                /\ IF refill
                   THEN /\ append_queue' = ntrip_queue
                        /\ append_ntrip_njobs' = ntrip_njobs
                        /\ Broadcast
                   ELSE UNCHANGED <<append_queue, append_ntrip_njobs, waiters>>
                /\ hand' = [hand EXCEPT ![w] = Head(q)]
                /\ Goto(w, "bev")
                /\ UNCHANGED mutex
    /\ UNCHANGED <<unlockedVars, stVars, lifeVars, bev, job, stops>>

\* pthread_cond_wait(): the worker now waits, with neither lock.
Wait(w) ==
    /\ pc[w] = "sleep"
    /\ waiters' = waiters \cup {w}
    /\ Goto(w, "wait")
    /\ UNCHANGED <<unlockedVars, mainVars, stVars, lifeVars, mutex, bev, hand,
                   job, stops>>

\* POSIX lets pthread_cond_wait() return without a signal.
SpuriousWakeup(w) ==
    /\ w \in waiters
    /\ waiters' = waiters \ {w}
    /\ UNCHANGED <<unlockedVars, mainVars, stVars, lifeVars, mutex, bev,
                   threadVars, stops>>

\* Lock the session before releasing the queues.
LockSession(w) ==
    /\ pc[w] = "bev"
    /\ bev[hand[w]] = NoOne
    /\ bev' = [bev EXCEPT ![hand[w]] = w]
    /\ newjobs' = [newjobs EXCEPT ![hand[w]] = 0]
    /\ mutex' = NoOne
    /\ Goto(w, "batch")
    /\ UNCHANGED <<unlockedVars, mainVars, st_jobq, st_njobs, lifeVars, waiters,
                   hand, job, stops>>

\* if (st->newjobs > 0) st->newjobs--.
OneLess(new) == IF new > 0 THEN new - 1 ELSE new

\* Take the next job of the session; its callback runs unless the session
\* is ending.
RunJob(w) ==
    LET s == hand[w]
    IN  /\ pc[w] = "batch"
        /\ st_jobq[s] # <<>>
        /\ st_jobq' = [st_jobq EXCEPT ![s] = Tail(@)]
        /\ st_njobs' = [st_njobs EXCEPT ![s] = @ - 1]
        /\ newjobs' = [newjobs EXCEPT ![s] = OneLess(@)]
        /\ Goto(w, IF ended[s] THEN "batch"
                   ELSE IF Head(st_jobq[s]) = "lock" THEN "lockcb" ELSE "cb")
        /\ UNCHANGED <<unlockedVars, mainVars, lifeVars, mutex, bev, waiters,
                       hand, job, stops>>

\* What a callback may do, any number of times, with its session locked.
\* A libevent callback queues a locked job for its own session
\* (joblist_append_ntrip_locked).
CbLocked(w) ==
    /\ pc[w] = "cb"
    /\ IF Dropped(hand[w], "lock")
       THEN UNCHANGED <<stVars, mainVars, waiters>>
       ELSE /\ st_njobs[hand[w]] < MaxJobs
            /\ Enqueue(hand[w], "lock")
            /\ Signal
    /\ UNCHANGED <<unlockedVars, lifeVars, mutex, bev, threadVars, stops>>

\* A callback queues a job that holds a reference on its session: an API
\* request, a livesource to find or to switch to.
CbRef(w) ==
    /\ pc[w] \in {"cb", "lockcb"}
    /\ hand[w] \in RefSessions /\ refcnt[hand[w]] \in 1..(MaxRefs - 1)
    /\ Incref(hand[w])
    /\ AppendUnlocked([type |-> "ref", st |-> hand[w]])
    /\ UNCHANGED <<mainVars, stVars, ended, registered, free_queue, freed,
                   mutex, bev, threadVars, stops>>

\* Any callback ends its session and returns.
CbEnd(w) ==
    /\ pc[w] \in {"cb", "lockcb"}
    /\ \E isSource \in BOOLEAN : DecrefEnd(hand[w], isSource)
    /\ Goto(w, "batch")
    /\ UNCHANGED <<mainVars, registered, free_queue, freed, mutex, bev, hand,
                   job, stops>>

CbReturn(w) ==
    /\ pc[w] \in {"cb", "lockcb"}
    /\ Goto(w, "batch")
    /\ UNCHANGED <<unlockedVars, mainVars, stVars, lifeVars, mutex, bev,
                   waiters, hand, job, stops>>

\* Mutant: one job for each turn in the main queue.
BatchDoneMutant(s) == TRUE

\* The batch goes on until the session has no job left.
BatchDone(s) == st_jobq[s] = <<>>

\* Mutant: the worker does not look at the free queue after a batch.
EndBatchMutant(w) ==
    /\ pc[w] = "batch"
    /\ BatchDone(hand[w])
    /\ UnlockBev(hand[w])
    /\ hand' = [hand EXCEPT ![w] = NoOne]
    /\ job' = [job EXCEPT ![w] = NoJob]
    /\ Goto(w, "lock")
    /\ UNCHANGED <<unlockedVars, mainVars, stVars, lifeVars, mutex, waiters,
                   stops>>

\* No job left: unlock the session, then run the deferred frees.
EndBatch(w) ==
    /\ pc[w] = "batch"
    /\ BatchDone(hand[w])
    /\ UnlockBev(hand[w])
    /\ hand' = [hand EXCEPT ![w] = NoOne]
    /\ job' = [job EXCEPT ![w] = NoJob]
    /\ Goto(w, "reap")
    /\ UNCHANGED <<unlockedVars, mainVars, stVars, lifeVars, mutex, waiters,
                   stops>>

\* ntrip_deferred_run() returns to its caller.
AfterReap(w) == IF job[w] = NoJob THEN "lock" ELSE "relock"

\* ntrip_deferred_run(): take the first session of the free queue.
ReapTake(w) ==
    /\ pc[w] = "reap"
    /\ IF free_queue = <<>>
       THEN /\ Goto(w, AfterReap(w))
            /\ UNCHANGED <<free_queue, hand>>
       ELSE /\ hand' = [hand EXCEPT ![w] = Head(free_queue)]
            /\ free_queue' = Tail(free_queue)
            /\ Goto(w, "free1")
    /\ UNCHANGED <<unlockedVars, mainVars, stVars, ended, refcnt, registered,
                   freed, mutex, bev, waiters, job, stops>>

\* Mutant: free the session without looking at the queues.
StillQueuedMutant(s) == FALSE

\* The test of ntrip_deferred_run(): still in one of the main job queues.
StillQueued(s) == newjobs[s] = -1

\* Mutant: a session that cannot be freed yet is forgotten.
PutBackMutant(s) == UNCHANGED free_queue

\* Back to the free queue, for a later ntrip_deferred_run().
PutBack(s) == free_queue' = Append(free_queue, s)

\* Give up if it is still in one of the main queues, else free it.
ReapOne(w) ==
    LET s == hand[w]
    IN  /\ pc[w] = "free1"
        /\ bev[s] = NoOne
        /\ IF StillQueued(s)
           THEN /\ PutBack(s)
                /\ Goto(w, AfterReap(w))
                /\ UNCHANGED freed
           ELSE /\ freed' = [freed EXCEPT ![s] = TRUE]
                /\ Goto(w, "reap")
                /\ UNCHANGED free_queue
        /\ hand' = [hand EXCEPT ![w] = NoOne]
        /\ UNCHANGED <<unlockedVars, mainVars, stVars, ended, refcnt,
                       registered, mutex, bev, waiters, job, stops>>

-----------------------------------------------------------------------------

WorkerStep(w) ==
    \/ TakeUnlocked(w) \/ RunRef(w) \/ Unref(w) \/ DeferredFree2(w)
    \/ ExitThread(w) \/ TakeSession(w) \/ Wait(w) \/ LockSession(w)
    \/ RunJob(w) \/ CbReturn(w) \/ EndBatch(w) \/ ReapTake(w) \/ ReapOne(w)

Next ==
    \/ \E l \in Loops, s \in Sessions :
         \E k \in LibeventJobs(s) : LoopAppend(l, s, k)
    \/ \E l \in Loops : LoopSignal(l)
    \/ \E s \in Sessions : DropAll(s)
    \/ StopThread
    \/ \E w \in Workers :
         \/ Lock(w) \/ WorkerStep(w) \/ SpuriousWakeup(w)
         \/ CbLocked(w) \/ CbRef(w) \/ CbEnd(w)

Spec == Init /\ [][Next]_vars

\* caster_free(), once it is called.
MainThread == StopThread \/ \E s \in Sessions : DropAll(s)

\* Every thread keeps running, callbacks return, and neither the mutex nor a
\* bufferevent lock is denied for ever to a thread that keeps asking for it
\* (strong fairness: the lock is free again and again, not continuously).
\* Nothing obliges libevent to deliver a callback, a callback to queue or to
\* end anything, or pthread_cond_wait() to return without a signal.
Fairness ==
    /\ \A l \in Loops : WF_vars(LoopSignal(l))
    /\ \A w \in Workers : SF_vars(Lock(w) \/ WorkerStep(w))
    /\ SF_vars(MainThread)

FairSpec == Spec /\ Fairness

-----------------------------------------------------------------------------
(* Properties *)

Labels == {"lock", "top", "ref", "unref", "free", "stop", "exited", "relock",
           "sessions", "sleep", "wait", "bev", "batch", "cb", "lockcb", "reap",
           "free1"}

\* Type invariant.  In particular newjobs is never left positive: a session
\* with new jobs is always queued in the same critical section.
TypeOK ==
    /\ jobq \in Seq(UnlockedJobs) /\ append_jobq \in Seq(UnlockedJobs)
    /\ njobs \in Int /\ append_njobs \in Int
    /\ ntrip_queue \in Seq(Sessions) /\ append_queue \in Seq(Sessions)
    /\ ntrip_njobs \in Int /\ append_ntrip_njobs \in Int
    /\ st_jobq \in [Sessions -> Seq(JobKinds)]
    /\ st_njobs \in [Sessions -> Int]
    /\ newjobs \in [Sessions -> {-1, 0}]
    /\ ended \in [Sessions -> BOOLEAN]
    /\ refcnt \in [Sessions -> Int]
    /\ registered \subseteq Sessions
    /\ free_queue \in Seq(Sessions)
    /\ freed \in [Sessions -> BOOLEAN]
    /\ mutex \in Workers \cup {NoOne}
    /\ bev \in [Sessions -> Threads \cup {NoOne}]
    /\ waiters \subseteq Workers
    /\ pc \in [Threads -> Labels \cup {"loop", "signal"}]
    /\ hand \in [Threads -> Sessions \cup {NoOne}]
    /\ job \in [Threads -> UnlockedJobs \cup {NoJob}]
    /\ stops \in Nat

Occurs(q, s) == \E i \in 1..Len(q) : q[i] = s
NoRepeat(q) == \A i, j \in 1..Len(q) : q[i] = q[j] => i = j

\* The workers that took s out of the main queues and do not hold its lock yet.
Popped(s) == {w \in Workers : pc[w] = "bev" /\ hand[w] = s}

InMainQueue(s) == Occurs(ntrip_queue, s) \/ Occurs(append_queue, s)

\* newjobs = -1 says exactly that the session is in one of the main queues, or
\* was just taken out of one by a single worker.  A session is never in the
\* queues twice, which would corrupt the intrusive list.
QueuedOnce ==
    /\ NoRepeat(ntrip_queue) /\ NoRepeat(append_queue)
    /\ \A s \in Sessions :
         /\ ~ (Occurs(ntrip_queue, s) /\ Occurs(append_queue, s))
         /\ InMainQueue(s) => Popped(s) = {}
         /\ \A v, w \in Popped(s) : v = w
         /\ (newjobs[s] = -1) <=> (InMainQueue(s) \/ Popped(s) # {})

\* A job of a session is never stranded: a session with jobs is queued, or a
\* worker is running its batch.
NoStrandedJob ==
    \A s \in Sessions :
      st_jobq[s] # <<>> =>
        \/ newjobs[s] = -1
        \/ \E w \in Workers : pc[w] \in {"batch", "cb", "lockcb"} /\ hand[w] = s

\* The session that a thread is about to use.
Uses(t, s) ==
    \/ hand[t] = s
    \/ pc[t] \in {"ref", "unref", "free"} /\ job[t].st = s

\* A session that was freed is out of reach: no queue, no thread and no lock
\* refers to it any more.
NoUseAfterFree ==
    \A s \in Sessions :
      freed[s] =>
        /\ newjobs[s] # -1
        /\ ~ Occurs(free_queue, s)
        /\ s \notin registered
        /\ bev[s] = NoOne
        /\ \A t \in Threads : ~ Uses(t, s)
        /\ \A i \in 1..Len(jobq) : jobq[i].st # s
        /\ \A i \in 1..Len(append_jobq) : append_jobq[i].st # s

RefJobs(q, s) == Cardinality({i \in 1..Len(q) : q[i] = [type |-> "ref", st |-> s]})

\* The reference counter is exact: one for the connection until NTRIP_END, one
\* for each job that will drop it.  So ntrip_decref() never goes below zero and
\* ntrip_deferred_free() runs once, with the session in NTRIP_END.
RefcntExact ==
    \A s \in Sessions :
      refcnt[s] = (IF ended[s] THEN 0 ELSE 1)
                  + RefJobs(jobq, s) + RefJobs(append_jobq, s)
                  + Cardinality({w \in Workers : pc[w] \in {"ref", "unref"}
                                                  /\ job[w].st = s})

\* Lock order: while a worker holds the mutex and waits for a bufferevent, the
\* owner of that bufferevent is not waiting for the mutex, and can go on.
LockOrder ==
    /\ mutex # NoOne => pc[mutex] \in {"top", "sessions", "bev"}
    /\ \A s \in Sessions :
         bev[s] # NoOne =>
           /\ hand[bev[s]] = s
           /\ pc[bev[s]] \in {"signal", "batch", "cb", "lockcb"}

\* Only NTRIP_END drops jobs, and jobs of a session are taken in the order they
\* were appended: a step appends at the tail, takes the head, or drains an
\* ended session.
FifoStep ==
    \A s \in Sessions :
      \/ st_jobq'[s] = st_jobq[s]
      \/ \E k \in JobKinds : st_jobq'[s] = Append(st_jobq[s], k) /\ ~ended[s]
      \/ st_jobq[s] # <<>> /\ st_jobq'[s] = Tail(st_jobq[s]) /\ bev[s] # NoOne
      \/ st_jobq'[s] = <<>> /\ ended'[s]

Fifo == [][FifoStep]_vars

\* Sessions that ntrip_deferred_run() put back are not forgotten: while the free
\* queue is not empty, one of them still is in a main queue, whose worker will
\* look at the free queue after its batch, or a worker is on its way there.
FreeQueueServed ==
    free_queue # <<>> =>
      \/ \E s \in Sessions : Occurs(free_queue, s) /\ InMainQueue(s)
      \/ \E w \in Workers : pc[w] \in {"bev", "batch", "cb", "lockcb", "reap", "free1"}

\* The lost wake-up that WaitOnlyWhenIdle is about: every worker that is still
\* there waits, for a signal that was sent before it did, and a job is queued.
AsleepOnJobs ==
    /\ waiters # {}
    /\ waiters = {w \in Workers : pc[w] # "exited"}
    /\ \/ append_jobq # <<>> \/ jobq # <<>>
       \/ append_queue # <<>> \/ ntrip_queue # <<>>

\* caster_free() brings the workers to their end, as the comment of caster.c on
\* jobs_stop_threads() wants ("Wait for the threads to finish their tasks"): the
\* loop of ntrip_drop_by_id() ends, since every session leaves the list however
\* its last jobs and references are spread over the queues, and every worker
\* takes its JOB_STOP_THREAD.  A session whose last look at the free queue was
\* before the stop may stay in it, and none is lost on the way.  The one thing
\* that can keep a worker from its exit is the lost wake-up.
WorkersExit ==
    Shutdown =>
      \/ <>(/\ \A w \in Workers : pc[w] = "exited"
            /\ \A s \in Sessions : freed[s] \/ Occurs(free_queue, s))
      \/ <>[]AsleepOnJobs

\* Workers wait only when there is nothing to do (jobs.c, "All queues empty =>
\* wait"): when every worker waits and no appender has still to signal, the
\* queues are empty.
WaitOnlyWhenIdle ==
    (waiters = Workers /\ \A l \in Loops : pc[l] # "signal") =>
      /\ append_jobq = <<>> /\ jobq = <<>>
      /\ append_queue = <<>> /\ ntrip_queue = <<>>
=============================================================================
