----------------------------- MODULE JobListInv -----------------------------
(***************************************************************************)
(* The invariants that the proofs about JobList go through: what each      *)
(* thread holds at each step, and where each reference to a session, and   *)
(* its release, are.                                                       *)
(***************************************************************************)
EXTENDS JobList, Counts

\* Where each thread is, and what it holds there.
PcInv ==
    /\ \A w \in Workers :
         /\ pc[w] \in Labels
         /\ pc[w] \in {"bev", "batch", "cb", "lockcb", "free1"}
              => hand[w] \in Sessions
         /\ pc[w] \in {"ref", "unref", "free"} => job[w].st \in Sessions
         /\ pc[w] \in {"top", "sessions", "bev"} => mutex = w
    /\ \A l \in Loops :
         /\ pc[l] \in {"loop", "signal"}
         /\ pc[l] = "signal" => hand[l] \in Sessions

\* The inductive invariant of the queues and of the locks.
IInv == TypeOK /\ PcInv /\ QueuedOnce /\ LockOrder

-----------------------------------------------------------------------------
(* The life of a session *)

BevLabels == {"signal", "batch", "cb", "lockcb"}

\* The labels of a worker that runs the jobs of the session in its hand, and
\* those after which it looks at the free queue
RunLabels == {"batch", "cb", "lockcb"}
ServeLabels == {"bev", "batch", "cb", "lockcb", "reap", "free1"}

\* A thread holds the lock of the session in its hand where the code says so,
\* and has one in its hand only there or on the way to lock or to free it.
HoldInv ==
    \A t \in Threads :
      /\ pc[t] \in BevLabels => bev[hand[t]] = t
      /\ hand[t] # NoOne => pc[t] \in BevLabels \cup {"bev", "free1"}

\* Unlocked jobs of a kind for session s, waiting in one of the queues
RefJob(s) == [type |-> "ref", st |-> s]
FreeJob(s) == [type |-> "free", st |-> s]
Waiting(j) == Count(jobq, j) + Count(append_jobq, j)

\* Workers that run such a job, and that are about to free session s
Reffing(s) == {w \in Workers : pc[w] \in {"ref", "unref"} /\ job[w].st = s}
Freeing(s) == {w \in Workers : pc[w] = "free" /\ job[w].st = s}
Reaping(s) == {w \in Workers : pc[w] = "free1" /\ hand[w] = s}

\* The references that jobs hold; and the places where a session is whose last
\* reference is gone: on its way to the free queue, and from there on.
Holding(s) == Waiting(RefJob(s)) + Cardinality(Reffing(s))
Leaving(s) == Waiting(FreeJob(s)) + Cardinality(Freeing(s))
Gone(s) == Count(free_queue, s) + Cardinality(Reaping(s)) + One(freed[s])

\* A session is released exactly once, when its last reference goes; it is
\* registered until it enters the free queue; and once it is freed, neither a
\* main queue nor a thread has it.
LifeOf(s) ==
    /\ refcnt[s] = One(~ended[s]) + Holding(s)
    /\ Leaving(s) + Gone(s) = One(refcnt[s] = 0)
    /\ s \in registered <=> Gone(s) = 0
    /\ freed[s] => newjobs[s] # -1 /\ bev[s] = NoOne

LifeInv == \A s \in Sessions : LifeOf(s)

\* The inductive invariant of all the properties.
SessionInv == HoldInv /\ NoStrandedJob /\ FreeQueueServed /\ LifeInv
FullInv == IInv /\ SessionInv

\* What the lemmas about one step start from: the invariant, and the laws of counting.
Premises == CountLaws /\ FullInv

-----------------------------------------------------------------------------
(* What a step leaves alone *)

\* No thread moves but w.
OthersStay(w) ==
    \A v \in Threads : v # w =>
      pc'[v] = pc[v] /\ hand'[v] = hand[v] /\ job'[v] = job[v]

\* The same workers have session s.
SameWorkers(s) ==
    Reffing(s)' = Reffing(s) /\ Freeing(s)' = Freeing(s) /\ Reaping(s)' = Reaping(s)

\* A and B differ at most by w, and this is what it does to their sizes.
Moves(w, A, B) ==
    /\ (w \in A <=> w \in B) => B = A
    /\ w \in A /\ w \notin B => Cardinality(B) = Cardinality(A) - 1
    /\ w \notin A /\ w \in B => Cardinality(B) = Cardinality(A) + 1

\* A session that is freed is not taken up again.
StaysFreed(s) == freed'[s] => newjobs'[s] # -1 /\ bev'[s] = NoOne

=============================================================================
