-------------------------- MODULE LivesourceProofs --------------------------
(***************************************************************************)
(* For every number of sources, mountpoints, clients and workers: the      *)
(* reference and subscriber counters of a source are exact, subscriptions  *)
(* agree with the lists, and a source deletes its own entry of the table.  *)
(***************************************************************************)
EXTENDS Livesource, Counts, TLAPS

-----------------------------------------------------------------------------
(* The inductive invariant *)

\* The jobs of the unlocked queue, and what a worker can be running
ClientJobs == [type : {"add", "switch"}, st : Clients, ls : Livesources]
SourceJobs == [type : {"del", "redistribute"}, st : {None}, ls : Livesources]
Jobs == ClientJobs \cup SourceJobs
FreeJobs == [type : {"free"}, st : Clients, ls : {None}]

Labels == {"idle", "subscribe", "switch", "delete", "redistribute", "free", "deref",
           "remove", "insert", "end", "unref"}

Types ==
  /\ hash \in [Mountpoints -> Livesources \cup {None}]
  /\ mountpoint \in [Livesources -> Mountpoints \cup {None}]
  /\ subscribers \in [Livesources -> SUBSET Clients]
  /\ nsubs \in [Livesources -> Int]
  /\ refcnt \in [Livesources -> Int]
  /\ own \subseteq Livesources
  /\ args \subseteq Livesources
  /\ subscription \in [Clients -> Livesources \cup {None}]
  /\ jobq \in Seq(Jobs)
  /\ pc \in [Workers -> Labels]
  /\ job \in [Workers -> Jobs \cup FreeJobs \cup {NoJob}]
  /\ cap \in [Workers -> Livesources \cup {None}]

\* The job that brings a worker to each label
AtLabel(w) ==
  /\ pc[w] \in {"subscribe", "insert"} => job[w] \in ClientJobs
  /\ pc[w] = "switch" => job[w] \in ClientJobs /\ job[w].type = "switch"
  /\ pc[w] = "free" => job[w] \in FreeJobs
  /\ pc[w] \in {"deref", "remove"} =>
       /\ job[w] \in FreeJobs \/ (job[w] \in ClientJobs /\ job[w].type = "switch")
       /\ cap[w] \in Livesources
  /\ pc[w] \in {"delete", "end"} => job[w] \in SourceJobs
  /\ pc[w] = "unref" => job[w] \in Jobs
  /\ pc[w] = "redistribute" => job[w] \in SourceJobs

\* A worker between the halves of add_subscriber is the only one to subscribe
\* its client, which is in no list.
Inserting ==
  /\ \A w \in Workers : pc[w] = "insert" =>
       /\ subscription[job[w].st] = job[w].ls
       /\ job[w].st \notin subscribers[job[w].ls]
  /\ \A v, w \in Workers :
       pc[v] = "insert" /\ pc[w] = "insert" /\ job[v].st = job[w].st => v = w

\* The table finds a source under its own mountpoint.
TableInv == \A m \in Mountpoints : hash[m] # None => mountpoint[hash[m]] = m

\* Jobs that hold a reference to source l, and those which will, through the
\* session they start or by themselves, take it out of the table
Holding(l) == {j \in Jobs : j.ls = l /\ j.type # "redistribute"}
Ending(l) == {j \in Jobs : j.ls = l /\ j.type \in {"redistribute", "del"}}

\* Entries of the table, and workers, that hold a reference to source l
Entries(l) == {m \in Mountpoints : hash[m] = l}
Running(l) == {w \in Workers : pc[w] \notin {"idle", "redistribute"} /\ job[w].ls = l}
Removing(l) == {w \in Workers : pc[w] = "remove" /\ cap[w] = l}

\* Workers which run a job of Ending(l) that is still to happen
Enders(l) == {w \in Workers : pc[w] \in {"redistribute", "delete"} /\ job[w].ls = l}

\* Their numbers, and those of the other holders of a reference
NEntries(l) == Cardinality(Entries(l))
NOwn(l) == One(l \in own)
NArgs(l) == One(l \in args)
NSubs(l) == Cardinality(subscribers[l])
NQueued(l) == CountIn(jobq, Holding(l))
NRunning(l) == Cardinality(Running(l))
NRemoving(l) == Cardinality(Removing(l))
NEnding(l) == CountIn(jobq, Ending(l))
NEnders(l) == Cardinality(Enders(l))

Total(a, b, c, d, e, f, g) == a + b + c + d + e + f + g
References(l) ==
  Total(NEntries(l), NOwn(l), NArgs(l), NSubs(l), NQueued(l), NRunning(l), NRemoving(l))

\* What is left of the life of source l in the table: the job that starts its
\* session, the session, or the job that deletes it
Future(l) == NEnding(l) + NEnders(l) + NOwn(l)

\* A source is in the table as long as it has a future, of which it has one;
\* its references are counted; and it has none before it is created.
SourceInv(l) ==
  /\ refcnt[l] = References(l)
  /\ mountpoint[l] = None => refcnt[l] = 0
  /\ Future(l) \in {0, 1}
  /\ Future(l) = 1 => mountpoint[l] # None /\ hash[mountpoint[l]] = l

\* The arguments of a fetch are kept until it starts.
FetchInv ==
  /\ \A i \in 1..Len(jobq) : jobq[i].type = "redistribute" => jobq[i].ls \in args
  /\ \A w \in Workers : pc[w] = "redistribute" =>
       job[w].type = "redistribute" /\ job[w].ls \in args

\* The inductive invariant
IInv ==
  /\ Types /\ (\A w \in Workers : AtLabel(w))
  /\ Inserting /\ SubscribedWhereListed /\ NsubsExact
  /\ TableInv /\ FetchInv
  /\ \A l \in Livesources : SourceInv(l)

\* What the lemmas below start from: the invariant, and the laws of counting.
Premises == PartLaw /\ MoveLaw /\ SplitLaw /\ QueueInLaw /\ IInv

-----------------------------------------------------------------------------
(* What the invariant says of one state *)

\* Appending to a queue, and taking its head
LEMMA QueueFacts ==
    ASSUME NEW S, NEW q \in Seq(S)
    PROVE  /\ \A x \in S : Append(q, x) \in Seq(S)
           /\ q # <<>> => Head(q) \in S /\ Tail(q) \in Seq(S)
  OBVIOUS

\* The jobs, and what tells them apart
LEMMA JobFacts ==
    /\ \A l \in Livesources :
         /\ \A type \in {"add", "switch"}, c \in Clients :
              [type |-> type, st |-> c, ls |-> l] \in ClientJobs
         /\ [type |-> "del", st |-> None, ls |-> l] \in SourceJobs
         /\ [type |-> "redistribute", st |-> None, ls |-> l] \in SourceJobs
    /\ \A j \in ClientJobs :
         /\ j \in Jobs /\ j.st \in Clients /\ j.ls \in Livesources
         /\ j.type \in {"add", "switch"}
    /\ \A j \in SourceJobs :
         j \in Jobs /\ j.ls \in Livesources /\ j.type \in {"del", "redistribute"}
    /\ \A j \in FreeJobs : j.st \in Clients /\ j.ls = None /\ j.type = "free"
    /\ \A j \in Jobs : j \in ClientJobs \/ j \in SourceJobs
    /\ NoJob.ls = None
<1>1. \A l \in Livesources :
         /\ \A type \in {"add", "switch"}, c \in Clients :
              [type |-> type, st |-> c, ls |-> l] \in ClientJobs
         /\ [type |-> "del", st |-> None, ls |-> l] \in SourceJobs
         /\ [type |-> "redistribute", st |-> None, ls |-> l] \in SourceJobs
  BY DEF ClientJobs, SourceJobs
<1>2. \A j \in ClientJobs :
         /\ j \in Jobs /\ j.st \in Clients /\ j.ls \in Livesources
         /\ j.type \in {"add", "switch"}
  BY DEF Jobs, ClientJobs
<1>3. \A j \in SourceJobs :
         j \in Jobs /\ j.ls \in Livesources /\ j.type \in {"del", "redistribute"}
  BY DEF Jobs, SourceJobs
<1>4. \A j \in FreeJobs : j.st \in Clients /\ j.ls = None /\ j.type = "free"
  BY DEF FreeJobs
<1>5. (\A j \in Jobs : j \in ClientJobs \/ j \in SourceJobs) /\ NoJob.ls = None
  BY DEF Jobs, NoJob
<1> QED BY <1>1, <1>2, <1>3, <1>4, <1>5, Zenon

\* None is no source, and the sets that are counted are finite.
LEMMA Finite ==
    ASSUME Premises, NEW l
    PROVE  /\ None \notin Livesources
           /\ IsFiniteSet(Entries(l)) /\ IsFiniteSet(Running(l))
           /\ IsFiniteSet(Removing(l)) /\ IsFiniteSet(Enders(l))
           /\ l \in Livesources => IsFiniteSet(subscribers[l])
<1>1. /\ Entries(l) \in SUBSET Mountpoints /\ Running(l) \in SUBSET Workers
      /\ Removing(l) \in SUBSET Workers /\ Enders(l) \in SUBSET Workers
  BY DEF Entries, Running, Removing, Enders
<1>2. l \in Livesources => subscribers[l] \in SUBSET Clients
  BY DEF Premises, IInv, Types
<1> QED BY <1>1, <1>2, NoneAssumption, FiniteAssumption DEF Premises, PartLaw

\* The counts are natural numbers; a thread or an entry counts for something.
LEMMA CountFacts ==
    ASSUME Premises, NEW l \in Livesources
    PROVE  /\ NEntries(l) \in Nat /\ NOwn(l) \in Nat /\ NArgs(l) \in Nat
           /\ NSubs(l) \in Nat /\ NQueued(l) \in Nat /\ NRunning(l) \in Nat
           /\ NRemoving(l) \in Nat /\ NEnding(l) \in Nat /\ NEnders(l) \in Nat
           /\ NEntries(l) = 0 <=> Entries(l) = {}
           /\ NSubs(l) = 0 <=> subscribers[l] = {}
           /\ NEnders(l) = 0 <=> Enders(l) = {}
           /\ NEnding(l) = 0 <=> \A i \in 1..Len(jobq) : jobq[i] \notin Ending(l)
           /\ l \in own => NOwn(l) = 1
           /\ l \notin own => NOwn(l) = 0
           /\ l \in args => NArgs(l) = 1
           /\ l \notin args => NArgs(l) = 0
<1>1. jobq \in Seq(Jobs)
  BY DEF Premises, IInv, Types
<1>2. /\ NQueued(l) \in Nat /\ NEnding(l) \in Nat
      /\ NEnding(l) = 0 <=> \A i \in 1..Len(jobq) : jobq[i] \notin Ending(l)
  BY <1>1 DEF Premises, QueueInLaw, NQueued, NEnding
<1>3. \A S : IsFiniteSet(S) => Cardinality(S) \in Nat /\ (Cardinality(S) = 0 <=> S = {})
  BY DEF Premises, PartLaw
<1>4. /\ NEntries(l) \in Nat /\ NSubs(l) \in Nat /\ NRunning(l) \in Nat
      /\ NRemoving(l) \in Nat /\ NEnders(l) \in Nat
      /\ NEntries(l) = 0 <=> Entries(l) = {}
      /\ NSubs(l) = 0 <=> subscribers[l] = {}
      /\ NEnders(l) = 0 <=> Enders(l) = {}
  BY <1>3, Finite DEF NEntries, NSubs, NRunning, NRemoving, NEnders
<1>5. /\ NOwn(l) \in Nat /\ NArgs(l) \in Nat
      /\ l \in own => NOwn(l) = 1
      /\ l \notin own => NOwn(l) = 0
      /\ l \in args => NArgs(l) = 1
      /\ l \notin args => NArgs(l) = 0
  BY DEF NOwn, NArgs, One
<1> QED BY <1>2, <1>4, <1>5, Zenon

\* What the labels of the workers say of their jobs.
LEMMA AtLabelFacts ==
    ASSUME Premises, NEW w \in Workers
    PROVE  AtLabel(w)
  BY DEF Premises, IInv

-----------------------------------------------------------------------------
(* How the counts change *)

\* Two sets that differ by one element
LEMMA Moved ==
    ASSUME Premises, NEW A, NEW B, NEW x, IsFiniteSet(A), A \ {x} = B \ {x}
    PROVE  /\ (x \in B <=> x \in A) => Cardinality(B) = Cardinality(A)
           /\ x \in B /\ x \notin A => Cardinality(B) = Cardinality(A) + 1
           /\ x \notin B /\ x \in A => Cardinality(B) = Cardinality(A) - 1
<1>1. Cardinality(B) = Cardinality(A) + One(x \in B) - One(x \in A)
  BY Zenon DEF Premises, MoveLaw
<1>2. Cardinality(A) \in Nat
  BY DEF Premises, PartLaw
<1> QED BY <1>1, <1>2 DEF One

\* A worker moves.
LEMMA WorkerMove ==
    ASSUME Premises, NEW w \in Workers,
           \A v \in Workers : v # w => pc'[v] = pc[v] /\ job'[v] = job[v] /\ cap'[v] = cap[v],
           NEW l \in Livesources
    PROVE  /\ (w \in Running(l)' <=> w \in Running(l)) => NRunning(l)' = NRunning(l)
           /\ w \in Running(l)' /\ w \notin Running(l) => NRunning(l)' = NRunning(l) + 1
           /\ w \notin Running(l)' /\ w \in Running(l) => NRunning(l)' = NRunning(l) - 1
           /\ (w \in Removing(l)' <=> w \in Removing(l)) => NRemoving(l)' = NRemoving(l)
           /\ w \in Removing(l)' /\ w \notin Removing(l) => NRemoving(l)' = NRemoving(l) + 1
           /\ w \notin Removing(l)' /\ w \in Removing(l) => NRemoving(l)' = NRemoving(l) - 1
           /\ (w \in Enders(l)' <=> w \in Enders(l)) => NEnders(l)' = NEnders(l)
           /\ w \in Enders(l)' /\ w \notin Enders(l) => NEnders(l)' = NEnders(l) + 1
           /\ w \notin Enders(l)' /\ w \in Enders(l) => NEnders(l)' = NEnders(l) - 1
<1>1. /\ Running(l) \ {w} = Running(l)' \ {w} /\ Removing(l) \ {w} = Removing(l)' \ {w}
      /\ Enders(l) \ {w} = Enders(l)' \ {w}
  BY Zenon DEF Running, Removing, Enders
<1>2. IsFiniteSet(Running(l)) /\ IsFiniteSet(Removing(l)) /\ IsFiniteSet(Enders(l))
  BY Finite, Zenon
<1>3. ASSUME NEW A, NEW B, IsFiniteSet(A), A \ {w} = B \ {w}
      PROVE  /\ (w \in B <=> w \in A) => Cardinality(B) = Cardinality(A)
             /\ w \in B /\ w \notin A => Cardinality(B) = Cardinality(A) + 1
             /\ w \notin B /\ w \in A => Cardinality(B) = Cardinality(A) - 1
  BY <1>3, Moved
<1>4. /\ NRunning(l) = Cardinality(Running(l)) /\ NRunning(l)' = Cardinality(Running(l)')
      /\ NRemoving(l) = Cardinality(Removing(l)) /\ NRemoving(l)' = Cardinality(Removing(l)')
      /\ NEnders(l) = Cardinality(Enders(l)) /\ NEnders(l)' = Cardinality(Enders(l)')
  BY Zenon DEF NRunning, NRemoving, NEnders
<1>5. /\ (w \in Running(l)' <=> w \in Running(l)) => NRunning(l)' = NRunning(l)
      /\ w \in Running(l)' /\ w \notin Running(l) => NRunning(l)' = NRunning(l) + 1
      /\ w \notin Running(l)' /\ w \in Running(l) => NRunning(l)' = NRunning(l) - 1
  BY <1>1, <1>2, <1>3, <1>4, ZenonT(30)
<1>6. /\ (w \in Removing(l)' <=> w \in Removing(l)) => NRemoving(l)' = NRemoving(l)
      /\ w \in Removing(l)' /\ w \notin Removing(l) => NRemoving(l)' = NRemoving(l) + 1
      /\ w \notin Removing(l)' /\ w \in Removing(l) => NRemoving(l)' = NRemoving(l) - 1
  BY <1>1, <1>2, <1>3, <1>4, ZenonT(30)
<1>7. /\ (w \in Enders(l)' <=> w \in Enders(l)) => NEnders(l)' = NEnders(l)
      /\ w \in Enders(l)' /\ w \notin Enders(l) => NEnders(l)' = NEnders(l) + 1
      /\ w \notin Enders(l)' /\ w \in Enders(l) => NEnders(l)' = NEnders(l) - 1
  BY <1>1, <1>2, <1>3, <1>4, ZenonT(30)
<1> QED BY <1>5, <1>6, <1>7, Zenon

\* No worker moves.
LEMMA WorkersSame ==
    ASSUME UNCHANGED <<pc, job, cap>>, NEW l
    PROVE  NRunning(l)' = NRunning(l) /\ NRemoving(l)' = NRemoving(l) /\ NEnders(l)' = NEnders(l)
  BY Zenon DEF NRunning, NRemoving, NEnders, Running, Removing, Enders

\* A job is appended, or taken.
LEMMA QueueMove ==
    ASSUME Premises, NEW l \in Livesources, NEW j \in Jobs
    PROVE  /\ jobq' = Append(jobq, j) =>
                /\ j \in Holding(l) => NQueued(l)' = NQueued(l) + 1
                /\ j \notin Holding(l) => NQueued(l)' = NQueued(l)
                /\ j \in Ending(l) => NEnding(l)' = NEnding(l) + 1
                /\ j \notin Ending(l) => NEnding(l)' = NEnding(l)
           /\ jobq # <<>> /\ j = Head(jobq) /\ jobq' = Tail(jobq) =>
                /\ j \in Holding(l) => NQueued(l)' = NQueued(l) - 1
                /\ j \notin Holding(l) => NQueued(l)' = NQueued(l)
                /\ j \in Ending(l) => NEnding(l)' = NEnding(l) - 1
                /\ j \notin Ending(l) => NEnding(l)' = NEnding(l)
<1>1. jobq \in Seq(Jobs)
  BY DEF Premises, IInv, Types
<1>2. ASSUME NEW T
      PROVE  /\ CountIn(Append(jobq, j), T) = CountIn(jobq, T) + One(j \in T)
             /\ jobq # <<>> => CountIn(Tail(jobq), T) = CountIn(jobq, T) - One(Head(jobq) \in T)
             /\ CountIn(jobq, T) \in Nat
  BY <1>1 DEF Premises, QueueInLaw
<1>3. ASSUME NEW T
      PROVE  /\ j \in T => CountIn(Append(jobq, j), T) = CountIn(jobq, T) + 1
             /\ j \notin T => CountIn(Append(jobq, j), T) = CountIn(jobq, T)
             /\ jobq # <<>> /\ j = Head(jobq) /\ j \in T
                  => CountIn(Tail(jobq), T) = CountIn(jobq, T) - 1
             /\ jobq # <<>> /\ j = Head(jobq) /\ j \notin T
                  => CountIn(Tail(jobq), T) = CountIn(jobq, T)
  BY <1>2 DEF One
<1>4. /\ NQueued(l) = CountIn(jobq, Holding(l)) /\ NQueued(l)' = CountIn(jobq', Holding(l))
      /\ NEnding(l) = CountIn(jobq, Ending(l)) /\ NEnding(l)' = CountIn(jobq', Ending(l))
  BY Zenon DEF NQueued, NEnding, Holding, Ending
<1>5. jobq' = Append(jobq, j) =>
                /\ j \in Holding(l) => NQueued(l)' = NQueued(l) + 1
                /\ j \notin Holding(l) => NQueued(l)' = NQueued(l)
                /\ j \in Ending(l) => NEnding(l)' = NEnding(l) + 1
                /\ j \notin Ending(l) => NEnding(l)' = NEnding(l)
  BY <1>3, <1>4, Zenon
<1>6. jobq # <<>> /\ j = Head(jobq) /\ jobq' = Tail(jobq) =>
                /\ j \in Holding(l) => NQueued(l)' = NQueued(l) - 1
                /\ j \notin Holding(l) => NQueued(l)' = NQueued(l)
                /\ j \in Ending(l) => NEnding(l)' = NEnding(l) - 1
                /\ j \notin Ending(l) => NEnding(l)' = NEnding(l)
  BY <1>3, <1>4, Zenon
<1> QED BY <1>5, <1>6, Zenon

\* The queue, the table or the sessions of the sources stay the same.
LEMMA OthersSame ==
    ASSUME NEW l
    PROVE  /\ jobq' = jobq => NQueued(l)' = NQueued(l) /\ NEnding(l)' = NEnding(l)
           /\ hash' = hash => NEntries(l)' = NEntries(l)
           /\ own' = own => NOwn(l)' = NOwn(l)
           /\ args' = args => NArgs(l)' = NArgs(l)
           /\ subscribers' = subscribers => NSubs(l)' = NSubs(l)
  BY Zenon DEF NQueued, NEnding, NEntries, Entries, NOwn, NArgs, NSubs, Holding, Ending, CountIn

\* How a sum of seven numbers changes with some of them
SumLaw(a, b, c, d, e, f, g) ==
  /\ Total(a - 1, b, c, d, e, f, g) = Total(a, b, c, d, e, f, g) - 1
  /\ Total(a, b + 1, c, d, e, f, g) = Total(a, b, c, d, e, f, g) + 1
  /\ Total(a, b - 1, c, d, e + 1, f, g) = Total(a, b, c, d, e, f, g)
  /\ Total(a, b - 1, c - 1, d, e + 1, f, g) = Total(a, b, c, d, e, f, g) - 1
  /\ Total(a, b, c - 1, d, e, f, g) = Total(a, b, c, d, e, f, g) - 1
  /\ Total(a, b, c, d + 1, e, f, g) = Total(a, b, c, d, e, f, g) + 1
  /\ Total(a, b, c, d, e + 1, f, g) = Total(a, b, c, d, e, f, g) + 1
  /\ Total(a, b, c, d, e - 1, f + 1, g) = Total(a, b, c, d, e, f, g)
  /\ Total(a, b, c, d, e, f - 1, g) = Total(a, b, c, d, e, f, g) - 1
  /\ Total(a, b, c, d, e, f, g + 1) = Total(a, b, c, d, e, f, g) + 1
  /\ Total(a, b, c, d, e, f, g - 1) = Total(a, b, c, d, e, f, g) - 1
  /\ Total(a, b, c, d - 1, e, f, g - 1) = Total(a, b, c, d, e, f, g) - 2
  /\ \A n \in Nat : Total(a, b, c, d - n, e, f, g) = Total(a, b, c, d, e, f, g) - n

LEMMA Sums ==
    ASSUME NEW a \in Nat, NEW b \in Nat, NEW c \in Nat, NEW d \in Nat, NEW e \in Nat,
           NEW f \in Nat, NEW g \in Nat
    PROVE  SumLaw(a, b, c, d, e, f, g)
  BY DEF SumLaw, Total

\* The references of a source are such a sum.
LEMMA Ledger ==
    ASSUME Premises, NEW l \in Livesources
    PROVE  /\ refcnt[l] = References(l)
           /\ SumLaw(NEntries(l), NOwn(l), NArgs(l), NSubs(l), NQueued(l), NRunning(l),
                     NRemoving(l))
<1>1. /\ NEntries(l) \in Nat /\ NOwn(l) \in Nat /\ NArgs(l) \in Nat
      /\ NSubs(l) \in Nat /\ NQueued(l) \in Nat /\ NRunning(l) \in Nat
      /\ NRemoving(l) \in Nat
  BY CountFacts, Zenon
<1>2. refcnt[l] = References(l)
  BY Zenon DEF Premises, IInv, SourceInv
<1> QED BY <1>1, <1>2, Sums, Zenon

-----------------------------------------------------------------------------
(* Parts of the invariant that a step leaves alone *)

\* Everything the invariant is about
invVars == <<hash, mountpoint, subscribers, nsubs, refcnt, own, args, subscription,
             jobq, pc, job, cap>>

\* A step that changes nothing of it
LEMMA Stutter == ASSUME Premises, UNCHANGED invVars PROVE IInv'
<1>1. UNCHANGED <<hash, mountpoint, subscribers, nsubs, refcnt, own, args, subscription,
                  jobq, pc, job, cap>>
  BY DEF invVars
<1>2. Types' /\ (\A w \in Workers : AtLabel(w)') /\ Inserting'
  BY <1>1, Zenon DEF Premises, IInv, Types, AtLabel, Inserting
<1>3. SubscribedWhereListed' /\ NsubsExact' /\ TableInv' /\ FetchInv'
  BY <1>1, Zenon DEF Premises, IInv, SubscribedWhereListed, NsubsExact, TableInv, FetchInv
<1>4. ASSUME NEW l \in Livesources PROVE SourceInv(l)'
  <2>1. SourceInv(l)
    BY Zenon DEF Premises, IInv
  <2>2. References(l)' = References(l) /\ Future(l)' = Future(l)
    BY <1>1, WorkersSame, OthersSame, Zenon DEF References, Future
  <2> QED BY <1>1, <2>1, <2>2, Zenon DEF SourceInv
<1> QED BY <1>2, <1>3, <1>4, Zenon DEF IInv

\* The subscriptions and the workers that subscribe stay the same.
LEMMA SubsSame ==
    ASSUME Premises, UNCHANGED <<subscribers, nsubs, subscription>>,
           \A w \in Workers : (pc'[w] = "insert" <=> pc[w] = "insert")
                              /\ (pc[w] = "insert" => job'[w] = job[w])
    PROVE  Inserting' /\ SubscribedWhereListed' /\ NsubsExact'
<1>1. Inserting /\ SubscribedWhereListed /\ NsubsExact
  BY DEF Premises, IInv
<1>2. Inserting'
  BY <1>1, ZenonT(30) DEF Inserting
<1>3. SubscribedWhereListed'
  BY <1>1 DEF SubscribedWhereListed
<1>4. NsubsExact'
  BY <1>1, Zenon DEF NsubsExact
<1> QED BY <1>2, <1>3, <1>4

\* The table stays the same.
LEMMA TableSame == ASSUME Premises, UNCHANGED <<hash, mountpoint>> PROVE TableInv'
  BY Zenon DEF Premises, IInv, TableInv

\* Workers other than w keep their labels.
LEMMA OtherLabels ==
    ASSUME Premises, NEW w \in Workers,
           \A v \in Workers : v # w => pc'[v] = pc[v] /\ job'[v] = job[v] /\ cap'[v] = cap[v],
           AtLabel(w)'
    PROVE  \A v \in Workers : AtLabel(v)'
<1>1. ASSUME NEW v \in Workers, v # w PROVE AtLabel(v)'
  <2>1. AtLabel(v) /\ pc'[v] = pc[v] /\ job'[v] = job[v] /\ cap'[v] = cap[v]
    BY <1>1, AtLabelFacts, Zenon
  <2> QED BY <2>1, Zenon DEF AtLabel
<1> QED BY <1>1, Zenon

\* A source keeps what it is owed, and its place in the table.
LEMMA SourceSame ==
    ASSUME Premises, NEW l \in Livesources, refcnt'[l] = References(l)',
           Future(l)' = Future(l), mountpoint'[l] = mountpoint[l],
           mountpoint[l] = None => refcnt'[l] = 0,
           Future(l) = 1 /\ mountpoint[l] # None /\ hash[mountpoint[l]] = l
             => hash'[mountpoint[l]] = l
    PROVE  SourceInv(l)'
<1>1. SourceInv(l)
  BY Zenon DEF Premises, IInv
<1> QED BY <1>1, Zenon DEF SourceInv

-----------------------------------------------------------------------------
(* Sources that are created *)

\* An entry of the table changes.
LEMMA EntriesMove ==
    ASSUME Premises, NEW m \in Mountpoints, NEW y, hash' = [hash EXCEPT ![m] = y],
           NEW l \in Livesources
    PROVE  /\ (hash[m] = l <=> y = l) => NEntries(l)' = NEntries(l)
           /\ hash[m] # l /\ y = l => NEntries(l)' = NEntries(l) + 1
           /\ hash[m] = l /\ y # l => NEntries(l)' = NEntries(l) - 1
<1>1. hash \in [Mountpoints -> Livesources \cup {None}]
  BY DEF Premises, IInv, Types
<1>2. /\ \A n \in Mountpoints : n # m => hash'[n] = hash[n]
      /\ hash'[m] = y
  BY <1>1, Zenon
<1>3. /\ Entries(l) \ {m} = Entries(l)' \ {m}
      /\ m \in Entries(l) <=> hash[m] = l
      /\ m \in Entries(l)' <=> y = l
  BY <1>2, Zenon DEF Entries
<1>4. NEntries(l) = Cardinality(Entries(l)) /\ NEntries(l)' = Cardinality(Entries(l)')
  BY Zenon DEF NEntries
<1>5. IsFiniteSet(Entries(l))
  BY Finite, Zenon
<1> QED BY <1>3, <1>4, <1>5, Moved, Zenon

LEMMA ZeroSum ==
    ASSUME NEW a \in Nat, NEW b \in Nat, NEW c \in Nat, NEW d \in Nat, NEW e \in Nat,
           NEW f \in Nat, NEW g \in Nat, a + b + c + d + e + f + g = 0
    PROVE  a = 0 /\ b = 0 /\ c = 0 /\ d = 0 /\ e = 0 /\ f = 0 /\ g = 0
  OBVIOUS

\* Nothing refers to a source that does not exist yet.
LEMMA Unborn ==
    ASSUME Premises, NEW l \in Livesources, mountpoint[l] = None
    PROVE  /\ NEntries(l) = 0 /\ NOwn(l) = 0 /\ NArgs(l) = 0 /\ NSubs(l) = 0
           /\ NQueued(l) = 0 /\ NRunning(l) = 0 /\ NRemoving(l) = 0
           /\ NEnding(l) = 0 /\ NEnders(l) = 0
<1>1. refcnt[l] = 0 /\ References(l) = 0 /\ Future(l) = 0
  BY Zenon DEF Premises, IInv, SourceInv
<1>2. /\ NEntries(l) \in Nat /\ NOwn(l) \in Nat /\ NArgs(l) \in Nat
      /\ NSubs(l) \in Nat /\ NQueued(l) \in Nat /\ NRunning(l) \in Nat
      /\ NRemoving(l) \in Nat /\ NEnding(l) \in Nat /\ NEnders(l) \in Nat
  BY CountFacts, Zenon
<1>3. /\ NEntries(l) = 0 /\ NOwn(l) = 0 /\ NArgs(l) = 0 /\ NSubs(l) = 0
      /\ NQueued(l) = 0 /\ NRunning(l) = 0 /\ NRemoving(l) = 0
  <2>1. NEntries(l) + NOwn(l) + NArgs(l) + NSubs(l) + NQueued(l) + NRunning(l)
          + NRemoving(l) = 0
    BY <1>1, Zenon DEF References, Total
  <2> QED BY <1>2, <2>1, ZeroSum
<1>4. NEnding(l) = 0 /\ NEnders(l) = 0
  BY <1>1, <1>2 DEF Future
<1> QED BY <1>3, <1>4

\* A source enters the table.
LEMMA NewEntry ==
    ASSUME Premises, NEW l \in Livesources, NEW m \in Mountpoints, hash[m] = None,
           NEW s, NEW n \in Int, livesource_new(l, m, s, n)
    PROVE  /\ hash' \in [Mountpoints -> Livesources \cup {None}]
           /\ mountpoint' \in [Livesources -> Mountpoints \cup {None}]
           /\ refcnt' \in [Livesources -> Int]
           /\ TableInv'
           /\ mountpoint[l] = None /\ mountpoint'[l] = m /\ hash'[m] = l
           /\ refcnt'[l] = n /\ NEntries(l)' = NEntries(l) + 1
           /\ \A k \in Livesources : k # l =>
                /\ NEntries(k)' = NEntries(k) /\ refcnt'[k] = refcnt[k]
                /\ mountpoint'[k] = mountpoint[k]
                /\ mountpoint[k] # None /\ hash[mountpoint[k]] = k
                     => hash'[mountpoint[k]] = k
<1>1. /\ hash \in [Mountpoints -> Livesources \cup {None}]
      /\ mountpoint \in [Livesources -> Mountpoints \cup {None}]
      /\ refcnt \in [Livesources -> Int]
  BY DEF Premises, IInv, Types
<1>2. /\ mountpoint[l] = None /\ mountpoint' = [mountpoint EXCEPT ![l] = m]
      /\ refcnt' = [refcnt EXCEPT ![l] = n] /\ hash' = [hash EXCEPT ![m] = l]
  BY DEF livesource_new
<1>3. None \notin Livesources /\ None \notin Mountpoints
  BY NoneAssumption, Zenon
<1>4. /\ hash' \in [Mountpoints -> Livesources \cup {None}]
      /\ mountpoint' \in [Livesources -> Mountpoints \cup {None}]
      /\ refcnt' \in [Livesources -> Int]
  BY <1>1, <1>2
<1>5. /\ mountpoint'[l] = m /\ hash'[m] = l /\ refcnt'[l] = n
      /\ \A k \in Livesources : k # l =>
           refcnt'[k] = refcnt[k] /\ mountpoint'[k] = mountpoint[k]
      /\ \A p \in Mountpoints : p # m => hash'[p] = hash[p]
  BY <1>1, <1>2
<1>6. TableInv'
  <2>1. ASSUME NEW p \in Mountpoints, hash'[p] # None PROVE mountpoint'[hash'[p]] = p
    <3>1. CASE p = m
      BY <1>5, <3>1, Zenon
    <3>2. CASE p # m
      <4>1. hash'[p] = hash[p] /\ hash[p] \in Livesources /\ mountpoint[hash[p]] = p
        BY <1>1, <1>5, <2>1, <3>2, ZenonT(30) DEF Premises, IInv, TableInv
      <4> QED BY <1>2, <1>3, <1>5, <4>1, ZenonT(30)
    <3> QED BY <3>1, <3>2, Zenon
  <2> QED BY <2>1, Zenon DEF TableInv
<1>7. /\ NEntries(l)' = NEntries(l) + 1
      /\ \A k \in Livesources : k # l => NEntries(k)' = NEntries(k)
  <2>1. ASSUME NEW k \in Livesources
        PROVE  /\ (hash[m] = k <=> l = k) => NEntries(k)' = NEntries(k)
               /\ hash[m] # k /\ l = k => NEntries(k)' = NEntries(k) + 1
    BY <1>2, EntriesMove, Zenon
  <2> QED BY <1>3, <2>1, Zenon
<1>8. ASSUME NEW k \in Livesources, k # l, mountpoint[k] # None, hash[mountpoint[k]] = k
      PROVE  hash'[mountpoint[k]] = k
  <2>1. mountpoint[k] \in Mountpoints /\ mountpoint[k] # m
    BY <1>1, <1>3, <1>8, Zenon
  <2> QED BY <1>5, <1>8, <2>1, Zenon
<1> QED BY <1>2, <1>4, <1>5, <1>6, <1>7, <1>8, Zenon

\* A source connects.
LEMMA ConnectedStep ==
    ASSUME Premises, NEW l \in Livesources, NEW m \in Mountpoints, Connected(l, m)
    PROVE  IInv'
<1>1. /\ hash[m] = None /\ livesource_new(l, m, "RUNNING", 2) /\ own' = own \cup {l}
      /\ UNCHANGED <<args, subscribers, nsubs, subscription, jobq, pc, job, cap>>
  BY Zenon DEF Connected, workerVars, subVars
<1>2. /\ hash' \in [Mountpoints -> Livesources \cup {None}]
      /\ mountpoint' \in [Livesources -> Mountpoints \cup {None}]
      /\ refcnt' \in [Livesources -> Int] /\ TableInv'
      /\ mountpoint[l] = None /\ mountpoint'[l] = m /\ hash'[m] = l
      /\ refcnt'[l] = 2 /\ NEntries(l)' = NEntries(l) + 1
      /\ \A k \in Livesources : k # l =>
           /\ NEntries(k)' = NEntries(k) /\ refcnt'[k] = refcnt[k]
           /\ mountpoint'[k] = mountpoint[k]
           /\ mountpoint[k] # None /\ hash[mountpoint[k]] = k => hash'[mountpoint[k]] = k
  BY <1>1, NewEntry
<1>3. Types'
  BY <1>1, <1>2, Zenon DEF Premises, IInv, Types
<1>4. \A w \in Workers : AtLabel(w)'
  BY <1>1, AtLabelFacts, Zenon DEF AtLabel
<1>5. Inserting' /\ SubscribedWhereListed' /\ NsubsExact'
  BY <1>1, SubsSame, Zenon
<1>6. FetchInv'
  BY <1>1, Zenon DEF Premises, IInv, FetchInv
<1>7. SourceInv(l)'
  <2>1. /\ NEntries(l) = 0 /\ NArgs(l) = 0 /\ NSubs(l) = 0 /\ NQueued(l) = 0
        /\ NRunning(l) = 0 /\ NRemoving(l) = 0 /\ NEnding(l) = 0 /\ NEnders(l) = 0
    BY <1>2, Unborn, Zenon
  <2>2. /\ NArgs(l)' = 0 /\ NSubs(l)' = 0 /\ NQueued(l)' = 0 /\ NEnding(l)' = 0
        /\ NRunning(l)' = 0 /\ NRemoving(l)' = 0 /\ NEnders(l)' = 0
    BY <1>1, <2>1, WorkersSame, OthersSame, Zenon
  <2>3. NOwn(l)' = 1 /\ NEntries(l)' = 1
    BY <1>1, <1>2, <2>1 DEF NOwn, One
  <2>4. References(l)' = 2 /\ Future(l)' = 1
    BY <2>2, <2>3 DEF References, Total, Future
  <2>5. m # None
    BY NoneAssumption
  <2> QED BY <1>2, <2>4, <2>5 DEF SourceInv
<1>8. ASSUME NEW k \in Livesources, k # l PROVE SourceInv(k)'
  <2>1. NOwn(k)' = NOwn(k)
    BY <1>1, <1>8, Zenon DEF NOwn, One
  <2>2. References(k)' = References(k) /\ Future(k)' = Future(k)
    BY <1>1, <1>2, <1>8, <2>1, WorkersSame, OthersSame, Zenon DEF References, Future
  <2>3. SourceInv(k)
    BY Zenon DEF Premises, IInv
  <2> QED BY <1>2, <1>8, <2>2, <2>3, SourceSame, Zenon DEF SourceInv
<1> QED BY <1>2, <1>3, <1>4, <1>5, <1>6, <1>7, <1>8, Zenon DEF IInv

-----------------------------------------------------------------------------
(* Clients that look for a source *)

\* A job is queued about a source of the table, or about a new one, which is
\* to be pulled.
AskOld(l, j) ==
  /\ jobq' = Append(jobq, j)
  /\ refcnt' = [refcnt EXCEPT ![l] = @ + 1]
  /\ UNCHANGED <<hash, mountpoint, args>>
AskNew(l, m, j) ==
  /\ hash[m] = None
  /\ livesource_new(l, m, "FETCH_PENDING", 3)
  /\ args' = args \cup {l}
  /\ jobq' = Append(Append(jobq, [type |-> "redistribute", st |-> None, ls |-> l]), j)

\* The three outcomes of livesource_find_unlocked for its callers
LEMMA Found ==
    ASSUME Premises, NEW type \in {"add", "switch"}, NEW c \in Clients, NEW m \in Mountpoints,
           NEW accepted, FindOrCreate(type, c, m, accepted)
    PROVE  \/ UNCHANGED <<hash, mountpoint, args, jobq, refcnt>>
           \/ \E l \in Livesources, j \in ClientJobs :
                j.ls = l /\ mountpoint[l] # None /\ AskOld(l, j)
           \/ \E l \in Livesources, j \in ClientJobs : j.ls = l /\ AskNew(l, m, j)
<1> DEFINE j(l) == [type |-> type, st |-> c, ls |-> l]
<1>1. \A l \in Livesources : j(l) \in ClientJobs /\ j(l).ls = l
  BY JobFacts, Zenon
<1>2. CASE /\ hash[m] # None
           /\ IF state[hash[m]] \in accepted
                THEN /\ jobq' = QueueJob(type, c, hash[m])
                     /\ refcnt' = [refcnt EXCEPT ![hash[m]] = @ + 1]
                ELSE UNCHANGED <<jobq, refcnt>>
           /\ UNCHANGED <<hash, mountpoint, state, args>>
  <2>1. PICK l \in Livesources : l = hash[m]
    BY <1>2, Zenon DEF Premises, IInv, Types
  <2>2. mountpoint[l] = m /\ m # None
    BY <1>2, <2>1, NoneAssumption, Zenon DEF Premises, IInv, TableInv
  <2>3. CASE state[hash[m]] \in accepted
    <3>1. AskOld(l, j(l))
      BY <1>2, <2>1, <2>3, Zenon DEF AskOld, QueueJob
    <3> QED BY <1>1, <2>2, <3>1, Zenon
  <2> QED BY <1>2, <2>3, Zenon
<1>3. ASSUME NEW l \in Livesources, hash[m] = None, livesource_new(l, m, "FETCH_PENDING", 3),
             args' = args \cup {l},
             jobq' = Append(Append(jobq, [type |-> "redistribute", st |-> None, ls |-> l]), j(l))
      PROVE  \E k \in Livesources, i \in ClientJobs : i.ls = k /\ AskNew(k, m, i)
  <2>1. AskNew(l, m, j(l))
    BY <1>3, Zenon DEF AskNew
  <2> QED BY <1>1, <2>1, Zenon
<1> QED BY <1>2, <1>3, Zenon DEF FindOrCreate

\* A job is queued about a source of the table.
LEMMA AskOldStep ==
    ASSUME Premises, NEW l \in Livesources, NEW j \in ClientJobs, j.ls = l,
           mountpoint[l] # None, AskOld(l, j),
           UNCHANGED <<own, subscribers, nsubs, subscription, pc, job, cap>>
    PROVE  IInv'
<1>1. /\ jobq' = Append(jobq, j) /\ refcnt' = [refcnt EXCEPT ![l] = @ + 1]
      /\ UNCHANGED <<hash, mountpoint, args>>
  BY DEF AskOld
<1>2. jobq \in Seq(Jobs) /\ refcnt \in [Livesources -> Int]
  BY Zenon DEF Premises, IInv, Types
<1>3. j \in Jobs /\ j.type \in {"add", "switch"}
  BY JobFacts
<1>4. /\ jobq' \in Seq(Jobs) /\ refcnt' \in [Livesources -> Int]
      /\ refcnt'[l] = refcnt[l] + 1
      /\ \A k \in Livesources : k # l => refcnt'[k] = refcnt[k]
  BY <1>1, <1>2, <1>3
<1>5. Types'
  BY <1>1, <1>4, Zenon DEF Premises, IInv, Types
<1>6. \A w \in Workers : AtLabel(w)'
  BY <1>1, AtLabelFacts, Zenon DEF AtLabel
<1>7. Inserting' /\ SubscribedWhereListed' /\ NsubsExact'
  BY <1>1, SubsSame, Zenon
<1>8. TableInv'
  BY <1>1, TableSame, Zenon
<1>9. FetchInv'
  <2>1. FetchInv
    BY Zenon DEF Premises, IInv
  <2>2. ASSUME NEW i \in 1..Len(jobq'), jobq'[i].type = "redistribute"
        PROVE  i \in 1..Len(jobq) /\ jobq'[i] = jobq[i]
    BY <1>1, <1>2, <1>3, <2>2
  <2> QED BY <1>1, <2>1, <2>2, Zenon DEF FetchInv
<1>10. ASSUME NEW k \in Livesources PROVE SourceInv(k)'
  <2>2. /\ k = l => NQueued(k)' = NQueued(k) + 1
        /\ k # l => NQueued(k)' = NQueued(k)
        /\ NEnding(k)' = NEnding(k)
    <3>1. (j \in Holding(k) <=> k = l) /\ j \notin Ending(k)
      BY <1>3, Zenon DEF Holding, Ending
    <3> QED BY <1>1, <1>3, <3>1, QueueMove, Zenon
  <2>3. /\ NEntries(k)' = NEntries(k) /\ NOwn(k)' = NOwn(k) /\ NArgs(k)' = NArgs(k)
        /\ NSubs(k)' = NSubs(k) /\ NRunning(k)' = NRunning(k)
        /\ NRemoving(k)' = NRemoving(k) /\ NEnders(k)' = NEnders(k)
    BY <1>1, WorkersSame, OthersSame, Zenon
  <2>4. Future(k)' = Future(k)
    BY <2>2, <2>3, Zenon DEF Future
  <2>5. refcnt'[k] = References(k)'
    <3>1. CASE k = l
      <4>1. NQueued(k)' = NQueued(k) + 1 /\ refcnt'[k] = refcnt[k] + 1
        BY <1>4, <2>2, <3>1, Zenon
      <4> QED BY <2>3, <4>1, Ledger, ZenonT(30) DEF References, SumLaw
    <3>2. CASE k # l
      <4>1. NQueued(k)' = NQueued(k) /\ refcnt'[k] = refcnt[k]
        BY <1>4, <2>2, <3>2, Zenon
      <4> QED BY <2>3, <4>1, Ledger, Zenon DEF References
    <3> QED BY <3>1, <3>2
  <2>6. mountpoint[k] = None => refcnt'[k] = 0
    BY <1>4, Zenon DEF Premises, IInv, SourceInv
  <2> QED BY <1>1, <2>4, <2>5, <2>6, SourceSame, Zenon
<1> QED BY <1>5, <1>6, <1>7, <1>8, <1>9, <1>10, Zenon DEF IInv

\* A job is queued about a source that is created to be pulled.
LEMMA AskNewStep ==
    ASSUME Premises, NEW l \in Livesources, NEW m \in Mountpoints, NEW j \in ClientJobs,
           j.ls = l, AskNew(l, m, j),
           UNCHANGED <<own, subscribers, nsubs, subscription, pc, job, cap>>
    PROVE  IInv'
<1>1. PICK r \in SourceJobs : /\ r.ls = l /\ r.type = "redistribute"
                              /\ jobq' = Append(Append(jobq, r), j)
  BY JobFacts, Zenon DEF AskNew
<1>2. /\ hash[m] = None /\ livesource_new(l, m, "FETCH_PENDING", 3)
      /\ args' = args \cup {l}
  BY Zenon DEF AskNew
<1>3. /\ hash' \in [Mountpoints -> Livesources \cup {None}]
      /\ mountpoint' \in [Livesources -> Mountpoints \cup {None}]
      /\ refcnt' \in [Livesources -> Int] /\ TableInv'
      /\ mountpoint[l] = None /\ mountpoint'[l] = m /\ hash'[m] = l
      /\ refcnt'[l] = 3 /\ NEntries(l)' = NEntries(l) + 1
      /\ \A k \in Livesources : k # l =>
           /\ NEntries(k)' = NEntries(k) /\ refcnt'[k] = refcnt[k]
           /\ mountpoint'[k] = mountpoint[k]
           /\ mountpoint[k] # None /\ hash[mountpoint[k]] = k => hash'[mountpoint[k]] = k
  BY <1>2, NewEntry
<1>4. /\ j \in Jobs /\ j.type \in {"add", "switch"} /\ r \in Jobs /\ jobq \in Seq(Jobs)
      /\ args \subseteq Livesources
  BY JobFacts, Zenon DEF Premises, IInv, Types
<1>5. jobq' \in Seq(Jobs) /\ args' \subseteq Livesources
  BY <1>1, <1>2, <1>4
<1>6. Types'
  BY <1>3, <1>5, Zenon DEF Premises, IInv, Types
<1>7. \A w \in Workers : AtLabel(w)'
  BY AtLabelFacts, Zenon DEF AtLabel
<1>8. Inserting' /\ SubscribedWhereListed' /\ NsubsExact'
  BY SubsSame, Zenon
<1>9. FetchInv'
  <2>1. FetchInv
    BY DEF Premises, IInv
  <2>2. ASSUME NEW i \in 1..Len(jobq'), jobq'[i].type = "redistribute"
        PROVE  jobq'[i] = r \/ (i \in 1..Len(jobq) /\ jobq'[i] = jobq[i])
    BY <1>1, <1>4, <2>2
  <2>3. \A i \in 1..Len(jobq') : jobq'[i].type = "redistribute" => jobq'[i].ls \in args'
    BY <1>1, <1>2, <2>1, <2>2, Zenon DEF FetchInv
  <2> QED BY <1>2, <2>1, <2>3, Zenon DEF FetchInv
<1>10. ASSUME NEW k \in Livesources
       PROVE  /\ k = l => NQueued(k)' = NQueued(k) + 1 /\ NEnding(k)' = NEnding(k) + 1
              /\ k # l => NQueued(k)' = NQueued(k) /\ NEnding(k)' = NEnding(k)
  <2>1. ASSUME NEW T
        PROVE  /\ r \in T /\ j \notin T => CountIn(jobq', T) = CountIn(jobq, T) + 1
               /\ r \notin T /\ j \in T => CountIn(jobq', T) = CountIn(jobq, T) + 1
               /\ r \notin T /\ j \notin T => CountIn(jobq', T) = CountIn(jobq, T)
    <3>1. PICK q \in Seq(Jobs) : q = Append(jobq, r)
      <4>1. Append(jobq, r) \in Seq(Jobs)
        BY <1>4
      <4> QED BY <4>1, Zenon
    <3>2. CountIn(Append(q, j), T) = CountIn(q, T) + One(j \in T)
      BY <1>4 DEF Premises, QueueInLaw
    <3>3. /\ CountIn(Append(jobq, r), T) = CountIn(jobq, T) + One(r \in T)
          /\ CountIn(jobq, T) \in Nat
      BY <1>4 DEF Premises, QueueInLaw
    <3> QED BY <1>1, <3>1, <3>2, <3>3 DEF One
  <2>2. /\ (j \in Holding(k) <=> k = l) /\ r \notin Holding(k)
        /\ (r \in Ending(k) <=> k = l) /\ j \notin Ending(k)
    BY <1>1, <1>4, Zenon DEF Holding, Ending
  <2>3. /\ NQueued(k) = CountIn(jobq, Holding(k)) /\ NQueued(k)' = CountIn(jobq', Holding(k))
        /\ NEnding(k) = CountIn(jobq, Ending(k)) /\ NEnding(k)' = CountIn(jobq', Ending(k))
    BY Zenon DEF NQueued, NEnding, Holding, Ending
  <2> QED BY <2>1, <2>2, <2>3, Zenon
<1>11. SourceInv(l)'
  <2>1. /\ NEntries(l) = 0 /\ NOwn(l) = 0 /\ NSubs(l) = 0 /\ NQueued(l) = 0
        /\ NRunning(l) = 0 /\ NRemoving(l) = 0 /\ NEnding(l) = 0 /\ NEnders(l) = 0
    BY <1>3, Unborn, Zenon
  <2>2. /\ NOwn(l)' = 0 /\ NSubs(l)' = 0
        /\ NRunning(l)' = 0 /\ NRemoving(l)' = 0 /\ NEnders(l)' = 0
    BY <2>1, WorkersSame, OthersSame, Zenon
  <2>3. NQueued(l)' = NQueued(l) + 1 /\ NEnding(l)' = NEnding(l) + 1
    BY <1>10, Zenon
  <2>4. NQueued(l)' = 1 /\ NEnding(l)' = 1 /\ NArgs(l)' = 1 /\ NEntries(l)' = 1
    BY <1>2, <1>3, <2>1, <2>3 DEF NArgs, One
  <2>5. References(l)' = 3 /\ Future(l)' = 1
    BY <2>2, <2>4 DEF References, Total, Future
  <2>6. m # None
    BY NoneAssumption
  <2> QED BY <1>3, <2>5, <2>6, Zenon DEF SourceInv
<1>12. ASSUME NEW k \in Livesources, k # l PROVE SourceInv(k)'
  <2>1. NArgs(k)' = NArgs(k)
    BY <1>2, <1>12, Zenon DEF NArgs, One
  <2>2. NQueued(k)' = NQueued(k) /\ NEnding(k)' = NEnding(k)
    BY <1>10, <1>12, Zenon
  <2>3. References(k)' = References(k) /\ Future(k)' = Future(k)
    BY <1>3, <1>12, <2>1, <2>2, WorkersSame, OthersSame, Zenon DEF References, Future
  <2>4. SourceInv(k)
    BY Zenon DEF Premises, IInv
  <2> QED BY <1>3, <1>12, <2>3, <2>4, SourceSame, Zenon DEF SourceInv
<1> QED BY <1>3, <1>6, <1>7, <1>8, <1>9, <1>11, <1>12, Zenon DEF IInv

\* A client asks, sends a position, or looks for another source.
LEMMA AskStep ==
    ASSUME Premises,
           \/ \E c \in Clients, m \in Mountpoints : Subscribe(c, m) \/ Position(c, m)
           \/ \E c \in Clients : RedoJob(c)
    PROVE  IInv'
<1>1. ASSUME NEW type \in {"add", "switch"}, NEW c \in Clients, NEW m \in Mountpoints,
             NEW accepted, FindOrCreate(type, c, m, accepted),
             UNCHANGED <<own, subscribers, nsubs, subscription, pc, job, cap>>
      PROVE  IInv'
  <2>1. \/ UNCHANGED <<hash, mountpoint, args, jobq, refcnt>>
        \/ \E l \in Livesources, j \in ClientJobs :
             j.ls = l /\ mountpoint[l] # None /\ AskOld(l, j)
        \/ \E l \in Livesources, j \in ClientJobs : j.ls = l /\ AskNew(l, m, j)
    BY <1>1, Found, Zenon
  <2>2. CASE UNCHANGED <<hash, mountpoint, args, jobq, refcnt>>
    BY <1>1, <2>2, Stutter, Zenon DEF invVars
  <2>3. CASE \E l \in Livesources, j \in ClientJobs :
               j.ls = l /\ mountpoint[l] # None /\ AskOld(l, j)
    BY <1>1, <2>3, AskOldStep, Zenon
  <2>4. CASE \E l \in Livesources, j \in ClientJobs : j.ls = l /\ AskNew(l, m, j)
    BY <1>1, <2>4, AskNewStep, Zenon
  <2> QED BY <2>1, <2>2, <2>3, <2>4, Zenon
<1>2. ASSUME UNCHANGED <<tableVars, args, jobq, refcnt, own, workerVars, subVars>> PROVE IInv'
  BY <1>2, Stutter, Zenon DEF tableVars, workerVars, subVars, invVars
<1>3. ASSUME NEW c \in Clients, NEW m \in Mountpoints, RedoVirtualPos(c, m) PROVE IInv'
  BY <1>1, <1>3, Zenon DEF RedoVirtualPos, workerVars, subVars
<1>4. ASSUME NEW c \in Clients, NEW m \in Mountpoints, Subscribe(c, m) PROVE IInv'
  BY <1>1, <1>2, <1>4, Zenon DEF Subscribe, workerVars, subVars
<1>5. ASSUME NEW c \in Clients, RedoJob(c) PROVE IInv'
  BY <1>2, <1>3, <1>5, Zenon DEF RedoJob, ownerVars
<1> QED BY <1>3, <1>4, <1>5, Zenon DEF Position

-----------------------------------------------------------------------------
(* Sources that end *)

\* A source has one future: its session, or the job that starts or ends it.
LEMMA OneFuture ==
    ASSUME Premises, NEW l \in Livesources
    PROVE  /\ l \in own => NOwn(l) = 1 /\ NEnding(l) = 0 /\ NEnders(l) = 0 /\ Future(l) = 1
           /\ \A w \in Enders(l) :
                NOwn(l) = 0 /\ NEnding(l) = 0 /\ NEnders(l) = 1 /\ Future(l) = 1 /\ l \notin own
           /\ \A j \in Ending(l) : (\E i \in 1..Len(jobq) : jobq[i] = j) =>
                NOwn(l) = 0 /\ NEnding(l) = 1 /\ NEnders(l) = 0 /\ Future(l) = 1 /\ l \notin own
<1>1. /\ NOwn(l) \in Nat /\ NEnding(l) \in Nat /\ NEnders(l) \in Nat
      /\ l \in own => NOwn(l) = 1
      /\ Enders(l) # {} => NEnders(l) # 0
      /\ \A i \in 1..Len(jobq) : jobq[i] \in Ending(l) => NEnding(l) # 0
  BY CountFacts, Zenon
<1>2. NEnding(l) + NEnders(l) + NOwn(l) \in {0, 1} /\ Future(l) = NEnding(l) + NEnders(l) + NOwn(l)
  BY Zenon DEF Premises, IInv, SourceInv, Future
<1>3. l \in own => NOwn(l) = 1 /\ NEnding(l) = 0 /\ NEnders(l) = 0 /\ Future(l) = 1
  BY <1>1, <1>2
<1>4. NEnders(l) # 0 => NOwn(l) = 0 /\ NEnding(l) = 0 /\ NEnders(l) = 1 /\ Future(l) = 1
  BY <1>1, <1>2
<1>5. NEnding(l) # 0 => NOwn(l) = 0 /\ NEnding(l) = 1 /\ NEnders(l) = 0 /\ Future(l) = 1
  BY <1>1, <1>2
<1>6. NOwn(l) = 0 => l \notin own
  BY <1>1
<1> QED BY <1>1, <1>3, <1>4, <1>5, <1>6, Zenon

\* The session of a source ends.
LEMMA UnregisterStep ==
    ASSUME Premises, NEW l \in Livesources, Unregister(l)
    PROVE  IInv'
<1>1. PICK j \in SourceJobs : j.ls = l /\ j.type = "del" /\ jobq' = Append(jobq, j)
  BY JobFacts, Zenon DEF Unregister, QueueJob
<1>2. /\ l \in own /\ own' = own \ {l} /\ args' = args \ {l}
      /\ UNCHANGED <<hash, mountpoint, subscribers, nsubs, subscription, pc, job, cap>>
      /\ IF l \in args THEN refcnt' = [refcnt EXCEPT ![l] = @ - 1] ELSE refcnt' = refcnt
  <2>1. l \notin args => args = args \ {l}
    OBVIOUS
  <2> QED BY <2>1, Zenon DEF Unregister, tableVars, workerVars, subVars
<1>3. /\ jobq \in Seq(Jobs) /\ refcnt \in [Livesources -> Int]
      /\ own \subseteq Livesources /\ args \subseteq Livesources
  BY Zenon DEF Premises, IInv, Types
<1>4. j \in Jobs
  BY JobFacts, Zenon
<1>5. /\ jobq' \in Seq(Jobs) /\ refcnt' \in [Livesources -> Int]
      /\ own' \subseteq Livesources /\ args' \subseteq Livesources
      /\ l \in args => refcnt'[l] = refcnt[l] - 1
      /\ l \notin args => refcnt'[l] = refcnt[l]
      /\ \A k \in Livesources : k # l => refcnt'[k] = refcnt[k]
  BY <1>1, <1>2, <1>3, <1>4
<1>6. Types'
  BY <1>2, <1>5, Zenon DEF Premises, IInv, Types
<1>7. \A w \in Workers : AtLabel(w)'
  BY <1>2, AtLabelFacts, Zenon DEF AtLabel
<1>8. Inserting' /\ SubscribedWhereListed' /\ NsubsExact' /\ TableInv'
  BY <1>2, SubsSame, TableSame, Zenon
<1>9. NOwn(l) = 1 /\ NEnding(l) = 0 /\ NEnders(l) = 0 /\ Future(l) = 1
  BY <1>2, OneFuture, Zenon
<1>10. FetchInv'
  <2>1. FetchInv /\ (\A i \in 1..Len(jobq) : jobq[i] \in Jobs)
    BY <1>3 DEF Premises, IInv
  <2>2. ASSUME NEW i \in 1..Len(jobq'), jobq'[i].type = "redistribute"
        PROVE  i \in 1..Len(jobq) /\ jobq'[i] = jobq[i]
    BY <1>1, <1>3, <1>4, <2>2
  <2>3. \A i \in 1..Len(jobq) : jobq[i].type = "redistribute" => jobq[i].ls # l
    <3>1. \A i \in 1..Len(jobq) : jobq[i] \notin Ending(l)
      BY <1>9, CountFacts, Zenon
    <3> QED BY <2>1, <3>1, Zenon DEF Ending
  <2>4. \A w \in Workers : pc[w] = "redistribute" => job[w].ls # l
    <3>1. Enders(l) = {}
      BY <1>9, CountFacts, Zenon
    <3> QED BY <3>1, Zenon DEF Enders
  <2> QED BY <1>2, <2>1, <2>2, <2>3, <2>4, Zenon DEF FetchInv
<1>11. ASSUME NEW k \in Livesources PROVE SourceInv(k)'
  <2>1. /\ k = l => NQueued(k)' = NQueued(k) + 1 /\ NEnding(k)' = NEnding(k) + 1
        /\ k # l => NQueued(k)' = NQueued(k) /\ NEnding(k)' = NEnding(k)
    <3>1. (j \in Holding(k) <=> k = l) /\ (j \in Ending(k) <=> k = l)
      BY <1>1, <1>4, Zenon DEF Holding, Ending
    <3> QED BY <1>1, <1>4, <3>1, QueueMove, Zenon
  <2>2. /\ NEntries(k)' = NEntries(k) /\ NSubs(k)' = NSubs(k) /\ NRunning(k)' = NRunning(k)
        /\ NRemoving(k)' = NRemoving(k) /\ NEnders(k)' = NEnders(k)
    BY <1>2, WorkersSame, OthersSame, Zenon
  <2>3. CASE k # l
    <3>1. NOwn(k)' = NOwn(k) /\ NArgs(k)' = NArgs(k)
      BY <1>2, <2>3, Zenon DEF NOwn, NArgs, One
    <3>2. References(k)' = References(k) /\ Future(k)' = Future(k)
      BY <2>1, <2>2, <2>3, <3>1, Zenon DEF References, Future
    <3>3. SourceInv(k)
      BY Zenon DEF Premises, IInv
    <3> QED BY <1>2, <1>5, <2>3, <3>2, <3>3, SourceSame, Zenon DEF SourceInv
  <2>4. CASE k = l
    <3>1. NOwn(l)' = NOwn(l) - 1 /\ NQueued(l)' = NQueued(l) + 1 /\ Future(l)' = Future(l)
      <4>1. NOwn(l)' = 0
        BY <1>2, Zenon DEF NOwn, One
      <4>2. NEnding(l)' = 1 /\ NEnders(l)' = 0
        BY <1>9, <2>1, <2>2, <2>4
      <4> QED BY <1>9, <2>1, <2>4, <4>1, <4>2 DEF Future
    <3>2. /\ l \in args => NArgs(l)' = NArgs(l) - 1
          /\ l \notin args => NArgs(l)' = NArgs(l)
      BY <1>2 DEF NArgs, One
    <3>3. refcnt'[l] = References(l)'
      <4>1. CASE l \in args
        BY <1>5, <2>2, <2>4, <3>1, <3>2, <4>1, Ledger, Zenon DEF References, SumLaw
      <4>2. CASE l \notin args
        BY <1>5, <2>2, <2>4, <3>1, <3>2, <4>2, Ledger, ZenonT(30) DEF References, SumLaw
      <4> QED BY <4>1, <4>2
    <3>4. mountpoint[l] # None
      BY <1>9, Zenon DEF Premises, IInv, SourceInv
    <3> QED BY <1>2, <2>4, <3>1, <3>3, <3>4, SourceSame, Zenon
  <2> QED BY <2>3, <2>4
<1> QED BY <1>6, <1>7, <1>8, <1>10, <1>11, Zenon DEF IInv

\* Subscribers leave the list of a source.
LEMMA Unlisted ==
    ASSUME Premises, NEW l \in Livesources, NEW removed \in SUBSET subscribers[l],
           subscribers' = [subscribers EXCEPT ![l] = @ \ removed],
           nsubs' = [nsubs EXCEPT ![l] = @ - Cardinality(removed)],
           subscription' = [c \in Clients |-> IF c \in removed THEN None ELSE subscription[c]],
           \A v \in Workers : /\ pc'[v] = "insert" <=> pc[v] = "insert"
                              /\ pc[v] = "insert" => job'[v] = job[v]
    PROVE  /\ subscribers' \in [Livesources -> SUBSET Clients]
           /\ nsubs' \in [Livesources -> Int]
           /\ subscription' \in [Clients -> Livesources \cup {None}]
           /\ Inserting' /\ SubscribedWhereListed' /\ NsubsExact'
           /\ Cardinality(removed) \in Nat
           /\ NSubs(l)' = NSubs(l) - Cardinality(removed)
           /\ \A k \in Livesources : k # l => NSubs(k)' = NSubs(k)
<1>2. /\ subscribers \in [Livesources -> SUBSET Clients] /\ nsubs \in [Livesources -> Int]
      /\ subscription \in [Clients -> Livesources \cup {None}]
  BY Zenon DEF Premises, IInv, Types
<1>3. /\ Cardinality(removed) \in Nat
      /\ Cardinality(subscribers[l] \ removed) = Cardinality(subscribers[l]) - Cardinality(removed)
  <2>1. IsFiniteSet(subscribers[l])
    BY Finite, Zenon
  <2> QED BY <2>1, Zenon DEF Premises, PartLaw, SplitLaw
<1>4. /\ subscribers' \in [Livesources -> SUBSET Clients] /\ nsubs' \in [Livesources -> Int]
      /\ subscribers'[l] = subscribers[l] \ removed
      /\ nsubs'[l] = nsubs[l] - Cardinality(removed)
      /\ \A k \in Livesources : k # l => subscribers'[k] = subscribers[k] /\ nsubs'[k] = nsubs[k]
  BY <1>2, <1>3
<1>5. /\ subscription' \in [Clients -> Livesources \cup {None}]
      /\ \A c \in Clients : /\ c \in removed => subscription'[c] = None
                            /\ c \notin removed => subscription'[c] = subscription[c]
  BY <1>2, Zenon
<1>9. Inserting /\ SubscribedWhereListed /\ NsubsExact
  BY Zenon DEF Premises, IInv
<1>10. \A v \in Workers : pc[v] = "insert" => job[v].st \in Clients /\ job[v].ls \in Livesources
  BY AtLabelFacts, JobFacts, Zenon DEF AtLabel
<1>11. \A c \in Clients : c \in removed => c \in subscribers[l] /\ subscription[c] = l
  BY <1>9, Zenon DEF SubscribedWhereListed
<1>12. Inserting'
  <2>1. ASSUME NEW v \in Workers, pc'[v] = "insert"
        PROVE  /\ subscription'[job'[v].st] = job'[v].ls
               /\ job'[v].st \notin subscribers'[job'[v].ls]
    <3>1. /\ subscription[job[v].st] = job[v].ls /\ job[v].st \notin subscribers[job[v].ls]
          /\ job[v].st \in Clients /\ job[v].ls \in Livesources /\ job'[v] = job[v]
      BY <1>9, <1>10, <2>1, Zenon DEF Inserting
    <3>2. job[v].st \notin removed
      BY <1>11, <3>1, Zenon
    <3>3. subscribers'[job[v].ls] \subseteq subscribers[job[v].ls]
      BY <1>4, <3>1, Zenon
    <3> QED BY <1>5, <3>1, <3>2, <3>3, Zenon
  <2>2. ASSUME NEW u \in Workers, NEW v \in Workers,
               pc'[u] = "insert", pc'[v] = "insert", job'[u].st = job'[v].st
        PROVE  u = v
    <3>1. pc[u] = "insert" /\ pc[v] = "insert" /\ job'[u] = job[u] /\ job'[v] = job[v]
      BY <2>2, Zenon
    <3>2. job[u].st = job[v].st
      BY <2>2, <3>1, Zenon
    <3> QED BY <1>9, <3>1, <3>2, Zenon DEF Inserting
  <2> QED BY <2>1, <2>2, Zenon DEF Inserting
<1>13. SubscribedWhereListed'
  <2>1. ASSUME NEW c \in Clients, NEW k \in Livesources, c \in subscribers'[k]
        PROVE  subscription'[c] = k
    <3>1. c \in subscribers[k] /\ (k = l => c \notin removed)
      BY <1>4, <2>1, Zenon
    <3>2. subscription[c] = k
      BY <1>9, <3>1, Zenon DEF SubscribedWhereListed
    <3> QED BY <1>5, <1>11, <3>1, <3>2, Zenon
  <2>2. ASSUME NEW c \in Clients, subscription'[c] # None
        PROVE  \/ c \in subscribers'[subscription'[c]]
               \/ \E v \in Workers :
                    pc'[v] = "insert" /\ job'[v].st = c /\ job'[v].ls = subscription'[c]
    <3>1. c \notin removed /\ subscription'[c] = subscription[c]
      BY <1>5, <2>2, Zenon
    <3>2. subscription[c] \in Livesources
      BY <1>2, <2>2, <3>1, Zenon
    <3>3. CASE c \in subscribers[subscription[c]]
      BY <1>4, <3>1, <3>2, <3>3, Zenon
    <3>4. CASE \E v \in Workers :
                 pc[v] = "insert" /\ job[v].st = c /\ job[v].ls = subscription[c]
      BY <3>1, <3>4, Zenon
    <3> QED BY <1>9, <2>2, <3>1, <3>3, <3>4, Zenon DEF SubscribedWhereListed
  <2> QED BY <2>1, <2>2, Zenon DEF SubscribedWhereListed
<1>14. NsubsExact'
  <2>1. nsubs[l] = Cardinality(subscribers[l])
    BY <1>9, Zenon DEF NsubsExact
  <2>2. nsubs'[l] = Cardinality(subscribers'[l])
    BY <1>3, <1>4, <2>1, Zenon
  <2> QED BY <1>4, <1>9, <2>2, Zenon DEF NsubsExact
<1>15. NSubs(l)' = NSubs(l) - Cardinality(removed)
  BY <1>3, <1>4, Zenon DEF NSubs
<1>16. \A k \in Livesources : k # l => NSubs(k)' = NSubs(k)
  BY <1>4, Zenon DEF NSubs
<1> QED BY <1>3, <1>4, <1>5, <1>12, <1>13, <1>14, <1>15, <1>16, Zenon

\* They leave it by themselves, or at the step of a worker that deletes it.
LEMMA DropStep ==
    ASSUME Premises, NEW l \in Livesources, NEW len, NEW removed \in SUBSET subscribers[l],
           NEW ended, NEW again, Drop(l, len, removed, ended, again),
           UNCHANGED <<hash, mountpoint, own, args, jobq, job, cap>>,
           pc' \in [Workers -> Labels],
           \A v \in Workers : pc'[v] = pc[v] \/ (pc[v] = "end" /\ pc'[v] = "unref")
    PROVE  IInv'
<1>1. /\ subscribers' = [subscribers EXCEPT ![l] = @ \ removed]
      /\ nsubs' = [nsubs EXCEPT ![l] = @ - Cardinality(removed)]
      /\ refcnt' = [refcnt EXCEPT ![l] = @ - Cardinality(removed)]
      /\ subscription' = [c \in Clients |-> IF c \in removed THEN None ELSE subscription[c]]
  BY Zenon DEF Drop
<1>2. \A v \in Workers : /\ pc'[v] = "insert" <=> pc[v] = "insert"
                         /\ pc'[v] = "redistribute" => pc[v] = "redistribute"
  BY Zenon
<1>3. /\ subscribers' \in [Livesources -> SUBSET Clients]
      /\ nsubs' \in [Livesources -> Int]
      /\ subscription' \in [Clients -> Livesources \cup {None}]
      /\ Inserting' /\ SubscribedWhereListed' /\ NsubsExact'
      /\ Cardinality(removed) \in Nat
      /\ NSubs(l)' = NSubs(l) - Cardinality(removed)
      /\ \A k \in Livesources : k # l => NSubs(k)' = NSubs(k)
  BY <1>1, <1>2, Unlisted, ZenonT(30)
<1>4. /\ refcnt' \in [Livesources -> Int]
      /\ refcnt'[l] = refcnt[l] - Cardinality(removed)
      /\ \A k \in Livesources : k # l => refcnt'[k] = refcnt[k]
  <2>1. refcnt \in [Livesources -> Int]
    BY Zenon DEF Premises, IInv, Types
  <2> QED BY <1>1, <1>3, <2>1
<1>6. Types'
  BY <1>3, <1>4, Zenon DEF Premises, IInv, Types
<1>7. ASSUME NEW v \in Workers PROVE AtLabel(v)'
  <2>1. AtLabel(v) /\ \A j \in SourceJobs : j \in Jobs
    BY AtLabelFacts, JobFacts, Zenon
  <2>2. CASE pc'[v] = pc[v]
    BY <2>1, <2>2, Zenon DEF AtLabel
  <2>3. CASE pc[v] = "end" /\ pc'[v] = "unref"
    BY <2>1, <2>3, Zenon DEF AtLabel
  <2> QED BY <2>2, <2>3, Zenon
<1>15. TableInv' /\ FetchInv'
  BY <1>2, TableSame, Zenon DEF Premises, IInv, FetchInv
<1>16. ASSUME NEW k \in Livesources PROVE SourceInv(k)'
  <2>1. /\ NRunning(k)' = NRunning(k) /\ NRemoving(k)' = NRemoving(k)
        /\ NEnders(k)' = NEnders(k)
    <3>1. Running(k)' = Running(k) /\ Removing(k)' = Removing(k) /\ Enders(k)' = Enders(k)
      BY Zenon DEF Running, Removing, Enders
    <3> QED BY <3>1, Zenon DEF NRunning, NRemoving, NEnders
  <2>2. /\ NEntries(k)' = NEntries(k) /\ NOwn(k)' = NOwn(k) /\ NArgs(k)' = NArgs(k)
        /\ NQueued(k)' = NQueued(k) /\ NEnding(k)' = NEnding(k)
    BY OthersSame, Zenon
  <2>3. Future(k)' = Future(k)
    BY <2>1, <2>2, Zenon DEF Future
  <2>4. CASE k = l
    <3>2. refcnt'[l] = References(l)'
      <4>1. Total(NEntries(l), NOwn(l), NArgs(l), NSubs(l) - Cardinality(removed),
                  NQueued(l), NRunning(l), NRemoving(l)) = References(l) - Cardinality(removed)
        BY <1>3, Ledger, Zenon DEF References, SumLaw
      <4> QED BY <1>3, <1>4, <2>1, <2>2, <2>4, <4>1, Ledger, Zenon DEF References
    <3>3. mountpoint[l] = None => refcnt'[l] = 0
      <4>1. ASSUME mountpoint[l] = None PROVE refcnt'[l] = 0
        <5>1. refcnt[l] = 0 /\ NSubs(l) = 0 /\ subscribers[l] = {}
          BY <4>1, Unborn, CountFacts, Zenon DEF Premises, IInv, SourceInv
        <5>2. removed = subscribers[l]
          BY <5>1, Zenon
        <5>3. Cardinality(removed) = 0
          BY <5>1, <5>2, Zenon DEF NSubs
        <5> QED BY <1>4, <5>1, <5>3
      <4> QED BY <4>1, Zenon
    <3> QED BY <2>3, <2>4, <3>2, <3>3, SourceSame, Zenon
  <2>5. CASE k # l
    <3>1. NSubs(k)' = NSubs(k)
      BY <1>3, <2>5, Zenon
    <3>2. References(k)' = References(k)
      BY <2>1, <2>2, <3>1, Zenon DEF References
    <3>3. SourceInv(k)
      BY Zenon DEF Premises, IInv
    <3> QED BY <1>4, <2>3, <2>5, <3>2, <3>3, SourceSame, Zenon DEF SourceInv
  <2> QED BY <2>4, <2>5, Zenon
<1> QED BY <1>3, <1>6, <1>7, <1>15, <1>16, Zenon DEF IInv

\* A packet is delivered, and a source whose job is to delete it ends.
LEMMA SendStep ==
    ASSUME Premises, NEW l \in Livesources, SendSubscribers(l)
    PROVE  IInv'
<1>1. PICK len, removed : /\ removed \in SUBSET subscribers[l]
                          /\ Drop(l, len, removed, {}, {})
  <2>1. PICK out : LET len == [c \in Clients |-> IF c \in DOMAIN out THEN out[c] ELSE backlog[c]]
                   IN  Drop(l, len, {c \in subscribers[l] : len[c] > BacklogEvbuffer}, {}, {})
    BY Zenon DEF SendSubscribers
  <2>2. PICK len : Drop(l, len, {c \in subscribers[l] : len[c] > BacklogEvbuffer}, {}, {})
    BY <2>1, Zenon
  <2>3. {c \in subscribers[l] : len[c] > BacklogEvbuffer} \in SUBSET subscribers[l]
    OBVIOUS
  <2> QED BY <2>2, <2>3, Zenon
<1>2. UNCHANGED <<hash, mountpoint, own, args, jobq, pc, job, cap>>
  BY Zenon DEF SendSubscribers, tableVars, ownerVars, workerVars
<1>3. pc' \in [Workers -> Labels]
  BY <1>2, Zenon DEF Premises, IInv, Types
<1> QED BY <1>1, <1>2, <1>3, DropStep, Zenon

LEMMA EndStep ==
    ASSUME Premises, NEW w \in Workers, EndSource(w)
    PROVE  IInv'
<1>1. /\ pc[w] = "end" /\ pc' = [pc EXCEPT ![w] = "unref"]
      /\ UNCHANGED <<hash, mountpoint, own, args, jobq, job, cap>>
      /\ \E ended, again : Drop(job[w].ls, backlog, subscribers[job[w].ls], ended, again)
  BY Zenon DEF EndSource, Goto, tableVars, ownerVars
<1>2. job[w].ls \in Livesources
  BY <1>1, AtLabelFacts, JobFacts, Zenon DEF AtLabel
<1>3. pc \in [Workers -> Labels]
  BY DEF Premises, IInv, Types
<1>4. /\ pc' \in [Workers -> Labels]
      /\ \A v \in Workers : pc'[v] = pc[v] \/ (pc[v] = "end" /\ pc'[v] = "unref")
  BY <1>1, <1>3, Zenon DEF Labels
<1> QED BY <1>1, <1>2, <1>4, DropStep, Zenon

-----------------------------------------------------------------------------
(* Workers *)

\* A worker goes on to a label, with a job and what it read of a subscription.
Moves(w, label, j, c) ==
  /\ pc' = [pc EXCEPT ![w] = label]
  /\ job' = [job EXCEPT ![w] = j]
  /\ cap' = [cap EXCEPT ![w] = c]

LEMMA MovesFacts ==
    ASSUME Premises, NEW w \in Workers, NEW label \in Labels,
           NEW j \in Jobs \cup FreeJobs \cup {NoJob}, NEW c \in Livesources \cup {None},
           Moves(w, label, j, c)
    PROVE  /\ pc' \in [Workers -> Labels] /\ job' \in [Workers -> Jobs \cup FreeJobs \cup {NoJob}]
           /\ cap' \in [Workers -> Livesources \cup {None}]
           /\ pc'[w] = label /\ job'[w] = j /\ cap'[w] = c
           /\ \A v \in Workers : v # w => pc'[v] = pc[v] /\ job'[v] = job[v] /\ cap'[v] = cap[v]
<1>1. /\ pc \in [Workers -> Labels] /\ job \in [Workers -> Jobs \cup FreeJobs \cup {NoJob}]
      /\ cap \in [Workers -> Livesources \cup {None}]
  BY Zenon DEF Premises, IInv, Types
<1> QED BY <1>1, Zenon DEF Moves

\* What worker w has, in this state
LEMMA WorkerFacts ==
    ASSUME Premises, NEW w \in Workers
    PROVE  /\ pc[w] \in Labels /\ job[w] \in Jobs \cup FreeJobs \cup {NoJob}
           /\ cap[w] \in Livesources \cup {None} /\ AtLabel(w)
           /\ pc' = pc => pc' = [pc EXCEPT ![w] = pc[w]]
           /\ job' = job => job' = [job EXCEPT ![w] = job[w]]
           /\ cap' = cap => cap' = [cap EXCEPT ![w] = cap[w]]
<1>1. /\ pc \in [Workers -> Labels] /\ job \in [Workers -> Jobs \cup FreeJobs \cup {NoJob}]
      /\ cap \in [Workers -> Livesources \cup {None}]
  BY Zenon DEF Premises, IInv, Types
<1> QED BY <1>1, AtLabelFacts

\* Whatever refers to a source exists.
LEMMA Born ==
    ASSUME Premises, NEW l \in Livesources,
           \/ Running(l) # {}
           \/ Removing(l) # {}
           \/ subscribers[l] # {}
           \/ Entries(l) # {}
    PROVE  mountpoint[l] # None
<1>1. SUFFICES ASSUME mountpoint[l] = None PROVE FALSE
  OBVIOUS
<1>2. /\ NRunning(l) = 0 /\ NRemoving(l) = 0 /\ NSubs(l) = 0 /\ NEntries(l) = 0
      /\ NSubs(l) = 0 <=> subscribers[l] = {}
      /\ NEntries(l) = 0 <=> Entries(l) = {}
  BY <1>1, Unborn, CountFacts, Zenon
<1>3. \A S : IsFiniteSet(S) => (Cardinality(S) = 0 <=> S = {})
  BY Zenon DEF Premises, PartLaw
<1> QED BY <1>2, <1>3, Finite, Zenon DEF NRunning, NRemoving

\* A worker moves, and what it changes of a reference count is accounted for.
LEMMA Carry ==
    ASSUME Premises, NEW w \in Workers, NEW label \in Labels \ {"redistribute"},
           NEW j \in Jobs \cup FreeJobs \cup {NoJob}, NEW c \in Livesources \cup {None},
           Moves(w, label, j, c), AtLabel(w)',
           UNCHANGED <<hash, mountpoint, own, args, jobq>>,
           refcnt' \in [Livesources -> Int],
           subscribers' \in [Livesources -> SUBSET Clients],
           nsubs' \in [Livesources -> Int],
           subscription' \in [Clients -> Livesources \cup {None}],
           Inserting', SubscribedWhereListed', NsubsExact',
           \A k \in Livesources : /\ w \in Enders(k)' <=> w \in Enders(k)
                                  /\ refcnt'[k] = References(k)'
                                  /\ mountpoint[k] = None => refcnt'[k] = 0
    PROVE  IInv'
<1>1. /\ pc' \in [Workers -> Labels] /\ job' \in [Workers -> Jobs \cup FreeJobs \cup {NoJob}]
      /\ cap' \in [Workers -> Livesources \cup {None}] /\ pc'[w] = label
      /\ \A v \in Workers : v # w => pc'[v] = pc[v] /\ job'[v] = job[v] /\ cap'[v] = cap[v]
  BY MovesFacts, Zenon
<1>2. Types'
  BY <1>1, Zenon DEF Premises, IInv, Types
<1>3. (\A v \in Workers : AtLabel(v)') /\ TableInv'
  BY <1>1, OtherLabels, TableSame, Zenon
<1>4. FetchInv'
  BY <1>1, Zenon DEF Premises, IInv, FetchInv
<1>5. ASSUME NEW k \in Livesources PROVE SourceInv(k)'
  <2>1. NEnders(k)' = NEnders(k)
    BY <1>1, WorkerMove, Zenon
  <2>2. Future(k)' = Future(k)
    BY <2>1, OthersSame, Zenon DEF Future
  <2> QED BY <2>2, SourceSame, Zenon
<1> QED BY <1>2, <1>3, <1>4, <1>5, Zenon DEF IInv

\* The same when no subscription changes
LEMMA MoveStep ==
    ASSUME Premises, NEW w \in Workers, NEW label \in Labels \ {"insert", "redistribute"},
           NEW j \in Jobs \cup FreeJobs \cup {NoJob}, NEW c \in Livesources \cup {None},
           Moves(w, label, j, c), pc[w] # "insert", AtLabel(w)',
           UNCHANGED <<hash, mountpoint, subscribers, nsubs, subscription, own, args, jobq>>,
           refcnt' \in [Livesources -> Int],
           \A k \in Livesources : /\ w \in Enders(k)' <=> w \in Enders(k)
                                  /\ refcnt'[k] = References(k)'
                                  /\ mountpoint[k] = None => refcnt'[k] = 0
    PROVE  IInv'
<1>1. /\ pc'[w] = label
      /\ \A v \in Workers : v # w => pc'[v] = pc[v] /\ job'[v] = job[v] /\ cap'[v] = cap[v]
  BY MovesFacts, Zenon
<1>2. Inserting' /\ SubscribedWhereListed' /\ NsubsExact'
  <2>1. \A v \in Workers : (pc'[v] = "insert" <=> pc[v] = "insert")
                           /\ (pc[v] = "insert" => job'[v] = job[v])
    BY <1>1, Zenon
  <2> QED BY <2>1, SubsSame, Zenon
<1>3. /\ subscribers' \in [Livesources -> SUBSET Clients] /\ nsubs' \in [Livesources -> Int]
      /\ subscription' \in [Clients -> Livesources \cup {None}]
  BY Zenon DEF Premises, IInv, Types
<1> QED BY <1>2, <1>3, Carry, Zenon

\* A worker moves, and no reference count changes.
LEMMA QuietStep ==
    ASSUME Premises, NEW w \in Workers, NEW label \in Labels \ {"insert", "redistribute"},
           NEW j \in Jobs \cup FreeJobs \cup {NoJob}, NEW c \in Livesources \cup {None},
           Moves(w, label, j, c), pc[w] # "insert", AtLabel(w)',
           UNCHANGED <<hash, mountpoint, subscribers, nsubs, subscription, own, args, jobq,
                       refcnt>>,
           \A k \in Livesources : /\ w \in Running(k)' <=> w \in Running(k)
                                  /\ w \in Removing(k)' <=> w \in Removing(k)
                                  /\ w \in Enders(k)' <=> w \in Enders(k)
    PROVE  IInv'
<1>1. \A v \in Workers : v # w => pc'[v] = pc[v] /\ job'[v] = job[v] /\ cap'[v] = cap[v]
  BY MovesFacts, Zenon
<1>2. refcnt' \in [Livesources -> Int]
  BY Zenon DEF Premises, IInv, Types
<1>3. ASSUME NEW k \in Livesources
      PROVE  refcnt'[k] = References(k)' /\ (mountpoint[k] = None => refcnt'[k] = 0)
  <2>1. NRunning(k)' = NRunning(k) /\ NRemoving(k)' = NRemoving(k)
    BY <1>1, WorkerMove, Zenon
  <2>2. References(k)' = References(k)
    BY <2>1, OthersSame, Zenon DEF References
  <2> QED BY <2>2, Zenon DEF Premises, IInv, SourceInv
<1> QED BY <1>2, <1>3, MoveStep, Zenon

\* A worker starts to free a session.
LEMMA StartFreeStep ==
    ASSUME Premises, NEW w \in Workers, NEW c \in Clients, StartFree(w, c)
    PROVE  IInv'
<1>1. PICK j \in FreeJobs : j.ls = None /\ job' = [job EXCEPT ![w] = j]
  BY Zenon DEF StartFree, FreeJobs
<1>2. /\ pc[w] = "idle" /\ Moves(w, "free", j, cap[w])
      /\ UNCHANGED <<hash, mountpoint, subscribers, nsubs, subscription, own, args, jobq, refcnt>>
  BY <1>1, WorkerFacts, Zenon DEF StartFree, Goto, Moves, tableVars, ownerVars, subVars
<1>3. /\ "free" \in Labels \ {"insert", "redistribute"}
      /\ j \in Jobs \cup FreeJobs \cup {NoJob} /\ cap[w] \in Livesources \cup {None}
      /\ None \notin Livesources
  BY WorkerFacts, NoneAssumption, Zenon DEF Labels
<1>4. pc'[w] = "free" /\ job'[w] = j /\ cap'[w] = cap[w]
  BY <1>2, <1>3, MovesFacts, ZenonT(30)
<1>5. AtLabel(w)'
  BY <1>4, Zenon DEF AtLabel
<1>6. \A k \in Livesources : /\ w \in Running(k)' <=> w \in Running(k)
                             /\ w \in Removing(k)' <=> w \in Removing(k)
                             /\ w \in Enders(k)' <=> w \in Enders(k)
  BY <1>1, <1>2, <1>3, <1>4, Zenon DEF Running, Removing, Enders
<1> QED BY <1>2, <1>3, <1>5, <1>6, QuietStep, Zenon

\* The end of del_subscriber, for a switch and for a session that is freed
LEMMA AfterRemoveFacts ==
    ASSUME Premises, NEW w \in Workers, pc[w] \in {"switch", "free", "remove"}, AfterRemove(w)
    PROVE  \E label \in Labels \ {"insert", "redistribute"}, j \in Jobs \cup FreeJobs \cup {NoJob} :
             /\ Moves(w, label, j, None) /\ AtLabel(w)'
             /\ \A k \in Livesources : /\ w \in Running(k)' <=> w \in Running(k)
                                       /\ w \notin Removing(k)'
                                       /\ w \in Enders(k)' <=> w \in Enders(k)
<1>1. /\ "subscribe" \in Labels \ {"insert", "redistribute"}
      /\ "idle" \in Labels \ {"insert", "redistribute"}
      /\ None \in Livesources \cup {None} /\ NoJob \in Jobs \cup FreeJobs \cup {NoJob}
      /\ None \notin Livesources /\ NoJob.ls = None
  BY NoneAssumption, JobFacts, Zenon DEF Labels
<1>2. /\ job[w] \in Jobs \cup FreeJobs \cup {NoJob}
      /\ \/ job[w] \in FreeJobs /\ job[w].ls = None /\ job[w].type = "free"
         \/ job[w] \in ClientJobs /\ job[w].type = "switch"
  BY WorkerFacts, JobFacts, Zenon DEF AtLabel
<1>3. CASE job[w].type = "switch"
  <2>1. Moves(w, "subscribe", job[w], None)
    BY <1>3, WorkerFacts, Zenon DEF AfterRemove, Goto, Moves
  <2>2. pc'[w] = "subscribe" /\ job'[w] = job[w] /\ cap'[w] = None
    BY <1>1, <1>2, <2>1, MovesFacts, ZenonT(30)
  <2>3. AtLabel(w)'
    BY <1>2, <1>3, <2>2, Zenon DEF AtLabel
  <2>4. \A k \in Livesources : /\ w \in Running(k)' <=> w \in Running(k)
                               /\ w \notin Removing(k)'
                               /\ w \in Enders(k)' <=> w \in Enders(k)
    BY <2>2, Zenon DEF Running, Removing, Enders
  <2> QED BY <1>1, <1>2, <2>1, <2>3, <2>4, Zenon
<1>4. CASE job[w].type # "switch"
  <2>1. Moves(w, "idle", NoJob, None)
    BY <1>4, Zenon DEF AfterRemove, Done, Goto, Moves
  <2>2. pc'[w] = "idle" /\ job'[w] = NoJob /\ cap'[w] = None
    BY <1>1, <2>1, MovesFacts
  <2>3. AtLabel(w)'
    BY <2>2, Zenon DEF AtLabel
  <2>4. \A k \in Livesources : /\ w \in Running(k)' <=> w \in Running(k)
                               /\ w \notin Removing(k)'
                               /\ w \in Enders(k)' <=> w \in Enders(k)
    BY <1>1, <1>2, <1>4, <2>2, Zenon DEF Running, Removing, Enders
  <2> QED BY <1>1, <2>1, <2>3, <2>4, Zenon
<1> QED BY <1>3, <1>4, Zenon

\* del_subscriber reads the subscription.
LEMMA ReadStep ==
    ASSUME Premises, NEW w \in Workers, ReadSubscription(w)
    PROVE  IInv'
<1>1. /\ pc[w] \in {"switch", "free"}
      /\ UNCHANGED <<hash, mountpoint, subscribers, nsubs, subscription, own, args, jobq, refcnt>>
  BY Zenon DEF ReadSubscription, tableVars, ownerVars, subVars
<1>2. \A k \in Livesources : w \notin Removing(k)
  BY <1>1, Zenon DEF Removing
<1>3. CASE subscription[job[w].st] = None
  <2>1. AfterRemove(w)
    BY <1>3, Zenon DEF ReadSubscription
  <2>2. PICK label \in Labels \ {"insert", "redistribute"}, j \in Jobs \cup FreeJobs \cup {NoJob} :
             /\ Moves(w, label, j, None) /\ AtLabel(w)'
             /\ \A k \in Livesources : /\ w \in Running(k)' <=> w \in Running(k)
                                       /\ w \notin Removing(k)'
                                       /\ w \in Enders(k)' <=> w \in Enders(k)
    BY <1>1, <2>1, AfterRemoveFacts, Zenon
  <2>3. None \in Livesources \cup {None} /\ pc[w] # "insert"
    BY <1>1, Zenon
  <2> QED BY <1>1, <1>2, <2>2, <2>3, QuietStep, Zenon
<1>4. CASE subscription[job[w].st] # None
  <2>1. /\ job[w] \in Jobs \cup FreeJobs \cup {NoJob} /\ job[w].st \in Clients
        /\ \/ job[w] \in FreeJobs
           \/ job[w] \in ClientJobs /\ job[w].type = "switch"
    BY <1>1, WorkerFacts, JobFacts, Zenon DEF AtLabel
  <2>2. PICK l \in Livesources : l = subscription[job[w].st]
    BY <1>4, <2>1, Zenon DEF Premises, IInv, Types
  <2>3. Moves(w, "deref", job[w], l)
    BY <1>4, <2>2, WorkerFacts, Zenon DEF ReadSubscription, Goto, Moves
  <2>4. "deref" \in Labels \ {"insert", "redistribute"} /\ l \in Livesources \cup {None}
    BY Zenon DEF Labels
  <2>5. pc'[w] = "deref" /\ job'[w] = job[w] /\ cap'[w] = l
    BY <2>1, <2>3, <2>4, MovesFacts
  <2>6. AtLabel(w)'
    BY <2>1, <2>5, Zenon DEF AtLabel
  <2>7. \A k \in Livesources : /\ w \in Running(k)' <=> w \in Running(k)
                               /\ w \in Removing(k)' <=> w \in Removing(k)
                               /\ w \in Enders(k)' <=> w \in Enders(k)
    BY <1>1, <2>5, Zenon DEF Running, Removing, Enders
  <2>8. pc[w] # "insert"
    BY <1>1, Zenon
  <2> QED BY <1>1, <2>1, <2>3, <2>4, <2>6, <2>7, <2>8, QuietStep, Zenon
<1> QED BY <1>3, <1>4, Zenon

\* A subscription points to a source that exists.
LEMMA Subscribed ==
    ASSUME Premises, NEW c \in Clients, NEW l \in Livesources, subscription[c] = l
    PROVE  mountpoint[l] # None
<1>1. None \notin Livesources /\ SubscribedWhereListed
  BY NoneAssumption, Zenon DEF Premises, IInv
<1>2. \/ c \in subscribers[l]
      \/ \E v \in Workers : pc[v] = "insert" /\ job[v].ls = l
  BY <1>1, Zenon DEF SubscribedWhereListed
<1>3. subscribers[l] # {} \/ Running(l) # {}
  BY <1>2, Zenon DEF Running
<1> QED BY <1>3, Born, Zenon

\* del_subscriber takes a reference to the source.
LEMMA DerefStep ==
    ASSUME Premises, NEW w \in Workers, DerefSubscription(w)
    PROVE  IInv'
<1>1. /\ pc[w] = "deref"
      /\ UNCHANGED <<hash, mountpoint, subscribers, nsubs, subscription, own, args, jobq,
                     job, cap>>
  BY Zenon DEF DerefSubscription, tableVars, ownerVars, subVars
<1>2. CASE subscription[job[w].st] # cap[w]
  <2>1. UNCHANGED <<refcnt, pc>>
    BY <1>2, Zenon DEF DerefSubscription
  <2> QED BY <1>1, <2>1, Stutter, Zenon DEF invVars
<1>3. CASE subscription[job[w].st] = cap[w]
  <2>1. /\ job[w] \in Jobs \cup FreeJobs \cup {NoJob} /\ job[w].st \in Clients
        /\ \/ job[w] \in FreeJobs
           \/ job[w] \in ClientJobs /\ job[w].type = "switch"
        /\ cap[w] \in Livesources
    BY <1>1, WorkerFacts, JobFacts, Zenon DEF AtLabel
  <2>2. PICK l \in Livesources : l = cap[w]
    BY <2>1, Zenon
  <2>3. Moves(w, "remove", job[w], l) /\ refcnt' = [refcnt EXCEPT ![l] = @ + 1]
    BY <1>1, <1>3, <2>2, WorkerFacts, Zenon DEF DerefSubscription, Goto, Moves
  <2>4. /\ "remove" \in Labels \ {"insert", "redistribute"} /\ l \in Livesources \cup {None}
        /\ pc[w] # "insert"
    BY <1>1, Zenon DEF Labels
  <2>5. /\ pc'[w] = "remove" /\ job'[w] = job[w] /\ cap'[w] = l
        /\ \A v \in Workers : v # w => pc'[v] = pc[v] /\ job'[v] = job[v] /\ cap'[v] = cap[v]
    BY <2>1, <2>3, <2>4, MovesFacts
  <2>6. AtLabel(w)'
    BY <2>1, <2>5, Zenon DEF AtLabel
  <2>7. /\ refcnt' \in [Livesources -> Int] /\ refcnt'[l] = refcnt[l] + 1
        /\ \A k \in Livesources : k # l => refcnt'[k] = refcnt[k]
    <3>1. refcnt \in [Livesources -> Int]
      BY Zenon DEF Premises, IInv, Types
    <3> QED BY <2>3, <3>1
  <2>8. mountpoint[l] # None
    BY <1>3, <2>1, <2>2, Subscribed, Zenon
  <2>9. ASSUME NEW k \in Livesources
        PROVE  /\ w \in Enders(k)' <=> w \in Enders(k)
               /\ refcnt'[k] = References(k)'
               /\ mountpoint[k] = None => refcnt'[k] = 0
    <3>1. /\ w \in Running(k)' <=> w \in Running(k)
          /\ w \in Enders(k)' <=> w \in Enders(k)
          /\ w \notin Removing(k) /\ (w \in Removing(k)' <=> k = l)
      BY <1>1, <2>5, Zenon DEF Running, Removing, Enders
    <3>2. /\ NRunning(k)' = NRunning(k)
          /\ k = l => NRemoving(k)' = NRemoving(k) + 1
          /\ k # l => NRemoving(k)' = NRemoving(k)
      BY <2>5, <3>1, WorkerMove, Zenon
    <3>3. /\ NEntries(k)' = NEntries(k) /\ NOwn(k)' = NOwn(k) /\ NArgs(k)' = NArgs(k)
          /\ NSubs(k)' = NSubs(k) /\ NQueued(k)' = NQueued(k)
      BY <1>1, OthersSame, Zenon
    <3>4. CASE k = l
      <4>1. NRemoving(k)' = NRemoving(k) + 1 /\ refcnt'[k] = refcnt[k] + 1
        BY <2>7, <3>2, <3>4, Zenon
      <4>2. refcnt'[k] = References(k)'
        BY <3>2, <3>3, <4>1, Ledger, Zenon DEF References, SumLaw
      <4> QED BY <2>8, <3>1, <3>4, <4>2, Zenon
    <3>5. CASE k # l
      <4>1. References(k)' = References(k)
        BY <3>2, <3>3, <3>5, Zenon DEF References
      <4> QED BY <2>7, <3>1, <3>5, <4>1, Zenon DEF Premises, IInv, SourceInv
    <3> QED BY <3>4, <3>5, Zenon
  <2> QED BY <1>1, <2>1, <2>3, <2>4, <2>6, <2>7, <2>9, MoveStep, Zenon
<1> QED BY <1>2, <1>3, Zenon

\* A job is over.
LEMMA UnrefStep ==
    ASSUME Premises, NEW w \in Workers, Unref(w)
    PROVE  IInv'
<1>1. /\ pc[w] = "unref" /\ Moves(w, "idle", NoJob, None)
      /\ refcnt' = [refcnt EXCEPT ![job[w].ls] = @ - 1]
      /\ UNCHANGED <<hash, mountpoint, subscribers, nsubs, subscription, own, args, jobq>>
  BY Zenon DEF Unref, Done, Goto, Moves, tableVars, ownerVars, subVars
<1>2. PICK l \in Livesources : l = job[w].ls
  BY <1>1, WorkerFacts, JobFacts, Zenon DEF AtLabel
<1>3. /\ "idle" \in Labels \ {"insert", "redistribute"} /\ None \in Livesources \cup {None}
      /\ NoJob \in Jobs \cup FreeJobs \cup {NoJob} /\ pc[w] # "insert"
  BY <1>1, Zenon DEF Labels
<1>4. /\ pc'[w] = "idle" /\ job'[w] = NoJob /\ cap'[w] = None
      /\ \A v \in Workers : v # w => pc'[v] = pc[v] /\ job'[v] = job[v] /\ cap'[v] = cap[v]
  BY <1>1, <1>3, MovesFacts, Zenon
<1>5. AtLabel(w)'
  BY <1>4, Zenon DEF AtLabel
<1>6. /\ refcnt' \in [Livesources -> Int] /\ refcnt'[l] = refcnt[l] - 1
      /\ \A k \in Livesources : k # l => refcnt'[k] = refcnt[k]
  <2>1. refcnt \in [Livesources -> Int]
    BY DEF Premises, IInv, Types
  <2> QED BY <1>1, <1>2, <2>1
<1>7. ASSUME NEW k \in Livesources
      PROVE  /\ w \in Enders(k)' <=> w \in Enders(k)
             /\ refcnt'[k] = References(k)'
             /\ mountpoint[k] = None => refcnt'[k] = 0
  <2>1. /\ w \in Removing(k)' <=> w \in Removing(k)
        /\ w \in Enders(k)' <=> w \in Enders(k)
        /\ w \notin Running(k)' /\ (w \in Running(k) <=> k = l)
    BY <1>1, <1>2, <1>4, Zenon DEF Running, Removing, Enders
  <2>2. /\ NRemoving(k)' = NRemoving(k)
        /\ k = l => NRunning(k)' = NRunning(k) - 1
        /\ k # l => NRunning(k)' = NRunning(k)
    BY <1>4, <2>1, WorkerMove, Zenon
  <2>3. /\ NEntries(k)' = NEntries(k) /\ NOwn(k)' = NOwn(k) /\ NArgs(k)' = NArgs(k)
        /\ NSubs(k)' = NSubs(k) /\ NQueued(k)' = NQueued(k)
    BY <1>1, OthersSame, Zenon
  <2>4. CASE k = l
    <3>1. mountpoint[k] # None
      BY <2>1, <2>4, Born, Zenon
    <3>2. NRunning(k)' = NRunning(k) - 1 /\ refcnt'[k] = refcnt[k] - 1
      BY <1>6, <2>2, <2>4, Zenon
    <3>3. refcnt'[k] = References(k)'
      BY <2>2, <2>3, <3>2, Ledger, Zenon DEF References, SumLaw
    <3> QED BY <2>1, <3>1, <3>3, Zenon
  <2>5. CASE k # l
    <3>1. References(k)' = References(k)
      BY <2>2, <2>3, <2>5, Zenon DEF References
    <3> QED BY <1>6, <2>1, <2>5, <3>1, Zenon DEF Premises, IInv, SourceInv
  <2> QED BY <2>4, <2>5
<1> QED BY <1>1, <1>3, <1>5, <1>6, <1>7, MoveStep, Zenon

\* add_subscriber, under the lock of the session
LEMMA SetStep ==
    ASSUME Premises, NEW w \in Workers, SetSubscription(w)
    PROVE  IInv'
<1>1. /\ pc[w] = "subscribe"
      /\ UNCHANGED <<hash, mountpoint, subscribers, nsubs, own, args, jobq, refcnt, job, cap>>
  BY Zenon DEF SetSubscription, tableVars, ownerVars
<1>2. /\ job[w] \in Jobs \cup FreeJobs \cup {NoJob} /\ job[w] \in ClientJobs /\ job[w] \in Jobs
      /\ job[w].st \in Clients /\ job[w].ls \in Livesources
      /\ cap[w] \in Livesources \cup {None} /\ pc[w] # "insert"
  BY <1>1, WorkerFacts, JobFacts, Zenon DEF AtLabel
<1>3. CASE Goto(w, "unref") /\ UNCHANGED subscription
  <2>1. Moves(w, "unref", job[w], cap[w])
    BY <1>1, <1>3, WorkerFacts, Zenon DEF Goto, Moves
  <2>2. "unref" \in Labels \ {"insert", "redistribute"}
    BY Zenon DEF Labels
  <2>3. pc'[w] = "unref" /\ job'[w] = job[w] /\ cap'[w] = cap[w]
    BY <1>2, <2>1, <2>2, MovesFacts, Zenon
  <2>4. AtLabel(w)'
    BY <1>2, <2>3, Zenon DEF AtLabel
  <2>5. \A k \in Livesources : /\ w \in Running(k)' <=> w \in Running(k)
                               /\ w \in Removing(k)' <=> w \in Removing(k)
                               /\ w \in Enders(k)' <=> w \in Enders(k)
    BY <1>1, <2>3, Zenon DEF Running, Removing, Enders
  <2> QED BY <1>1, <1>2, <1>3, <2>1, <2>2, <2>4, <2>5, QuietStep, Zenon
<1>4. CASE UNCHANGED <<subscription, pc>>
  BY <1>1, <1>4, Stutter, Zenon DEF invVars
<1>5. ASSUME NEW c \in Clients, NEW l \in Livesources, c = job[w].st, l = job[w].ls,
             subscription[c] = None, subscription' = [subscription EXCEPT ![c] = l],
             Goto(w, "insert")
      PROVE  IInv'
  <2>1. Moves(w, "insert", job[w], cap[w])
    BY <1>1, <1>5, WorkerFacts, Zenon DEF Goto, Moves
  <2>2. "insert" \in Labels
    BY Zenon DEF Labels
  <2>3. /\ pc' \in [Workers -> Labels] /\ pc'[w] = "insert" /\ job'[w] = job[w]
        /\ cap'[w] = cap[w]
        /\ \A v \in Workers : v # w => pc'[v] = pc[v] /\ job'[v] = job[v] /\ cap'[v] = cap[v]
    BY <1>2, <2>1, <2>2, MovesFacts, Zenon
  <2>4. /\ subscription' \in [Clients -> Livesources \cup {None}] /\ subscription'[c] = l
        /\ \A d \in Clients : d # c => subscription'[d] = subscription[d]
        /\ None \notin Livesources
    <3>1. subscription \in [Clients -> Livesources \cup {None}]
      BY Zenon DEF Premises, IInv, Types
    <3> QED BY <1>5, <3>1, NoneAssumption, Zenon
  <2>5. Types'
    BY <1>1, <2>3, <2>4, Zenon DEF Premises, IInv, Types
  <2>6. \A v \in Workers : AtLabel(v)'
    <3>1. AtLabel(w)'
      BY <1>2, <2>3, Zenon DEF AtLabel
    <3> QED BY <2>3, <3>1, OtherLabels, Zenon
  <2>7. Inserting /\ SubscribedWhereListed /\ NsubsExact
    BY Zenon DEF Premises, IInv
  <2>8. /\ \A v \in Workers : pc[v] = "insert" => job[v].st # c /\ job[v].st \in Clients
        /\ \A k \in Livesources : c \notin subscribers[k]
    <3>1. \A v \in Workers : pc[v] = "insert" => job[v].ls \in Livesources /\ job[v].st \in Clients
      BY AtLabelFacts, JobFacts, Zenon DEF AtLabel
    <3>2. \A v \in Workers : pc[v] = "insert" => job[v].st # c
      <4>1. ASSUME NEW v \in Workers, pc[v] = "insert", job[v].st = c PROVE FALSE
        <5>1. subscription[job[v].st] = job[v].ls /\ job[v].ls \in Livesources
          BY <2>7, <3>1, <4>1, Zenon DEF Inserting
        <5>2. job[v].ls = None
          BY <1>5, <4>1, <5>1, Zenon
        <5> QED BY <2>4, <5>1, <5>2, Zenon
      <4> QED BY <4>1, Zenon
    <3>3. \A k \in Livesources : c \notin subscribers[k]
      <4>1. \A k \in Livesources : c \in subscribers[k] => subscription[c] = k
        BY <2>7, Zenon DEF SubscribedWhereListed
      <4> QED BY <1>5, <2>4, <4>1, Zenon
    <3> QED BY <3>1, <3>2, <3>3, Zenon
  <2>9. Inserting'
    <3>1. ASSUME NEW v \in Workers, pc'[v] = "insert"
          PROVE  /\ subscription'[job'[v].st] = job'[v].ls
                 /\ job'[v].st \notin subscribers'[job'[v].ls]
      <4>1. CASE v = w
        BY <1>1, <1>5, <2>3, <2>4, <2>8, <4>1, Zenon
      <4>2. CASE v # w
        <5>1. pc[v] = "insert" /\ job'[v] = job[v] /\ job[v].st # c /\ job[v].st \in Clients
          BY <2>3, <2>8, <3>1, <4>2, Zenon
        <5> QED BY <1>1, <2>4, <2>7, <5>1, Zenon DEF Inserting
      <4> QED BY <4>1, <4>2, Zenon
    <3>2. ASSUME NEW u \in Workers, NEW v \in Workers,
                 pc'[u] = "insert", pc'[v] = "insert", job'[u].st = job'[v].st
          PROVE  u = v
      <4>1. CASE u # w /\ v # w
        <5>1. pc[u] = "insert" /\ pc[v] = "insert" /\ job[u].st = job[v].st
          BY <1>1, <2>3, <3>2, <4>1, Zenon
        <5> QED BY <2>7, <5>1, Zenon DEF Inserting
      <4>2. CASE u = w \/ v = w
        BY <1>1, <1>5, <2>3, <2>8, <3>2, <4>2, Zenon
      <4> QED BY <4>1, <4>2, Zenon
    <3> QED BY <3>1, <3>2, Zenon DEF Inserting
  <2>10. SubscribedWhereListed'
    <3>1. ASSUME NEW d \in Clients, NEW k \in Livesources, d \in subscribers'[k]
          PROVE  subscription'[d] = k
      <4>1. d \in subscribers[k] /\ d # c
        BY <1>1, <2>8, <3>1, Zenon
      <4> QED BY <2>4, <2>7, <4>1, Zenon DEF SubscribedWhereListed
    <3>2. ASSUME NEW d \in Clients, subscription'[d] # None
          PROVE  \/ d \in subscribers'[subscription'[d]]
                 \/ \E v \in Workers :
                      pc'[v] = "insert" /\ job'[v].st = d /\ job'[v].ls = subscription'[d]
      <4>1. CASE d = c
        BY <1>5, <2>3, <2>4, <4>1, Zenon
      <4>2. CASE d # c
        <5>1. subscription'[d] = subscription[d]
          BY <2>4, <4>2, Zenon
        <5>2. \/ d \in subscribers[subscription[d]]
              \/ \E v \in Workers :
                   pc[v] = "insert" /\ job[v].st = d /\ job[v].ls = subscription[d]
          BY <2>7, <3>2, <5>1, Zenon DEF SubscribedWhereListed
        <5>3. \A v \in Workers : pc[v] = "insert" => pc'[v] = "insert" /\ job'[v] = job[v]
          BY <1>2, <2>3, Zenon
        <5> QED BY <1>1, <5>1, <5>2, <5>3, Zenon
      <4> QED BY <4>1, <4>2, Zenon
    <3> QED BY <3>1, <3>2, Zenon DEF SubscribedWhereListed
  <2>11. NsubsExact' /\ TableInv' /\ FetchInv'
    <3>1. NsubsExact' /\ TableInv'
      BY <1>1, <2>7, TableSame, Zenon DEF NsubsExact
    <3>2. \A v \in Workers : pc'[v] = "redistribute" => pc[v] = "redistribute"
      BY <2>3, Zenon
    <3> QED BY <1>1, <3>1, <3>2, Zenon DEF Premises, IInv, FetchInv
  <2>12. ASSUME NEW k \in Livesources PROVE SourceInv(k)'
    <3>1. /\ w \in Running(k)' <=> w \in Running(k)
          /\ w \in Removing(k)' <=> w \in Removing(k)
          /\ w \in Enders(k)' <=> w \in Enders(k)
      BY <1>1, <2>3, Zenon DEF Running, Removing, Enders
    <3>2. /\ NRunning(k)' = NRunning(k) /\ NRemoving(k)' = NRemoving(k)
          /\ NEnders(k)' = NEnders(k)
      BY <2>3, <3>1, WorkerMove, Zenon
    <3>3. References(k)' = References(k) /\ Future(k)' = Future(k)
      BY <1>1, <3>2, OthersSame, Zenon DEF References, Future
    <3>4. SourceInv(k)
      BY Zenon DEF Premises, IInv
    <3> QED BY <1>1, <3>3, <3>4, Zenon DEF SourceInv
  <2> QED BY <2>5, <2>6, <2>9, <2>10, <2>11, <2>12, Zenon DEF IInv
<1> QED BY <1>2, <1>3, <1>4, <1>5, Zenon DEF SetSubscription

=============================================================================
