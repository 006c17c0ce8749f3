----------------------------- MODULE Livesource -----------------------------
(***************************************************************************)
(* The table of live sources of one caster and the subscriptions to them   *)
(* (caster/livesource.c, caster/redistribute.c and their callers).         *)
(*                                                                         *)
(* A source is registered by a session which sends the stream (DIRECT) or  *)
(* created on demand and pulled from another caster (FETCHED).  Clients    *)
(* find it by mountpoint under the table lock; the subscription itself is  *)
(* a job of the unlocked queue, which any worker thread may pop, so that a *)
(* source may be closed, or its client may end, at any point in between.   *)
(* add_subscriber takes the session lock, releases it, and only then takes *)
(* the lock of the source: each critical section is an action of its own.  *)
(*                                                                         *)
(* The reference count of the sessions and the two levels of job queues    *)
(* are the subject of JobList: here a session is freed once it has ended   *)
(* and no job refers to it any more.                                       *)
(***************************************************************************)
EXTENDS Naturals, FiniteSets, Sequences

CONSTANTS Livesources,    \* the objects that can be allocated
          Mountpoints,
          OnDemand,       \* mountpoints that can be pulled from a caster
          Clients,
          VirtualClients, \* clients of a virtual (nearest base) mountpoint:
                          \* those whose subscribers have sub->virtual set
          Workers,        \* threads which run joblist_run
          None,
          MaxJobs         \* bound: jobs waiting when a client or source asks for one more

ASSUME OnDemandAssumption == OnDemand \subseteq Mountpoints
ASSUME VirtualAssumption == VirtualClients \subseteq Clients
ASSUME NoneAssumption == None \notin Livesources \cup Mountpoints \cup Clients
ASSUME FiniteAssumption ==
  IsFiniteSet(Mountpoints) /\ IsFiniteSet(Clients) /\ IsFiniteSet(Workers)

VARIABLES
  hash,         \* caster->livesources->hash
  mountpoint,   \* this->mountpoint, None before livesource_new
  state,        \* this->state
  subscribers,  \* this->subscribers
  nsubs,        \* this->nsubs
  refcnt,       \* this->refcnt
  own,          \* the sources which a session holds in st->own_livesource
  args,         \* the sources held by the redistribute_cb_args of a fetch
  cstate,       \* progress of the session of a client
  subscription, \* st->subscription, as the source it points to
  backlog,      \* sub->backlog_len, against the limit BacklogEvbuffer
  virtual_mountpoint, \* st->virtual_mountpoint
  redo,         \* sessions with a queued ntripsrv_redo_virtual_pos
  jobq,         \* queue of the jobs that need no session lock
  pc, job, cap, \* per worker: next step, job being run, sub read by del_subscriber
  broken        \* an assertion or a list operation has failed

tableVars == <<hash, mountpoint, state>>
ownerVars == <<own, args>>
clientVars == <<cstate, backlog, virtual_mountpoint>>
workerVars == <<pc, job, cap>>
subVars == <<subscribers, nsubs, subscription>>
vars == <<tableVars, ownerVars, clientVars, workerVars, subVars,
          refcnt, redo, jobq, broken>>

\* backlog_len is told apart as 0 (nothing waiting), 1 (something waiting,
\* within the limit) and 2 (above caster->backlog_evbuffer).
BacklogEvbuffer == 1

NoJob == [type |-> "free", st |-> None, ls |-> None]

Allocated == {l \in Livesources : mountpoint[l] # None}
Freed == {l \in Allocated : refcnt[l] = 0}
Ended == {c \in Clients : cstate[c] \in {"end", "freeing", "gone"}}

Init ==
  /\ hash = [m \in Mountpoints |-> None]
  /\ mountpoint = [l \in Livesources |-> None]
  /\ state = [l \in Livesources |-> "FETCH_PENDING"]
  /\ subscribers = [l \in Livesources |-> {}]
  /\ nsubs = [l \in Livesources |-> 0]
  /\ refcnt = [l \in Livesources |-> 0]
  /\ own = {}
  /\ args = {}
  /\ cstate = [c \in Clients |-> "request"]
  /\ subscription = [c \in Clients |-> None]
  /\ backlog = [c \in Clients |-> 0]
  /\ virtual_mountpoint = [c \in Clients |-> None]
  /\ redo = {}
  /\ jobq = <<>>
  /\ pc = [w \in Workers |-> "idle"]
  /\ job = [w \in Workers |-> NoJob]
  /\ cap = [w \in Workers |-> None]
  /\ broken = "no"

----------------------------------------------------------------------------
(* The operations of a source.                                             *)

\* enum livesource_state
States == {"FETCH_PENDING", "RUNNING"}

\* livesource_new and hash_table_add: the new source is in the table.  It is
\* created with n references.
livesource_new(l, m, s, n) ==
  /\ mountpoint[l] = None
  /\ mountpoint' = [mountpoint EXCEPT ![l] = m]
  /\ state' = [state EXCEPT ![l] = s]
  /\ refcnt' = [refcnt EXCEPT ![l] = n]
  /\ hash' = [hash EXCEPT ![m] = l]

\* joblist_append_ntrip_livesource: the job holds a reference to its source
\* (and to its session).
QueueJob(type, c, l) == Append(jobq, [type |-> type, st |-> c, ls |-> l])

\* livesource_find_unlocked with on_demand = 1, and the job `type' which its
\* caller queues for session c when it finds a source it accepts.  The source
\* is in the table, or it is created pending with its redistribute job.
FindOrCreate(type, c, m, accepted) ==
  \/ /\ hash[m] # None
     /\ IF state[hash[m]] \in accepted
          THEN /\ jobq' = QueueJob(type, c, hash[m])
               /\ refcnt' = [refcnt EXCEPT ![hash[m]] = @ + 1]
          ELSE UNCHANGED <<jobq, refcnt>>
     /\ UNCHANGED <<hash, mountpoint, state, args>>
  \/ /\ hash[m] = None
     /\ m \in OnDemand
     /\ \E l \in Livesources :
          \* references: the table, the arguments of the fetch, the job
          /\ livesource_new(l, m, "FETCH_PENDING", 3)
          /\ args' = args \cup {l}
          /\ jobq' = Append(Append(jobq,
                              [type |-> "redistribute", st |-> None, ls |-> l]),
                            [type |-> type, st |-> c, ls |-> l])
  \/ /\ hash[m] = None
     /\ m \notin OnDemand
     /\ UNCHANGED <<hash, mountpoint, state, args, jobq, refcnt>>

----------------------------------------------------------------------------
(* Sessions: sources, fetches and clients.                                 *)

\* A source connects and is accepted: livesource_connected returns 1.  (It
\* returns 0 and changes nothing when the mountpoint is in the table.)
Connected(l, m) ==
  /\ hash[m] = None
  /\ livesource_new(l, m, "RUNNING", 2)
  /\ own' = own \cup {l}
  /\ UNCHANGED <<args, clientVars, workerVars, subVars, redo, jobq, broken>>

\* Mutant: own_livesource is neither released nor cleared.
UnregisterMutant(l) ==
  /\ l \in own
  /\ Len(jobq) < MaxJobs
  /\ own' = own
  /\ IF l \in args
       THEN /\ args' = args \ {l}
            /\ UNCHANGED refcnt
       ELSE /\ refcnt' = [refcnt EXCEPT ![l] = @ + 1]
            /\ UNCHANGED args
  /\ jobq' = QueueJob("del", None, l)
  /\ UNCHANGED <<tableVars, clientVars, workerVars, subVars, redo, broken>>

\* The session of a source ends (ntrip_unregister_livesource): its reference
\* passes to the job that deletes the source.  A fetch also runs
\* redistribute_end_cb, which drops the arguments.
Unregister(l) ==
  /\ l \in own
  /\ Len(jobq) < MaxJobs
  /\ own' = own \ {l}
  /\ IF l \in args
       THEN /\ args' = args \ {l}
            /\ refcnt' = [refcnt EXCEPT ![l] = @ - 1]
       ELSE UNCHANGED <<args, refcnt>>
  /\ jobq' = QueueJob("del", None, l)
  /\ UNCHANGED <<tableVars, clientVars, workerVars, subVars, redo, broken>>

\* The pulled stream starts: livesource_set_state(RUNNING).
FetchRunning(l) ==
  /\ l \in own
  /\ state[l] = "FETCH_PENDING"
  /\ state' = [state EXCEPT ![l] = "RUNNING"]
  /\ UNCHANGED <<hash, mountpoint, ownerVars, clientVars, workerVars, subVars,
                 refcnt, redo, jobq, broken>>

\* A client asks for a mountpoint (livesource_find_and_subscribe).  The
\* client of a virtual mountpoint is accepted and waits for its position.
Subscribe(c, m) ==
  /\ cstate[c] = "request"
  /\ Len(jobq) < MaxJobs
  /\ IF c \in VirtualClients
       THEN /\ cstate' = [cstate EXCEPT ![c] = "client"]
            /\ UNCHANGED <<tableVars, args, jobq, refcnt>>
       ELSE /\ FindOrCreate("add", c, m, States)
            /\ cstate' = [cstate EXCEPT ![c] =
                            IF jobq' # jobq THEN "client" ELSE "request"]
  /\ UNCHANGED <<own, backlog, virtual_mountpoint, workerVars, subVars,
                 redo, broken>>

\* livesource_exists on the current source of a virtual client
CurrentIsLive(c) ==
  /\ virtual_mountpoint[c] # None
  /\ hash[virtual_mountpoint[c]] # None
  /\ state[hash[virtual_mountpoint[c]]] = "RUNNING"

\* ntripsrv_redo_virtual_pos when m is the nearest mountpoint: a switch job is
\* queued unless m is the current, live, source.
RedoVirtualPos(c, m) ==
  /\ ~CurrentIsLive(c) \/ m # virtual_mountpoint[c]
  /\ FindOrCreate("switch", c, m, IF m \in OnDemand THEN States ELSE {"RUNNING"})
  /\ UNCHANGED <<own, clientVars, workerVars, subVars, broken>>

\* A virtual client sends a position (ntripsrv_redo_virtual_pos_limited).
Position(c, m) ==
  /\ c \in VirtualClients
  /\ cstate[c] = "client"
  /\ Len(jobq) < MaxJobs
  /\ RedoVirtualPos(c, m)
  /\ UNCHANGED redo

\* Mutant: the job stays in the queue of its session.
RedoJobMutant(c) ==
  /\ c \in redo
  /\ Len(jobq) < MaxJobs
  /\ redo' = redo
  /\ \/ \E m \in Mountpoints : RedoVirtualPos(c, m)
     \/ UNCHANGED <<tableVars, ownerVars, clientVars, workerVars, subVars,
                    refcnt, jobq, broken>>

\* The job queued by kill_subscribers runs, whatever the state of the
\* session; it may find that there is nothing to switch to, or that the
\* current source is the nearest.
RedoJob(c) ==
  /\ c \in redo
  /\ Len(jobq) < MaxJobs
  /\ redo' = redo \ {c}
  /\ \/ \E m \in Mountpoints : RedoVirtualPos(c, m)
     \/ UNCHANGED <<tableVars, ownerVars, clientVars, workerVars, subVars,
                    refcnt, jobq, broken>>

\* The session of a client ends (ntrip_decref_end).
ClientEnd(c) ==
  /\ cstate[c] \in {"request", "client"}
  /\ cstate' = [cstate EXCEPT ![c] = "end"]
  /\ UNCHANGED <<tableVars, ownerVars, backlog, virtual_mountpoint,
                 workerVars, subVars, refcnt, redo, jobq, broken>>

----------------------------------------------------------------------------
(* Delivery of a packet, and the subscribers a source gets rid of.         *)

\* Mutant: the session keeps its pointer to the subscriber which is freed.
DropMutant(l, len, removed, ended, again) ==
  /\ subscribers' = [subscribers EXCEPT ![l] = @ \ removed]
  /\ nsubs' = [nsubs EXCEPT ![l] = @ - Cardinality(removed)]
  /\ refcnt' = [refcnt EXCEPT ![l] = @ - Cardinality(removed)]
  /\ subscription' = subscription
  /\ backlog' = [c \in Clients |-> IF c \in removed THEN 0 ELSE len[c]]
  /\ cstate' = [c \in Clients |->
                  IF c \in ended \ Ended THEN "end" ELSE cstate[c]]
  /\ redo' = redo \cup (again \ Ended)

\* What livesource_kill_subscribers_unlocked does, once the sets of clients
\* are known: they leave the list of l, some are ended and some are to look
\* for another source.  len holds the backlog of those which stay; that of
\* the others is freed with their subscriber.
Drop(l, len, removed, ended, again) ==
  /\ subscribers' = [subscribers EXCEPT ![l] = @ \ removed]
  /\ nsubs' = [nsubs EXCEPT ![l] = @ - Cardinality(removed)]
  /\ refcnt' = [refcnt EXCEPT ![l] = @ - Cardinality(removed)]
  /\ subscription' = [c \in Clients |->
                        IF c \in removed THEN None ELSE subscription[c]]
  /\ backlog' = [c \in Clients |-> IF c \in removed THEN 0 ELSE len[c]]
  /\ cstate' = [c \in Clients |->
                  IF c \in ended \ Ended THEN "end" ELSE cstate[c]]
  /\ redo' = redo \cup (again \ Ended)

\* livesource_send_subscribers, from the session of the source: the output
\* buffers of the subscribers which have not ended are measured, the packet
\* is queued, and those above the limit are unsubscribed.
SendSubscribers(l) ==
  /\ l \in own
  /\ state[l] = "RUNNING"
  /\ subscribers[l] \ Ended # {}
  /\ \E out \in [subscribers[l] \ Ended -> 0..2] :
       LET len == [c \in Clients |-> IF c \in DOMAIN out THEN out[c] ELSE backlog[c]]
       IN Drop(l, len, {c \in subscribers[l] : len[c] > BacklogEvbuffer}, {}, {})
  /\ UNCHANGED <<tableVars, ownerVars, virtual_mountpoint, workerVars,
                 jobq, broken>>

----------------------------------------------------------------------------
(* Worker threads.                                                         *)

Goto(w, label) == pc' = [pc EXCEPT ![w] = label]

\* The worker goes back to its loop.
Done(w) ==
  /\ Goto(w, "idle")
  /\ job' = [job EXCEPT ![w] = NoJob]
  /\ cap' = [cap EXCEPT ![w] = None]

FirstLabel(type) ==
  CASE type = "add" -> "subscribe"
    [] type = "switch" -> "switch"
    [] type = "del" -> "delete"
    [] type = "redistribute" -> "redistribute"

\* A worker pops the first job of the unlocked queue.
Pop(w) ==
  /\ pc[w] = "idle"
  /\ jobq # <<>>
  /\ job' = [job EXCEPT ![w] = Head(jobq)]
  /\ jobq' = Tail(jobq)
  /\ Goto(w, FirstLabel(Head(jobq).type))
  /\ UNCHANGED <<tableVars, ownerVars, clientVars, subVars, cap, refcnt, redo, broken>>

\* Jobs that refer to session c, waiting or running
RefersTo(c) ==
  \/ \E i \in DOMAIN jobq : jobq[i].st = c
  \/ \E w \in Workers : pc[w] # "idle" /\ job[w].st = c

\* The last reference to an ended session is gone: ntrip_deferred_free drains
\* its jobs and a worker runs ntrip_deferred_run up to the unsubscription.
StartFree(w, c) ==
  /\ pc[w] = "idle"
  /\ cstate[c] = "end"
  /\ ~RefersTo(c)
  /\ cstate' = [cstate EXCEPT ![c] = "freeing"]
  /\ redo' = redo \ {c}
  /\ job' = [job EXCEPT ![w] = [type |-> "free", st |-> c, ls |-> None]]
  /\ Goto(w, "free")
  /\ UNCHANGED <<tableVars, ownerVars, backlog, virtual_mountpoint, cap,
                 subVars, refcnt, jobq, broken>>

\* After del_subscriber: redistribute_switch_source goes on to subscribe,
\* ntrip_deferred_run frees the session.
AfterRemove(w) ==
  IF job[w].type = "switch"
    THEN /\ Goto(w, "subscribe")
         /\ cap' = [cap EXCEPT ![w] = None]
         /\ UNCHANGED <<cstate, job>>
    ELSE /\ Done(w)
         /\ cstate' = [cstate EXCEPT ![job[w].st] = "gone"]

\* livesource_del_subscriber reads st->subscription, holding no lock.
ReadSubscription(w) ==
  /\ pc[w] \in {"switch", "free"}
  /\ IF subscription[job[w].st] = None
       THEN AfterRemove(w)
       ELSE /\ cap' = [cap EXCEPT ![w] = subscription[job[w].st]]
            /\ Goto(w, "deref")
            /\ UNCHANGED <<cstate, job>>
  /\ UNCHANGED <<tableVars, ownerVars, backlog, virtual_mountpoint, subVars,
                  refcnt, redo, jobq, broken>>

\* It follows sub->livesource and takes a reference.  The subscriber may have
\* been freed meanwhile by kill_subscribers or by another switch: nothing is
\* defined from there on.
DerefSubscription(w) ==
  /\ pc[w] = "deref"
  /\ IF subscription[job[w].st] = cap[w]
       THEN /\ refcnt' = [refcnt EXCEPT ![cap[w]] = @ + 1]
            /\ Goto(w, "remove")
            /\ UNCHANGED broken
       ELSE broken' = "freed subscriber" /\ UNCHANGED <<refcnt, pc>>
  /\ UNCHANGED <<tableVars, ownerVars, clientVars, job, cap, subVars, redo, jobq>>

\* Mutant: the count of subscribers is not maintained.
RemoveMutant(c, l) ==
  /\ subscribers' = [subscribers EXCEPT ![l] = @ \ {c}]
  /\ subscription' = [subscription EXCEPT ![c] = None]
  /\ backlog' = [backlog EXCEPT ![c] = 0]
  /\ nsubs' = nsubs

\* _livesource_del_subscriber_unlocked, but for the reference
Remove(c, l) ==
  /\ subscribers' = [subscribers EXCEPT ![l] = @ \ {c}]
  /\ subscription' = [subscription EXCEPT ![c] = None]
  /\ backlog' = [backlog EXCEPT ![c] = 0]
  /\ nsubs' = [nsubs EXCEPT ![l] = @ - 1]

\* It takes the lock of the source, that of the session, removes whatever
\* subscription the session now has, and drops its reference.  Removing a
\* subscriber which is not in the list yet, or that of a source which is not
\* the one that is locked, has no defined result.
RemoveSubscription(w) ==
  /\ pc[w] = "remove"
  /\ LET c == job[w].st
         l == subscription[c]
     IN \/ /\ l = None
           /\ refcnt' = [refcnt EXCEPT ![cap[w]] = @ - 1]
           /\ AfterRemove(w)
           /\ UNCHANGED <<subVars, backlog, broken>>
        \/ /\ l = cap[w]
           /\ c \in subscribers[l]
           /\ Remove(c, l)
           /\ refcnt' = [refcnt EXCEPT ![l] = @ - 2]
           /\ AfterRemove(w)
           /\ UNCHANGED broken
        \/ /\ l # None
           /\ l # cap[w] \/ c \notin subscribers[l]
           /\ broken' = "list"
           /\ UNCHANGED <<subVars, backlog, refcnt, workerVars, cstate>>
  /\ UNCHANGED <<tableVars, ownerVars, virtual_mountpoint, redo, jobq>>

\* livesource_add_subscriber, first half, under the lock of the session: the
\* subscription is cancelled if the session has ended.
SetSubscription(w) ==
  /\ pc[w] = "subscribe"
  /\ LET c == job[w].st
     IN \/ /\ c \in Ended
           /\ Goto(w, "unref")
           /\ UNCHANGED <<subscription, backlog, broken>>
        \/ /\ c \notin Ended
           /\ subscription[c] = None
           /\ subscription' = [subscription EXCEPT ![c] = job[w].ls]
           /\ backlog' = [backlog EXCEPT ![c] = 0]
           /\ Goto(w, "insert")
           /\ UNCHANGED broken
        \/ /\ c \notin Ended
           /\ subscription[c] # None
           /\ broken' = "assert"  \* assert(st->subscription == NULL)
           /\ UNCHANGED <<subscription, backlog, pc>>
  /\ UNCHANGED <<tableVars, ownerVars, cstate, virtual_mountpoint, job, cap,
                 subscribers, nsubs, refcnt, redo, jobq>>

\* Mutant: the subscription is not counted as a reference to the source.
InsertSubscriberMutant(w) ==
  /\ pc[w] = "insert"
  /\ LET l == job[w].ls
         c == job[w].st
     IN /\ subscribers' = [subscribers EXCEPT ![l] = @ \cup {c}]
        /\ nsubs' = [nsubs EXCEPT ![l] = @ + 1]
        /\ UNCHANGED refcnt
        /\ virtual_mountpoint' = [virtual_mountpoint EXCEPT ![c] =
                 IF job[w].type = "switch" THEN mountpoint[l] ELSE @]
  /\ Goto(w, "unref")
  /\ UNCHANGED <<tableVars, ownerVars, cstate, backlog, job, cap,
                 subscription, redo, jobq, broken>>

\* livesource_add_subscriber, second half, under the lock of the source, and
\* the end of redistribute_switch_source.
InsertSubscriber(w) ==
  /\ pc[w] = "insert"
  /\ LET l == job[w].ls
         c == job[w].st
     IN /\ subscribers' = [subscribers EXCEPT ![l] = @ \cup {c}]
        /\ nsubs' = [nsubs EXCEPT ![l] = @ + 1]
        /\ refcnt' = [refcnt EXCEPT ![l] = @ + 1]
        /\ virtual_mountpoint' = [virtual_mountpoint EXCEPT ![c] =
                 IF job[w].type = "switch" THEN mountpoint[l] ELSE @]
  /\ Goto(w, "unref")
  /\ UNCHANGED <<tableVars, ownerVars, cstate, backlog, job, cap,
                 subscription, redo, jobq, broken>>

\* livesource_del, first half, under the table lock
DeleteFromTable(w) ==
  /\ pc[w] = "delete"
  /\ LET l == job[w].ls
     IN /\ hash' = [hash EXCEPT ![mountpoint[l]] = None]
        /\ refcnt' = [refcnt EXCEPT ![hash[mountpoint[l]]] = @ - 1]
  /\ Goto(w, "end")
  /\ UNCHANGED <<mountpoint, state, ownerVars, clientVars, job, cap, subVars,
                 redo, jobq, broken>>

\* livesource_end, under the lock of the source: all subscribers leave, the
\* virtual ones look for another source, the others are ended, except those
\* with a backlog at the last send.
EndSource(w) ==
  /\ pc[w] = "end"
  /\ LET l == job[w].ls
         S == subscribers[l]
     IN Drop(l, backlog, S, {c \in S \ VirtualClients : backlog[c] = 0}, S \cap VirtualClients)
  /\ Goto(w, "unref")
  /\ UNCHANGED <<tableVars, ownerVars, virtual_mountpoint, job, cap, jobq, broken>>

\* The job is over: joblist_run drops its reference to the source.
Unref(w) ==
  /\ pc[w] = "unref"
  /\ refcnt' = [refcnt EXCEPT ![job[w].ls] = @ - 1]
  /\ Done(w)
  /\ UNCHANGED <<tableVars, ownerVars, clientVars, subVars, redo, jobq, broken>>

\* redistribute_source_stream: the session which pulls the stream is created
\* with a reference; or no sourcetable lists the mountpoint any more and the
\* arguments are freed; or the task cannot be started and nothing is done.
FetchStart(w) ==
  /\ pc[w] = "redistribute"
  /\ LET l == job[w].ls
     IN \/ /\ own' = own \cup {l}
           /\ refcnt' = [refcnt EXCEPT ![l] = @ + 1]
           /\ UNCHANGED args
        \/ /\ args' = args \ {l}
           /\ refcnt' = [refcnt EXCEPT ![l] = @ - 1]
           /\ UNCHANGED own
        \/ UNCHANGED <<own, args, refcnt>>
  /\ Done(w)
  /\ UNCHANGED <<tableVars, clientVars, subVars, redo, jobq, broken>>

WorkerStep(w) ==
  \/ Pop(w)
  \/ \E c \in Clients : StartFree(w, c)
  \/ ReadSubscription(w)
  \/ DerefSubscription(w)
  \/ RemoveSubscription(w)
  \/ SetSubscription(w)
  \/ InsertSubscriber(w)
  \/ DeleteFromTable(w)
  \/ EndSource(w)
  \/ Unref(w)
  \/ FetchStart(w)

SessionStep ==
  \/ \E l \in Livesources, m \in Mountpoints : Connected(l, m)
  \/ \E l \in Livesources : Unregister(l)
  \/ \E l \in Livesources : FetchRunning(l)
  \/ \E l \in Livesources : SendSubscribers(l)
  \/ \E c \in Clients, m \in Mountpoints : Subscribe(c, m)
  \/ \E c \in Clients, m \in Mountpoints : Position(c, m)
  \/ \E c \in Clients : RedoJob(c)
  \/ \E c \in Clients : ClientEnd(c)

\* A failed assertion stops the program; after an undefined operation the
\* model says nothing more.
Next ==
  /\ broken = "no"
  /\ (SessionStep \/ \E w \in Workers : WorkerStep(w))

\* The operating system schedules every thread, and a thread that can pop a
\* job does.
Fairness ==
  /\ \A w \in Workers : WF_vars(broken = "no" /\ WorkerStep(w))
  /\ \A c \in Clients : WF_vars(broken = "no" /\ RedoJob(c))

Spec == Init /\ [][Next]_vars
FairSpec == Spec /\ Fairness

----------------------------------------------------------------------------
(* Properties.                                                             *)

\* The number livesource_send_subscribers and livesource_end assert against
\* is the length of the list, whatever the order of subscriptions, switches,
\* backlog drops and source closures.
NsubsExact == \A l \in Livesources : nsubs[l] = Cardinality(subscribers[l])

\* The jobs, waiting or being run, that hold a reference to source l
JobRefs(l) ==
  Cardinality({i \in DOMAIN jobq : jobq[i].ls = l /\ jobq[i].type # "redistribute"})
    + Cardinality({w \in Workers : /\ pc[w] \notin {"idle", "redistribute"}
                                   /\ job[w].ls = l})

\* The reference count of a source is the number of places that point to it:
\* the table, the session that feeds it, the arguments of its fetch, its
\* subscribers, the jobs about it and the unsubscriptions under way.  So it is
\* freed exactly when none is left.
RefcntExact ==
  \A l \in Livesources :
    refcnt[l] = Cardinality({m \in Mountpoints : hash[m] = l})
                + Cardinality({l} \cap own) + Cardinality({l} \cap args)
                + Cardinality(subscribers[l]) + JobRefs(l)
                + Cardinality({w \in Workers : pc[w] = "remove" /\ cap[w] = l})

\* A session is in the list of the source its subscription points to, and of
\* no other; and a session with a subscription is in that list, unless the
\* worker which subscribes it is between the two halves of add_subscriber.
SubscribedWhereListed ==
  \A c \in Clients :
    /\ \A l \in Livesources : c \in subscribers[l] => subscription[c] = l
    /\ subscription[c] # None =>
         \/ c \in subscribers[subscription[c]]
         \/ \E w \in Workers : /\ pc[w] = "insert"
                               /\ job[w].st = c
                               /\ job[w].ls = subscription[c]

\* When livesource_del runs, the table still maps the mountpoint to this very
\* source (assert(e == 0)), although another source may have asked for the
\* same mountpoint since its session ended.
DeletesItself ==
  \A w \in Workers : pc[w] = "delete" => hash[mountpoint[job[w].ls]] = job[w].ls

\* The session of an ended client is eventually freed, out of every list: no
\* cycle of switch jobs keeps it.
EndedIsFreed ==
  \A c \in Clients : c \in Ended ~> (cstate[c] = "gone" \/ broken # "no")

----------------------------------------------------------------------------
(* What comments and assertions say, and the code does not ensure.         *)

\* livesource.c: assert(st->subscription == NULL) in add_subscriber, which
\* redistribute.c relies on by requiring the lock of the session.
SubscribesOnce == broken # "assert"
=============================================================================
