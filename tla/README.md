# chilopod-caster in TLA+

TLA+ models of the NTRIP caster under `src/caster`. TLC checks them on small
instances. TLAPS proves, for every instance, the safety of the scheduler, of the
live sources, of the quotas by address and of the stack of sourcetables.
`PROJECT.json` gives the lines of C that each definition translates.

## The system

The caster is one process. Clients (rovers), sources (bases), administrators and
other nodes connect to it, and it connects to other casters and to services; each
connection is a session (`struct ntrip_state`).

- libevent calls back on the bufferevent of a session. Without `-t` the callback
  does the work. With `-t` it appends a **job** to the session, and worker
  threads run the jobs (`jobs.c`).
- A source that connects registers a **live source**; clients subscribe to it and
  its packets are copied to them. A source that other casters have is pulled on
  demand (`livesource.c`, `redistribute.c`).
- Outgoing connections are **tasks** with a retry timer (`ntrip_task.c`). Those
  with a queue of requests send the logs to Graylog and the table of live sources
  to other nodes (`graylog_sender.c`, `syncer.c`); those without fetch the
  sourcetables of other casters (`fetcher_sourcetable.c`).
- The sourcetables form a **stack** by priority, in which mountpoints are looked
  up (`sourcetable.c`).
- Connections are counted by address and compared with **quotas**
  (`ntrip_common.c`).
- A timer looks at the mountpoints and mails **alarms** (`alarms.c`).
- A signal or the API **reloads** the configuration, while sessions go on with
  the one they have (`caster.c`).

## Modules

| module | models | TLC instance |
| --- | --- | --- |
| `JobList` | `jobs.c`, end of life of sessions in `ntrip_common.c`, shutdown | `MCJobList` |
| `JobListInv` | the invariants that the proofs about `JobList` go through | |
| `JobListProofs`, `JobListLife`, `JobListTheorems` | proofs about `JobList` | |
| `IpQuota` | counting, moving and discounting of connections by address | `MCIpQuota` |
| `AdmissionGate` | what the quotas promise, which `IpQuota` implements | |
| `IpQuotaProofs` | proofs about `IpQuota`, with the refinement | |
| `Livesource` | live sources, subscriptions, switches of virtual clients | `MCLivesource` |
| `LivesourceProofs`, `LivesourceTheorems` | proofs about `Livesource` | |
| `Counts`, `Counting` | numbers of places in queues and of threads, and the laws by which a step changes them, stated and proved | |
| `NtripTask` | a task with a queue of requests | `MCNtripTask` |
| `TableSync` | the table of live sources sent to another node | `MCTableSync` |
| `ServerSession` | the requests on one incoming connection | `MCServerSession` |
| `SourcetableStack` | the stack of sourcetables and the lookups in it | |
| `StackProofs` | proofs about `SourcetableStack` | |
| `Reload` | reloads: configurations, listeners, fetchers and the stack | `MCReload` |
| `Alarms` | the periodic check and its mails | `MCAlarms` |

In the models with threads one action is one critical section of the code. Where
a lock is a leaf of the lock order (nothing blocks while it is held) what it
protects is one atomic step; the other locks are variables.

### JobList

State: the two pairs of queues of `struct joblist` with their counters; of each
session the queue `st_jobq`, `st_njobs` and `newjobs`, and its life (`ended`,
`refcnt`, `registered`, `freed`, the `free_queue`); the locks held across steps
(`mutex`, `bev`); the threads that wait on `condjob`; the program counter of each
thread. Workers run `joblist_run()`, event loops append, callbacks append jobs to
their own session, queue jobs that hold a reference, and end sessions.
`DropAll` and `StopThread` are `caster_free()`, up to the stop jobs: the loop in which
`jobs_stop_threads()` then polls the threads with `pthread_kill()` changes no state.

### IpQuota and AdmissionGate

State: the count of each address (`hash_table_incr`, `hash_table_decr` under
`quotalock`) and, of each session, the address it is counted at, where it is in
its life, and the count it was told when it was counted. The check compares that
count after the lock is released. A session that comes through a trusted proxy
moves to the address that the proxy names.

`AdmissionGate` has no counts and no locks: a connection arrives among those
present, and in this one step it fits or it does not. One that fits may be let in
and one that does not may be turned away, however late. The mapping takes
`present` from the connections counted at each address, and the verdict from the
count that each connection was told.

### Livesource

State: the table (`hash`), and of each source its mountpoint, state, subscriber
list, `nsubs` and `refcnt`; who feeds it; of each client its life, its
subscription, its backlog (0, within the limit, above it) and
`virtual_mountpoint`; the unlocked job queue; the workers. The two halves of
`add_subscriber` and of `del_subscriber`, under different locks, are different
actions. A step that fails an assertion or follows a freed pointer sets `broken`,
and the model says nothing of what comes after.

### NtripTask

State: the queue `mimeq` with `queue_size` and `pending`, `restart_sending`
(`sending`), the state of the connection, and for each thread its place in
`ntrip_task_queue`, which checks the room, drains, inserts and sends in separate
critical sections. Both users are there: `kind` tells the bulk requests of
Graylog, which are repeated when refused, from those of the syncer, which are not.

### TableSync

State: the table of one caster with its serial and start date (`epoch`), the
update that each thread has made and not queued yet, the queue and connection of
the task, what is on its way, and the table that the other node keeps for this
caster (`replica`). A thread counts itself in `restart_sending` when it has queued an
update, and tries to send if it is the first; else only a connection that becomes idle
sends. The serial is incremented under two different locks, so an increment can be lost
(`lost`). The other node executes an update if its serial is the one it
expects, and refuses it otherwise; a refusal makes the sender queue a full table.
Either node may restart and a connection may be lost at any point.

### ServerSession

State: the input of one connection as tokens (request line, end of headers, byte
of content, parts of chunks) which arrive one at a time; the decoder of chunks;
the state of the session and the progress of `ntripsrv_readcb` through its loop;
output not written yet; jobs that compute the answer of an administration request
(`ntripsrv_deferred_output`). What is asked is a choice: sourcetable, file, API,
form, synchronisation, client, source, bad request, with and without content, chunks and
keep-alive. Authentication is part of the choice. Content that no handler reads stays in
the input, where it is taken for a line, alone or with what follows it. A session that
reads from a chunk buffer already freed is `undefined`, and the model says nothing of
what comes after.

### SourcetableStack and Reload

A table is a record of its host, priority, mountpoints and the fetcher it came
from. `Reload` holds the counted configurations with the fetchers and listeners
each lists, and which configuration each session has. Operators map the objects of
the program to what they become, since the release of a configuration cascades:
`config_decref` frees the fetchers, whose sessions release their configuration. One
action is one callback, without threads. Each part of a reload may fail: the local
table, a filter file, a certificate, a port, the start of a fetch.

### Alarms

State: `struct alarm_state` of each mountpoint with times as ages in checks, and
the mail processes that run. A check compares the thresholds of the current
configuration; processes succeed or fail at any later time; reloads come in
between.

## Runs

| run | states | what it shows |
| --- | --- | --- |
| `joblist` | 236,534 | A session is queued at most once, its jobs run in order and are never stranded, its references are exact, it is never used once freed, a session waiting to be freed is looked at again, locks are ordered, and once the threads are stopped every worker exits and every session is freed or waits in the free queue, unless the workers fall asleep for ever with a job queued. |
| `joblist_lost_wakeup` | violation | Every worker may wait with a job queued. |
| `ip_quota` | 157,940 | Counts are exact, quotas are respected, a session is discounted before it is unlinked, and the whole implements `AdmissionGate`. |
| `livesource_safety` | 518,246 | The number of subscribers and the references of a source are exact, and a deletion finds the source it is about. |
| `livesource_live` | 541,343 | A client is listed where its subscription points, and the session of one that ended is freed. |
| `livesource_subscribe_assert` | violation | A virtual client can be subscribed twice. |
| `ntrip_task` | 543,709 | What is in flight is the head of the queue, no request is lost except by a drain or a refusal, and with a server that accepts again the queue gets empty. |
| `tablesync` | 263,547 | Without threads, once nothing is left to do or to send both nodes agree on the running sources, whatever was lost or restarted; a table that differs never has the serial of the sender, unless an increment was lost; with room for three messages the exchange ends, at worst with an update that its thread left to another one. |
| `server_session` | 377,408 | Up to the first request whose body is not read, answers come in the order of the requests and every request is answered; content is delivered as sent and streams in order; a session that waits for its output to be written, with no job queued, is closed. |
| `reload` | 121,800 | Counts are exact, a freed fetcher is quiet, there is one fetch at a time, the stack is sorted and a lookup finds what it shows, a fetcher kept by a reload keeps its table, and the program ends up following the last configuration. |
| `reload_abort` | violation | A reload during a fetch can abort the program. |
| `alarms` | 44,448 | An alarm tells the truth, a recovery is announced once, mails are spaced, and a station that stays down keeps being announced. |

Each property of a passing run has a mutant: a definition named `...Mutant` (or
`...NoStop`) before the one it mutates, which a slip in the
code could be, and with which TLC finds the property violated.

### Bounds

- `joblist`: two workers, one event loop, two sessions of which one takes jobs
  that hold references, two jobs and two references a session. Two workers and a
  loop are the three parties to every race in `jobs.c`; the proofs cover any
  number.
- `ip_quota`: three sessions over a trusted proxy without limit and two addresses
  with quotas of 1 and 0; sessions are symmetric. The proofs cover any number.
- `livesource_safety`: two sources in turn for one mountpoint on demand, a direct
  and a virtual client, two workers. `livesource_live`: two mountpoints, one on
  demand, and a virtual client that switches between them.
- `ntrip_task`: two threads that queue, three requests of length 1 or 4, a queue
  of 2 and bulk requests of 4 so that both limits are met, one fault.
- `tablesync`: without threads, two changes with one fault (a lost connection, a
  restart) and a queue of two messages, two changes with two faults and a queue of
  three, three changes without fault; with threads, two threads, two changes and no
  fault. Two mountpoints. Two changes are enough for an update to be refused because
  of another, and a queue of two overflows.
- `server_session`: two requests on a connection, of every kind, with and without
  `-t`; content of two bytes, so that it can be cut, and streams of two.
- `reload`: three configurations in turn, chosen from a chain for the proxies
  (kept with another priority, with and without filter, removed) and one for the
  ports (added, removed, with and without TLS), two proxied casters, two ports, one
  incoming session, a table sent by another node, two errors.
- `alarms`: thresholds of 0 and 1 check and intervals of 2, ages up to 2 (older
  ones are the same to every comparison), two mail processes at a time, three
  chains of configurations.

`CHECK_DEADLOCK FALSE` stands where the system may stop: all sessions have ended,
the bound on changes or requests is reached, or the program was aborted.

### Assumptions

- `TableSync`: `Timely = TRUE` (the end of a connection is noticed before the next one
  brings its table; else `Converged` fails until the next update). `Converged` is about
  the program without threads. `SerialTellsTable` excepts what follows a lost increment:
  two tables then have the same serial. `Settles` is about queues with room for three
  messages (with two, the check that `end_cb` queues can for ever find the queue full of
  full tables, and drain them before they are sent) and lets an update stay unsent that a thread left to another
  which had already looked at the connection (`skipped`).
- `ServerSession`: `Pipelining = FALSE`, the client waits for each answer; else
  answers that jobs compute come out of order. `RepliesInOrder` and `Answered` hold up to
  the first request of which a body stays in the input (`LeavesBody`): a GET of the
  administration interface with content, or chunks of anything but a source or a rover.
- `NtripTask`: `Delivered` excepts requests that a thread left to another which
  had already looked at the connection (`skipped`); they wait for the next request.
- `Livesource` stops at `broken`.
- `Reload` runs without threads, and stops when an assertion fails.

### Fairness

- `JobList`: threads run, callbacks return, and a lock that is free again and again
  is not denied for ever (strong fairness of workers and of the main thread).
  Nothing obliges libevent to call back, a callback to end a session, or a wait to
  return without a signal: `WorkersExit` has the lost wakeup as its other outcome.
- `Livesource`: workers run the jobs that are queued.
- `NtripTask`: threads finish what they began, the retry timer fires, the server
  answers. Refusals and losses are bounded.
- `TableSync`: the same, the other node executes what it receives, and both ends
  notice a closed connection; strong fairness for what needs the table lock or an
  open connection again and again.
- `ServerSession`: callbacks and jobs run; the client need not do anything.
- `Reload`: timers expire, fetches end (the read timeout ends one that hangs), and
  sessions with an old configuration receive something or time out. It is stated
  with the conditions that these steps make true, which is equivalent and quicker
  to check.
- `Alarms`: the timer fires again and again. Mail processes need not end.

## Proofs

Reference counters are compared with numbers of places: entries of queues, threads
at a label, members of lists. `Counts` defines these numbers and states as laws what
adding and removing an element does to them; `Counting` proves the laws from the
theorems on finite sets. The lemmas about steps take the laws as a hypothesis and the
last theorems discharge it, so the many lemmas about steps do without the theory of
cardinality.

**JobList**, for any finite set of workers and any loops, sessions, jobs and
references (`ThreadsAssumption`: workers, loops and `NoOne` are distinct;
`WorkersAssumption`: finitely many workers; `JobsAssumption`: the jobs of libevent are
not `JOB_NTRIP_LOCK`; `BoundsAssumption`: the bounds are naturals). The argument has
two floors.

- `IInv == TypeOK /\ PcInv /\ QueuedOnce /\ LockOrder` (`JobListProofs`), where
  `PcInv` says what each program counter knows of the session in the thread's hand.
  `QueuedOnce` needs it: that `newjobs = -1` exactly while a session is in a main
  queue, or just taken out by one worker, is only kept because a worker past its pop
  holds what no other can pop. `LockOrder` needs who owns which lock at each program
  counter.
- `FullInv == IInv /\ SessionInv` (`JobListLife`, `JobListTheorems`). `HoldInv` ties
  the lock of a session to the thread that has it in hand; without it nothing says
  that the worker that runs a batch is the one that will find a job appended
  meanwhile (`NoStrandedJob`). `LifeInv` is the ledger of a session: `refcnt` is one
  for the connection and one for each unlocked job, waiting or running; at 0 the
  session is in exactly one of the places between `ntrip_decref()` and its release
  (a free job waiting or running, the free queue, the hand of the worker that frees
  it, freed); it is registered until it enters the free queue; and a freed one is in
  no main queue and not locked. That it is in *exactly* one of them is what excludes
  a second release.

Theorems: `TypeCorrect`, `QueuedAtMostOnce`, `LocksAreOrdered`, `JobsAreNotStranded`,
`FreeQueueIsServed`, `RefcntIsExact`, `FreedIsOutOfReach`, and the action property
`JobsInOrder`. All safety properties of the run are proved.

**Livesource**, for any finite sets of mountpoints, clients and workers and any
sources (`NoneAssumption`: `None` is none of them; `FiniteAssumption`), on every
behaviour up to `broken`. The invariant `IInv` has four parts besides types.

- `SourceInv`: `refcnt` is the sum of the seven kinds of places that point to the
  source (`References`). A source has a `Future` of 0 or 1: the job that will start
  its session, the session, or the job that will delete it, of which it never has
  two; and as long as it has one the table maps its mountpoint to it. This is why
  `livesource_del()` finds its own source although the mountpoint may have been
  asked for again.
- `Inserting`: a worker between the halves of `add_subscriber()` is alone to
  subscribe its client, which is in no list yet. `SubscribedWhereListed` and
  `NsubsExact` are not inductive without it.
- `TableInv`: the table maps a mountpoint to a source of that mountpoint.
- `FetchInv`: the arguments of a fetch are kept until it starts.

Theorems: `SubscribersAreCounted`, `SubscriptionsAreListed`, `ReferencesAreCounted`,
`SourcesDeleteThemselves`.

**IpQuota**, for any finite set of sessions, any addresses and any integer quotas
(`SessionsAssumption`, `QuotaAssumption`). `QuotaRespected` is not inductive, as the
check uses a count that others have changed since. The invariant adds that the
connections counted at an address that were told a count within its quota, checked
or not, are no more than the quota (`PassingBounded`), that those open are among
them (`OpenPassed`), and that a session about to be unlinked is no longer counted
(`DiscountedOnce`). Theorems:
`CountsAreExact`, `QuotaIsRespected`, `UnlinkedIsDiscounted`, and
`ImplementsGate`, by which each critical section is a step of `AdmissionGate` or
changes nothing it sees: counting is the arrival, the count told is the verdict,
and checking it later only makes it known.

**SourcetableStack**, for stacks of any length and any priorities.
`RemovedIsSorted` and `ReplacedIsSorted`: `_stack_replace` keeps the stack by
decreasing priority with one table for each host; a table is inserted at the first
place of no more priority, so all before it have more. They stand for `StackSorted`,
whose model `Reload` declares a recursive operator and is out of the prover's reach
itself.

Only model-checked:

- liveness (`WorkersExit`, `EndedIsFreed`, `Delivered`, `Settles`, `Answered`,
  `ClosedOnceWritten`, `RealertsWhileDown`, and what `Reload` ends up doing), which
  needs fairness and `ENABLED`;
- `Reload`, whose model declares recursive operators, and in it the merged
  sourcetable, a fold over the stack: what a fold computes for every input takes an
  induction that the installed provers cannot do. The same goes for the lengths of
  bulk requests in `NtripTask`;
- `TableSync`, where `Converged` speaks of what a whole exchange of updates leaves,
  and whose invariant would have to describe every queue of messages that can occur;
- `ServerSession`, whose properties relate the tokens delivered to those sent through
  four buffers, as functions of the whole history of the input;
- `Alarms`.

## Where the code differs from what it says

Three runs have a counterexample:

- **A wakeup can be lost** (`joblist_lost_wakeup`, `jobs.c:197`). A worker that
  found the queues empty takes `condlock` and waits without looking again; an
  append and its signal can fall in between.
- **A client can be subscribed twice** (`livesource_subscribe_assert`,
  `livesource.c:231`). Two jobs that switch one virtual client are run by two
  workers without the lock that `redistribute.c` requires, and the second fails
  `assert(st->subscription == NULL)`.
- **A reload during a fetch can abort** (`reload_abort`, `ntrip_common.c:147`).
  Without threads the session of a fetch drops the old configuration while it
  still refers to it; if it was its last user and the fetcher was not kept, the
  release comes back to the same session and to `assert(p->refcnt > 0)`. The
  README of the caster says that a rotation "never interrupts a running caster".

The models also show the following, which no run is about:

- *Sessions.* After an administration request `ntripsrv_readcb` sets
  `NTRIP_WAIT_HTTP_METHOD` (lines 710 and 835) also when
  `ntripsrv_deferred_output` has already set `NTRIP_WAIT_CLOSE`, and line 874 sets
  `NTRIP_WAIT_CLOSE` after `NTRIP_FORCE_CLOSE`. Such a connection stays open until
  a timeout or the next request. Content decoded in the same read as the last
  chunk is freed with the buffer and never delivered. The content of a GET of the
  administration interface stays in the input and is taken for the next request; with
  threads it may be taken for a header, and the error's `NTRIP_WAIT_CLOSE` be overwritten
  by the answer. A chunked POST of the interface is executed without its content, and the
  next line is read from `chunk_buf` after `ntrip_clear_request` has freed it.
- *Tables of other nodes.* With threads an update can stay in the queue of an idle
  connection until the next one, and a lost increment of the serial lets two tables have
  the same serial.
- *Live sources.* A client dropped for its backlog, or inserted in the list of a
  source that was closed meanwhile, is neither ended nor told. `del_subscriber` may
  follow a subscription that `kill_subscribers` has freed.
- *Alarms.* `last_sent` is set when the mail process succeeds, so a slow process is
  started again at each check and its mails are not spaced; `SpacedUnlessOverlap`
  excepts them. The duration of the outage in a "back online" mail is 0 whenever
  `after_minutes` is positive.
- *Reload.* A removed fetcher goes on fetching while any session has the old
  configuration. The late release of a fetcher with a filter removes the table of
  the one that replaced it, until its next fetch. `max_retry_delay` is not updated.
  A plain listener that is used again with TLS keeps serving plain connections; one
  that turns from TLS to plain keeps a pointer to its freed context, which a later
  reload uses (`failed = "ctx"`). A port removed and added again while an old
  configuration holds it cannot be opened. A reload without any usable port leaves
  the caster without listeners, although it logs that it aborts.

## Not modelled

- The end of `jobs_stop_threads()` (`jobs.c:651`), which polls the threads with
  `pthread_kill()` and never joins them, and what `caster_free()` does after it. Whether
  the loop ends depends on the C library: recent versions of glibc report no error for
  a thread that has exited but was not joined.
- Where a stream is fetched from. `Reload` compares what the stack shows with what a
  lookup in it finds; a source that is live, or another node that has it, comes first
  (`livesource_find_unlocked`, `redistribute.c:126`), and neither is part of the stack.
- Reload with threads, where sessions are freed later and a timer may be set by a
  thread that looked at the task before it was stopped; the lock that libevent
  holds during a timer callback, for which `ntrip_task_stop` waits with
  `mimeq_lock` held (`ntrip_task.c:205`).
- The reload of the list of nodes (`syncer.c:199`) and of the Graylog senders. The
  latter are tasks recreated by each reload, with the same release as the fetchers.
- RTCM decoding, conversion and caching; floating-point distances; longest-prefix
  matching of addresses; the buckets of the hash table. Which quota applies to an
  address and which mountpoint is nearest are inputs of the models.
- The ring of recent log lines and that of recent alarms: bounded rings, of which
  each operation is one critical section.
- YAML, JSON and header parsing, formatting, logging, TLS itself, exhaustion of
  memory, the web interface and the scripts.
- The pages of the administration interface and the API, apart from the replies
  that jobs compute, the end of a session by an administrator, and the reload.
