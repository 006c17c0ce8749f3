------------------------------- MODULE Reload -------------------------------
(***************************************************************************)
(* Reload of the configuration: caster/caster.c, fetcher_sourcetable.c,    *)
(* sourcetable.c.                                                          *)
(*                                                                         *)
(* A configuration is counted: the caster holds the current one, and each  *)
(* session the one it last looked at.  With it go the listeners and the    *)
(* sourcetable fetchers it lists, which are counted too, as the next       *)
(* configuration may list them again.  A fetcher is a task: a timer starts *)
(* a session to the other caster, whose sourcetable is put in the stack.   *)
(*                                                                         *)
(* The program runs without threads: each callback is one step, and a      *)
(* session is freed as soon as nothing refers to it.                       *)
(***************************************************************************)
EXTENDS FiniteSets, SourcetableStack

CONSTANTS Hosts,       \* casters that may be proxied
          Addrs,       \* addresses that may be listened to
          Servers,     \* incoming sessions
          Mountpoints,
          Settings,    \* contents of the configuration file: see SettingType
          Reloads,     \* pairs of such contents, of which one may replace the other
          PeerTables,  \* sourcetables that other nodes may send
          MaxGen,      \* bound: configurations that are loaded
          MaxFaults    \* bound: errors

SettingType ==
  [proxy : SUBSET Hosts, filtered : SUBSET Hosts, priority : [Hosts -> Nat],
   bind : SUBSET Addrs, tls : SUBSET Addrs, local : Nat]

ASSUME SettingsAssumption ==
  /\ Settings \subseteq SettingType /\ Reloads \subseteq Settings \X Settings
  /\ MaxGen \in Nat \ {0} /\ MaxFaults \in Nat /\ LocalHost \notin Hosts
  /\ \A t \in PeerTables : t.host \in Hosts /\ t.by = Unfetched /\ t.mounts \subseteq Mountpoints

None == 0
Gens == 1 .. MaxGen
Fetchers == Hosts \X Gens    \* a fetcher: its host and the configuration that created it
Listeners == Addrs \X Gens

VARIABLES
  setting,  \* contents of the current configuration
  caster,   \* objects of the program that refer to each other: see NewCaster
  servers,  \* configuration of each incoming session, or None
  faults    \* errors so far

vars == <<setting, caster, servers, faults>>

NewFetcher ==
  [refcnt |-> 0, filtered |-> FALSE, priority |-> 0, state |-> "init",
   ev |-> FALSE, table |-> None, st |-> None]
NewListener == [refcnt |-> 0, tls |-> FALSE, ctx |-> "null"]
NewCaster ==
  [gen |-> None, refcnt |-> [g \in Gens |-> 0], stack |-> <<>>, failed |-> "no",
   fetchers |-> [g \in Gens |-> {}], listeners |-> [g \in Gens |-> {}],
   fetcher |-> [f \in Fetchers |-> NewFetcher],
   listener |-> [l \in Listeners |-> NewListener]]

----------------------------------------------------------------------------
(* References.  Each operator maps the objects c to what they become.      *)

RECURSIVE config_decref(_, _)

\* ntrip_task_stop and task_stop: the timer and the session are freed.
TaskStop(c, f) ==
  LET x == c.fetcher[f]
      stopped == [c EXCEPT !.fetcher[f] = [@ EXCEPT !.state = "end", !.ev = FALSE,
                                                    !.st = None, !.table = None]]
  IN IF x.state = "end" \/ x.st = None THEN stopped ELSE config_decref(stopped, x.st)

\* Mutant: the table stays in the stack.
fetcher_sourcetable_stopMutant(c, f) == TaskStop(c, f)

fetcher_sourcetable_stop(c, f) == [TaskStop(c, f) EXCEPT !.stack = Removed(@, f[1])]

fetcher_sourcetable_decref(f, c) ==
  LET less == [c EXCEPT !.fetcher[f].refcnt = @ - 1]
  IN IF less.fetcher[f].refcnt = 0 THEN fetcher_sourcetable_stop(less, f) ELSE less

listener_decref(l, c) == [c EXCEPT !.listener[l].refcnt = @ - 1]

\* dynconfig_free: what configuration g lists is released.
dynconfig_free(c, g) ==
  FoldSet(fetcher_sourcetable_decref,
          FoldSet(listener_decref,
                  [c EXCEPT !.listeners[g] = {}, !.fetchers[g] = {}],
                  c.listeners[g]),
          c.fetchers[g])

\* The last reference frees the configuration; assert(p->refcnt > 0)
config_decref(c, g) ==
  LET less == [c EXCEPT !.refcnt[g] = @ - 1]
  IN IF c.failed # "no" THEN c
     ELSE IF c.refcnt[g] = 0 THEN [c EXCEPT !.failed = "refcnt"]
     ELSE IF less.refcnt[g] = 0 THEN dynconfig_free(less, g) ELSE less

config_incref(c, g) == [c EXCEPT !.refcnt[g] = @ + 1]

----------------------------------------------------------------------------
(* Fetchers.                                                               *)

\* ntrip_task_reschedule
Reschedule(c, f) ==
  IF c.fetcher[f].state = "end" THEN c ELSE [c EXCEPT !.fetcher[f].ev = TRUE]

\* Mutant: a start that fails is not tried again.
StartMutant(c, f, made) ==
  LET x == c.fetcher[f]
      running == [c EXCEPT !.fetcher[f].state = "running"]
  IN IF c.failed # "no" THEN c
     ELSE IF x.table # None \/ x.st # None THEN [c EXCEPT !.failed = "start"]
     ELSE IF made THEN config_incref([running EXCEPT !.fetcher[f].table = x.priority,
                                                     !.fetcher[f].st = c.gen], c.gen)
     ELSE running

\* fetcher_sourcetable_start: a session with the current configuration, unless
\* it cannot be made; assert(a->sourcetable == NULL), assert(this->st == NULL).
\* The table that is read takes the priority the fetcher has now.
Start(c, f, made) ==
  LET x == c.fetcher[f]
      running == [c EXCEPT !.fetcher[f].state = "running"]
  IN IF c.failed # "no" THEN c
     ELSE IF x.table # None \/ x.st # None THEN [c EXCEPT !.failed = "start"]
     ELSE IF made THEN config_incref([running EXCEPT !.fetcher[f].table = x.priority,
                                                     !.fetcher[f].st = c.gen], c.gen)
     ELSE Reschedule(running, f)

\* Mutant: the fetch in progress is not stopped.
fetcher_sourcetable_reloadNoStop(c, f, priority, made) ==
  Start([c EXCEPT !.fetcher[f].priority = priority], f, made)

\* Mutant: the table is removed during the reload.
fetcher_sourcetable_reloadMutant(c, f, priority, made) ==
  Start([fetcher_sourcetable_stop(c, f) EXCEPT !.fetcher[f].priority = priority], f, made)

fetcher_sourcetable_reload(c, f, priority, made) ==
  Start([TaskStop(c, f) EXCEPT !.fetcher[f].priority = priority], f, made)

\* The end of session f: sourcetable_end_cb, then the session is freed.
EndSession(c, f) ==
  LET ended == Reschedule([c EXCEPT !.fetcher[f].table = None, !.fetcher[f].st = None], f)
  IN config_decref(ended, c.fetcher[f].st)

\* ntrip_refresh_config, of a session with configuration g.  The session still
\* refers to g when it drops it.
Refreshed(c, g) == IF g = c.gen THEN c ELSE config_decref(config_incref(c, c.gen), g)

\* _ntrip_task_restart_cb
Timer(f, made) ==
  /\ caster.failed = "no" /\ caster.fetcher[f].ev
  /\ made \/ faults < MaxFaults
  /\ caster' = Start([caster EXCEPT !.fetcher[f].ev = FALSE], f, made)
  /\ faults' = IF made THEN faults ELSE faults + 1
  /\ UNCHANGED <<setting, servers>>

\* ntripcli_readcb, which refreshes the configuration and then handles what was
\* received: Handled maps the objects to what they become.
Read(f, Handled(_)) ==
  LET c == Refreshed(caster, caster.fetcher[f].st)
  IN /\ caster.failed = "no" /\ caster.fetcher[f].st # None
     /\ caster' = IF c.failed # "no" THEN c
                  ELSE Handled([c EXCEPT !.fetcher[f].st = c.gen])
     /\ UNCHANGED <<setting, servers>>

\* Part of the sourcetable
ReadLine(f) == Read(f, LAMBDA c : c) /\ UNCHANGED faults

\* ENDSOURCETABLE: the table replaces the one in the stack.
ReadEnd(f, mounts) ==
  /\ Read(f, LAMBDA c : EndSession([c EXCEPT !.stack =
               Replaced(@, Table(f[1], c.fetcher[f].table, f, mounts))], f))
  /\ UNCHANGED faults

\* An error status, or a line that cannot be added
ReadError(f) ==
  /\ faults < MaxFaults /\ faults' = faults + 1
  /\ Read(f, LAMBDA c : EndSession(c, f))

\* ntripcli_eventcb: end of file, error or timeout
Close(f) ==
  /\ faults < MaxFaults /\ faults' = faults + 1
  /\ caster.failed = "no" /\ caster.fetcher[f].st # None
  /\ caster' = EndSession(caster, f)
  /\ UNCHANGED <<setting, servers>>

\* sourcetable_update_execute: a table of another node, taken if there is none
\* of the host, or an older one.
PeerTable(t, newer) ==
  LET i == SelectInSeq(caster.stack, LAMBDA s : s.host = t.host)
  IN /\ caster.failed = "no"
     /\ i = 0 \/ newer
     /\ caster' = [caster EXCEPT !.stack = Replaced(@, t)]
     /\ UNCHANGED <<setting, servers, faults>>

----------------------------------------------------------------------------
(* Incoming sessions, of which only the configuration matters here.        *)

\* ntripsrv_listener_cb
Open(s) ==
  /\ caster.failed = "no" /\ servers[s] = None
  /\ \E l \in Listeners :
       /\ caster.listener[l].refcnt > 0
       /\ caster.listener[l].tls => caster.listener[l].ctx = "ok"
  /\ caster' = config_incref(caster, caster.gen)
  /\ servers' = [servers EXCEPT ![s] = caster.gen]
  /\ UNCHANGED <<setting, faults>>

\* ntripsrv_readcb
Refresh(s) ==
  /\ caster.failed = "no" /\ servers[s] \notin {None, caster.gen}
  /\ caster' = Refreshed(caster, servers[s])
  /\ servers' = [servers EXCEPT ![s] = caster.gen]
  /\ UNCHANGED <<setting, faults>>

\* _ntrip_free
End(s) ==
  /\ caster.failed = "no" /\ servers[s] # None
  /\ caster' = config_decref(caster, servers[s])
  /\ servers' = [servers EXCEPT ![s] = None]
  /\ UNCHANGED <<setting, faults>>

----------------------------------------------------------------------------
(* Reload: configuration g, of contents s, replaces the one before it.     *)
(* What fails is in e: the local table, a filter or a certificate that     *)
(* cannot be read, an address that cannot be opened or a session that      *)
(* cannot be made.                                                         *)

NoErrors == [local |-> FALSE, filters |-> {}, certs |-> {}, addrs |-> {}, sessions |-> {}]
ErrorsOf(s) ==
  {NoErrors, [NoErrors EXCEPT !.local = TRUE]}
  \cup {[NoErrors EXCEPT !.filters = {h}] : h \in s.filtered}
  \cup {[NoErrors EXCEPT !.certs = {a}] : a \in s.tls}
  \cup {[NoErrors EXCEPT !.addrs = {a}] : a \in s.bind}
  \cup {[NoErrors EXCEPT !.sessions = {h}] : h \in s.proxy}

Old(lists, g) == IF g = 1 THEN {} ELSE lists[g - 1]

\* caster_reload_sourcetables
caster_reload_sourcetables(c, s, e) ==
  IF e.local THEN c
  ELSE [c EXCEPT !.stack = Replaced(@, Table(LocalHost, s.local, Unfetched, Mountpoints))]

\* Mutant: a fetcher that is listed again is not counted.
caster_reload_fetchersMutant(c, g, s, e) ==
  LET recycled == {f \in Old(c.fetchers, g) :
                     f[1] \in s.proxy \ s.filtered /\ ~c.fetcher[f].filtered}
      new == {<<h, g>> : h \in s.proxy \ ({f[1] : f \in recycled} \cup e.filters)}
  IN [c EXCEPT !.fetchers[g] = recycled \cup new,
               !.fetcher = [f \in Fetchers |->
                 IF f \in new
                   THEN [NewFetcher EXCEPT !.refcnt = 1, !.filtered = f[1] \in s.filtered,
                                           !.priority = s.priority[f[1]]]
                   ELSE @[f]]]

\* A fetcher of the old configuration is listed again, if neither has a filter.
caster_reload_fetchers(c, g, s, e) ==
  LET recycled == {f \in Old(c.fetchers, g) :
                     f[1] \in s.proxy \ s.filtered /\ ~c.fetcher[f].filtered}
      new == {<<h, g>> : h \in s.proxy \ ({f[1] : f \in recycled} \cup e.filters)}
  IN [c EXCEPT !.fetchers[g] = recycled \cup new,
               !.fetcher = [f \in Fetchers |->
                 IF f \in recycled THEN [@[f] EXCEPT !.refcnt = @ + 1]
                 ELSE IF f \in new
                   THEN [NewFetcher EXCEPT !.refcnt = 1, !.filtered = f[1] \in s.filtered,
                                           !.priority = s.priority[f[1]]]
                   ELSE @[f]]]

\* listener_setup_tls, of a listener l that is used again
SetupTls(c, l, loaded) ==
  IF c.listener[l].ctx = "freed" THEN [c EXCEPT !.failed = "ctx"]
  ELSE [c EXCEPT !.listener[l].ctx = IF loaded THEN "ok" ELSE "null"]

\* A listener that turns to plain connections: its TLS context is freed, and the
\* pointer to it stays.
DropTls(c, l) ==
  IF c.listener[l].tls
    THEN [c EXCEPT !.listener[l].tls = FALSE,
                   !.listener[l].ctx = IF @ = "null" THEN "null" ELSE "freed"]
    ELSE c

\* Address a of caster_reload_listeners: the listener of the old configuration is
\* used again, else one is made, if no other configuration has the address open.
Listen(c, g, s, e, a) ==
  LET old == {l \in Old(c.listeners, g) : l[1] = a}
      tls == a \in s.tls
      l == IF old = {} THEN <<a, g>> ELSE CHOOSE x \in old : TRUE
      set == IF old = {} THEN c
             ELSE IF tls THEN SetupTls(c, l, a \notin e.certs) ELSE DropTls(c, l)
      listed == [set EXCEPT !.listeners[g] = @ \cup {l}, !.listener[l].refcnt = @ + 1]
      free == \A x \in Listeners : x[1] = a => c.listener[x].refcnt = 0
  IN IF a \in e.certs THEN set
     ELSE IF old # {} THEN listed
     ELSE IF free /\ a \notin e.addrs
       THEN [listed EXCEPT !.listener[l].tls = tls,
                           !.listener[l].ctx = IF tls THEN "ok" ELSE "null"]
     ELSE c

caster_reload_listeners(c, g, s, e) == FoldSet(LAMBDA a, d : Listen(d, g, s, e, a), c, s.bind)

caster_start_fetchers(c, g, s, e) ==
  FoldSet(LAMBDA f, d :
            IF d.fetcher[f].state = "init" THEN Start(d, f, f[1] \notin e.sessions)
            ELSE fetcher_sourcetable_reload(d, f, s.priority[f[1]], f[1] \notin e.sessions),
          c, c.fetchers[g])

\* caster_load and caster_start, in the order of the code
caster_load(c, s, e) ==
  LET g == c.gen + 1
      tables == caster_reload_sourcetables(c, s, e)
      current == [caster_reload_fetchers(tables, g, s, e) EXCEPT !.gen = g, !.refcnt[g] = 1]
      listening == caster_reload_listeners(current, g, s, e)
      loaded == IF g = 1 \/ listening.failed # "no" THEN listening
                ELSE config_decref(listening, g - 1)
  IN IF loaded.failed # "no" THEN loaded ELSE caster_start_fetchers(loaded, g, s, e)

\* signalhup_cb, or a reload asked for with the API.  A file that cannot be
\* parsed changes nothing.
Reload(s, e) ==
  /\ caster.failed = "no" /\ caster.gen < MaxGen
  /\ <<setting, s>> \in Reloads
  /\ e = NoErrors \/ faults < MaxFaults
  /\ caster' = caster_load(caster, s, e)
  /\ setting' = s
  /\ faults' = IF e = NoErrors THEN faults ELSE faults + 1
  /\ UNCHANGED servers

----------------------------------------------------------------------------
\* The program starts only if the whole configuration could be loaded.
Init ==
  /\ setting \in {r[1] : r \in Reloads}
  /\ caster = caster_load(NewCaster, setting, NoErrors)
  /\ servers = [s \in Servers |-> None]
  /\ faults = 0

Next ==
  \/ \E s \in Settings : \E e \in ErrorsOf(s) : Reload(s, e)
  \/ \E f \in Fetchers :
       \/ \E made \in BOOLEAN : Timer(f, made)
       \/ \E mounts \in SUBSET Mountpoints : ReadEnd(f, mounts)
       \/ ReadLine(f) \/ ReadError(f) \/ Close(f)
  \/ \E t \in PeerTables, newer \in BOOLEAN : PeerTable(t, newer)
  \/ \E s \in Servers : Open(s) \/ Refresh(s) \/ End(s)

\* Timers expire; a fetch ends, as errors are bounded and the read timeout ends
\* one that hangs; a session with an old configuration receives something or is
\* closed by its timeout.  These are the weak fairness of Timer, of ReadEnd and of
\* Refresh or End: each of these steps makes its condition true.
Fairness ==
  /\ \A f \in Fetchers : /\ []<>(~caster.fetcher[f].ev \/ caster.failed # "no")
                          /\ []<>(caster.fetcher[f].st = None \/ caster.failed # "no")
  /\ \A s \in Servers : []<>(servers[s] \in {None, caster.gen} \/ caster.failed # "no")

Spec == Init /\ [][Next]_vars /\ Fairness

----------------------------------------------------------------------------
Count(S) == Cardinality(S)
ok == caster.failed = "no"
Configs == {g \in Gens : caster.refcnt[g] > 0}
InStack(h) == {t \in Range(caster.stack) : t.host = h}

\* Each configuration is counted once for the caster, for each incoming session
\* and for each fetch that holds it; each fetcher and each listener once for each
\* configuration in use that lists it: whatever the order of reloads, timers, the
\* ends of fetches and of sessions, nothing is freed while in use, nor leaks.
CountsExact ==
  ok =>
  /\ \A g \in Gens :
       caster.refcnt[g] = (IF g = caster.gen THEN 1 ELSE 0)
                          + Count({s \in Servers : servers[s] = g})
                          + Count({f \in Fetchers : caster.fetcher[f].st = g})
  /\ \A f \in Fetchers :
       caster.fetcher[f].refcnt = Count({g \in Configs : f \in caster.fetchers[g]})
  /\ \A l \in Listeners :
       caster.listener[l].refcnt = Count({g \in Configs : l \in caster.listeners[g]})

\* fetcher_sourcetable_free: a fetcher that is freed has no timer and no session
\* that would call it back, and its sourcetable is no longer served.
FreedIsQuiet ==
  ok => \A f \in Fetchers : caster.fetcher[f].refcnt = 0 =>
          /\ ~caster.fetcher[f].ev /\ caster.fetcher[f].st = None
          /\ \A t \in Range(caster.stack) : t.by # f

\* The asserts of fetcher_sourcetable_start_with_config and ntrip_task_start: a
\* timer or a reload never starts a fetch while another is in progress.
OneFetch == caster.failed # "start"

\* _stack_replace: the stack is sorted by decreasing priority and has one table
\* for a host, and one local table, whether tables come from the file, from
\* fetchers, old and new, or from other nodes.
StackSorted == Sorted(caster.stack)

\* stack_flatten and _stack_find_mountpoint: a client that asks for a mountpoint
\* gets the entry of the table that the sourcetable it was shown takes it from,
\* and none that it was not shown, whichever local sources are live.  Where its
\* stream then comes from is not decided by the stack alone: a live source of
\* that name is taken first, then another node that has one.
ShownIsFound ==
  \A live \in SUBSET Mountpoints :
    LET shown == Flatten(caster.stack, live)
    IN \A m \in Mountpoints :
         LET i == FoundIn(caster.stack, m, live)
         IN /\ m \in DOMAIN shown <=> i # 0
            /\ i # 0 => shown[m] = i

\* fetcher_sourcetable_reload: ``Same as a stop/start, except we keep the
\* sourcetable during the reload.''
KeptDuringReload ==
  [][caster'.gen > caster.gen /\ caster'.failed = "no" =>
       \A f \in caster.fetchers[caster.gen] \cap caster'.fetchers[caster'.gen] :
         InStack(f[1]) \subseteq InStack(f[1])']_vars

\* Once the configuration no longer changes, the program follows it: each caster
\* that is proxied has a table, with the priority it is given unless it comes from
\* another node; the tables of those no longer proxied and the ports no longer
\* listened to are gone.
Follows ==
  <>[](ok =>
    /\ \A f \in caster.fetchers[caster.gen] :
         \E t \in InStack(f[1]) : t.by = Unfetched \/ t.priority = setting.priority[f[1]]
    /\ \A t \in Range(caster.stack) :
         t.by # Unfetched => t.by \in caster.fetchers[caster.gen]
    /\ \A l \in Listeners :
         caster.listener[l].refcnt > 0 => l \in caster.listeners[caster.gen])

\* ``sends `caster` a `SIGHUP` after rotating ... so a rotation never interrupts
\* a running caster'': config_decref, whose assert aborts the
\* program, is never called for a configuration that is already freed.
NeverInterrupts == caster.failed # "refcnt"
=============================================================================
