----------------------------- MODULE TableSync ------------------------------
(***************************************************************************)
(* Synchronisation of the table of live sources from a caster to another   *)
(* node: caster/livesource.c (updates, full tables, their execution),      *)
(* caster/syncer.c (what is queued and when) and the parts of              *)
(* caster/ntrip_task.c and caster/ntripsrv.c they run on.                  *)
(*                                                                         *)
(* Each change of the table produces a message with the serial number the  *)
(* table had before it.  The message is made under a lock and queued after *)
(* the lock is released, so messages of two threads may be queued in the   *)
(* other order.  `serial' is an ordinary integer: additions and deletions  *)
(* increment it under the lock of the table, a change of state only under  *)
(* the lock of the source, so two increments may race and one be lost.     *)
(* The other node accepts a message only if its serial is the one it       *)
(* expects; on any failure the sender queues a full table.                 *)
(***************************************************************************)
EXTENDS Naturals, Sequences, FiniteSets

CONSTANTS Mountpoints,
          Threads,     \* threads of the sender that change its table
          Conns,       \* connections the other node can have at a time
          None,
          Timely,      \* what a lost connection left on the other node is
                       \* over when the sender reconnects (retry_delay)
          Settings     \* how the caster may be run:
                       \*   threaded: with option -t
                       \*   threads: those that change its table
                       \*   queue_max_size, in messages
                       \* and the bounds on the changes of the table, and on
                       \* the connections lost and the restarts

ASSUME SettingsAssumption ==
  Settings \subseteq [threaded : BOOLEAN, threads : SUBSET Threads,
                      queue_max_size : Nat \ {0}, changes : Nat, faults : Nat]
ASSUME FlagAssumption == Timely \in BOOLEAN

VARIABLES
  setting,     \* one of Settings, for the whole run
  table,       \* state of the source of each mountpoint
  serial,      \* livesources->serial
  epoch,       \* livesources->start_date
  changes,     \* number of changes made, for the bound
  tlock,       \* thread that holds livesources->lock, for a change
  pc, made,    \* per thread: next step, and the message it has made
  lost,        \* an increment of the serial was lost
  mimeq,       \* task->mimeq
  pending,     \* task->pending
  sending,     \* task->restart_sending, for the threads
  skipped,     \* a thread did not try to send, because another one did
  link,        \* state of the task and of its connection
  base, out,   \* serial read, and message made, by a callback of the task
  conn,        \* the connection of the task, or None
  faults,      \* number of faults, for the bound
  open,        \* connections that the other node has not seen end
  net,         \* request received and not yet executed, by connection
  reply,       \* answer on the current connection, with its request
  owner,       \* connections with a syncer_id on the other node
  replica      \* the table of this caster on the other node

localVars == <<table, serial, epoch, changes, tlock, pc, made, lost>>
sendVars == <<sending, skipped>>
taskVars == <<mimeq, pending, sendVars, link, base, out, conn>>
remoteVars == <<open, net, reply, owner, replica>>
vars == <<setting, localVars, taskVars, faults, remoteVars>>

States == {"none", "FETCH_PENDING", "RUNNING"}
NoTable == [m \in Mountpoints |-> "none"]

Init ==
  /\ setting \in Settings
  /\ table = NoTable
  /\ serial = 0
  /\ epoch = 0
  /\ changes = 0
  /\ tlock = None
  /\ pc = [t \in Threads |-> "idle"]
  /\ made = [t \in Threads |-> None]
  /\ lost = FALSE
  /\ mimeq = <<>>
  /\ pending = 0
  /\ sending = 0
  /\ skipped = FALSE
  /\ link = "down"
  /\ base = 0
  /\ out = None
  /\ conn = None
  /\ faults = 0
  /\ open = {}
  /\ net = [k \in Conns |-> None]
  /\ reply = None
  /\ owner = {}
  /\ replica = None

----------------------------------------------------------------------------
(* Messages.                                                               *)

\* livesource_update_json: the type of the update, the state the source now
\* has and the serial of the table.
Update(type, m, s) ==
  [type |-> type, epoch |-> epoch, serial |-> serial, mountpoint |-> m, state |-> s]

\* livesource_full_update_json: the serial was read before the list.
FullTable ==
  [type |-> "fulltable", epoch |-> epoch, serial |-> base, livesources |-> table]

\* livesource_checkserial_json
CheckSerial == [type |-> "checkserial", epoch |-> epoch, serial |-> serial]

\* ntrip_task_queue: when the queue is full, what has not been sent is dropped.
Queued(msg) ==
  IF Len(mimeq) >= setting.queue_max_size THEN Append(SubSeq(mimeq, 1, pending), msg)
                            ELSE Append(mimeq, msg)

----------------------------------------------------------------------------
(* Changes of the table of the sender.                                     *)

\* Without threads, each callback runs to its end.
MayBegin ==
  \/ setting.threaded
  \/ /\ \A t \in Threads : pc[t] = "idle"
     /\ link \notin {"start", "refused", "closing"}

Goto(t, label) == pc' = [pc EXCEPT ![t] = label]

\* The change is made and its message built.  An on-demand source is added
\* without a message: livesource_find_unlocked tests `*jp', which is NULL.
Change(t, m, s, msg) ==
  /\ MayBegin
  /\ pc[t] = "idle"
  /\ changes < setting.changes
  /\ changes' = changes + 1
  /\ table' = [table EXCEPT ![m] = s]
  /\ made' = [made EXCEPT ![t] = msg]
  /\ Goto(t, "bump")
  /\ UNCHANGED <<serial, epoch, lost, taskVars, faults, remoteVars>>

\* livesource_connected
AddDirect(t, m) ==
  /\ tlock = None /\ tlock' = t
  /\ table[m] = "none"
  /\ Change(t, m, "RUNNING", Update("add", m, "RUNNING"))

\* livesource_find_unlocked, on demand
AddOnDemand(t, m) ==
  /\ tlock = None /\ tlock' = t
  /\ table[m] = "none"
  /\ Change(t, m, "FETCH_PENDING", [type |-> "silent", serial |-> serial])

\* livesource_del, a job queued by the session of the source, which has
\* finished any livesource_set_state it had begun.
Delete(t, m) ==
  /\ tlock = None /\ tlock' = t
  /\ \A u \in Threads : pc[u] # "idle" /\ made[u].type = "update" => made[u].mountpoint # m
  /\ table[m] # "none"
  /\ Change(t, m, "none", Update("del", m, "none"))

\* livesource_set_state: the table is not locked.
SetState(t, m) ==
  /\ table[m] = "FETCH_PENDING"
  /\ Change(t, m, "RUNNING", Update("update", m, "RUNNING"))
  /\ UNCHANGED tlock

\* The change is over.
Return(t) ==
  /\ made' = [made EXCEPT ![t] = None]
  /\ Goto(t, "idle")

\* serial++, for additions and deletions under the lock of the table, for a
\* change of state under that of the source only: the value it reads may be the
\* one seen when the message was made, although another thread has written
\* since, whose increment is then lost.
Bump(t) ==
  /\ pc[t] = "bump"
  /\ \E n \in {made[t].serial, serial} : serial' = n + 1 /\ lost' = (lost \/ n # serial)
  /\ tlock' = IF tlock = t THEN None ELSE tlock
  /\ Goto(t, "queue")
  /\ UNCHANGED <<table, epoch, changes, made, taskVars, faults, remoteVars>>

\* syncer_queue_json, with no lock held: the message is inserted in the queue.
\* The thread that then counts itself first in restart_sending will try to send;
\* another one leaves it to that one.
QueueUpdate(t) ==
  /\ pc[t] = "queue"
  /\ IF made[t].type = "silent"
       THEN Return(t) /\ UNCHANGED <<mimeq, sendVars>>
       ELSE /\ mimeq' = Queued(made[t])
            /\ sending' = sending + 1
            /\ skipped' = (skipped \/ sending # 0)
            /\ Goto(t, IF sending = 0 THEN "send" ELSE "uncount")
            /\ UNCHANGED made
  /\ UNCHANGED <<table, serial, epoch, changes, tlock, lost, pending, link, base, out, conn,
                 faults, remoteVars>>

\* ntrip_task_send_next_request, on an idle connection: the head of the queue
\* is sent; with none, the connection stays idle.
SendNext ==
  /\ pending' = IF mimeq = <<>> THEN 0 ELSE 1
  /\ link' = IF mimeq = <<>> THEN "idle" ELSE "wait"
  /\ net' = IF mimeq # <<>> /\ conn \in open THEN [net EXCEPT ![conn] = Head(mimeq)]
                                             ELSE net
  /\ skipped' = FALSE

\* Mutant: sending is left to the end of an answer.
TrySendMutant(t) ==
  /\ pc[t] = "send"
  /\ link # "refused"
  /\ Goto(t, "uncount")
  /\ UNCHANGED <<table, serial, epoch, changes, tlock, made, lost, mimeq, sending,
                 pending, link, net, skipped, base, out, conn, faults, open, reply, owner,
                 replica>>

\* The session, if there is one, is locked, and the head of the queue sent if
\* it is idle.  status_cb holds the lock until the session is closed.
TrySend(t) ==
  /\ pc[t] = "send"
  /\ link # "refused"
  /\ IF link = "idle" THEN SendNext ELSE UNCHANGED <<pending, link, net, skipped>>
  /\ Goto(t, "uncount")
  /\ UNCHANGED <<table, serial, epoch, changes, tlock, made, lost, mimeq, sending,
                 base, out, conn, faults, open, reply, owner, replica>>

\* ntrip_task_queue returns.
Uncount(t) ==
  /\ pc[t] = "uncount"
  /\ sending' = sending - 1
  /\ Return(t)
  /\ UNCHANGED <<table, serial, epoch, changes, tlock, lost, mimeq, pending, skipped,
                 link, base, out, conn, faults, remoteVars>>

\* One more fault
Fault == faults < setting.faults /\ faults' = faults + 1

\* The sender is restarted: all it had in memory is lost.
Restart ==
  /\ Fault
  /\ epoch' = epoch + 1
  /\ table' = NoTable
  /\ serial' = 0
  /\ tlock' = None
  /\ pc' = [t \in Threads |-> "idle"]
  /\ made' = [t \in Threads |-> None]
  /\ lost' = FALSE
  /\ mimeq' = <<>>
  /\ pending' = 0
  /\ sending' = 0
  /\ skipped' = FALSE
  /\ link' = "down"
  /\ base' = 0
  /\ out' = None
  /\ conn' = None
  /\ reply' = None
  /\ UNCHANGED <<changes, open, net, owner, replica>>

----------------------------------------------------------------------------
(* The task and its connection.  Its callbacks queue messages only when    *)
(* the connection is not yet made, or is about to be closed: they send     *)
(* nothing, and a thread that leaves the sending to them has inserted its  *)
(* message before the next connection sends the queue.                     *)

\* The connections that can be made: nothing is left of the former ones.
Free == {k \in Conns \ open : net[k] = None}

\* syncer_start, called by the timer: a full table is queued, beginning with
\* the serial.
Start ==
  /\ MayBegin
  /\ link = "down"
  /\ Free # {}
  /\ Timely => Free = Conns
  /\ base' = serial
  /\ link' = "start"
  /\ UNCHANGED <<localVars, mimeq, pending, sendVars, out, conn, faults, remoteVars>>

\* livesource_list_local_json: the list is made, under the lock of the table.
MakeFull ==
  /\ link \in {"start", "refused"}
  /\ out = None
  /\ tlock = None
  /\ out' = FullTable
  /\ UNCHANGED <<localVars, mimeq, pending, sendVars, link, base, conn, faults, remoteVars>>

\* syncer_start ends: the full table is queued and the connection started.
Connect ==
  /\ link = "start"
  /\ out # None
  /\ \E k \in Free :
       /\ conn' = k
       /\ open' = open \cup {k}
       /\ owner' = owner \ {k}
  /\ mimeq' = Queued(out)
  /\ out' = None
  /\ link' = "connecting"
  /\ UNCHANGED <<localVars, pending, sendVars, base, faults, net, reply, replica>>

\* The connection is idle, and the next request sent: when it is made
\* (connect_cb), and at the end of an answer.
BecomesIdle ==
  /\ MayBegin
  /\ link \in {"connecting", "header"}
  /\ SendNext
  /\ UNCHANGED <<localVars, mimeq, sending, base, out, conn, faults, open, reply, owner, replica>>

\* ntrip_task_ack_pending
Ack ==
  /\ MayBegin
  /\ link = "wait"
  /\ reply # None
  /\ mimeq' = Tail(mimeq)
  /\ pending' = 0
  /\ reply' = None

\* Mutant: a request that failed is not followed by a full table.
StatusMutant ==
  /\ Ack
  /\ link' = "header"
  /\ UNCHANGED <<localVars, sendVars, base, out, conn, faults, open, net, owner, replica>>

\* status_cb: the request is acknowledged anyway; if it failed, a full table
\* is queued, beginning with its serial.
Status ==
  /\ Ack
  /\ IF reply.status = 200
       THEN link' = "header" /\ base' = base
       ELSE link' = "refused" /\ base' = serial
  /\ UNCHANGED <<localVars, sendVars, out, conn, faults, open, net, owner, replica>>

\* status_cb ends; ntripcli_readcb then closes the connection (end_cb).
QueueFull ==
  /\ link = "refused"
  /\ out # None
  /\ mimeq' = Queued(out)
  /\ out' = None
  /\ link' = "closing"
  /\ conn' = None
  /\ UNCHANGED <<localVars, pending, sendVars, base, faults, remoteVars>>

\* The connection is lost, or ended by the other node (end_cb).
Disconnect ==
  /\ MayBegin
  /\ link \in {"connecting", "idle", "wait", "header"}
  /\ IF conn \in open THEN Fault ELSE faults' = faults
  /\ link' = "closing"
  /\ conn' = None
  /\ reply' = None
  /\ UNCHANGED <<localVars, mimeq, pending, sendVars, base, out, open, net, owner, replica>>

\* end_cb makes a check of the serial.
MakeCheck ==
  /\ link = "closing"
  /\ out = None
  /\ out' = CheckSerial
  /\ UNCHANGED <<localVars, mimeq, pending, sendVars, link, base, conn, faults, remoteVars>>

\* end_cb queues it, and reschedules the task: what was sent and not
\* acknowledged is to be sent again.
Reschedule ==
  /\ link = "closing"
  /\ out # None
  /\ mimeq' = Queued(out)
  /\ out' = None
  /\ pending' = 0
  /\ link' = "down"
  /\ UNCHANGED <<localVars, sendVars, base, conn, faults, remoteVars>>

----------------------------------------------------------------------------
(* The other node.                                                         *)

\* Mutant: the serial is not compared.
FailureMutant(msg) ==
  CASE replica = None -> 404
    [] msg.epoch # replica.epoch -> 404
    [] msg.type = "add" /\ replica.table[msg.mountpoint] # "none" -> 404
    [] msg.type \in {"del", "update"} /\ replica.table[msg.mountpoint] = "none" -> 503
    [] OTHER -> None

\* livesource_update_execute_diff: why a message is refused, None if it is not
Failure(msg) ==
  CASE replica = None -> 404
    [] msg.epoch # replica.epoch \/ msg.serial # replica.serial -> 404
    [] msg.type = "add" /\ replica.table[msg.mountpoint] # "none" -> 404
    [] msg.type \in {"del", "update"} /\ replica.table[msg.mountpoint] = "none" -> 503
    [] OTHER -> None

\* livesource_update_execute: the table of the sender on the other node
Executed(msg) ==
  CASE msg.type = "fulltable" ->
         [epoch |-> msg.epoch, serial |-> msg.serial, table |-> msg.livesources]
    [] msg.type = "checkserial" \/ Failure(msg) # None -> replica
    [] OTHER -> [replica EXCEPT !.serial = @ + 1,
                                !.table[msg.mountpoint] = msg.state]

\* A worker executes the request received on connection k and answers.
Execute(k) ==
  /\ net[k] # None
  /\ LET msg == net[k]
         full == msg.type = "fulltable"
         status == IF full \/ Failure(msg) = None THEN 200 ELSE Failure(msg)
     IN /\ replica' = Executed(msg)
        /\ owner' = IF full THEN owner \cup {k} ELSE owner
        /\ reply' = IF k = conn /\ k \in open THEN [status |-> status, msg |-> msg] ELSE reply
  /\ net' = [net EXCEPT ![k] = None]
  /\ UNCHANGED <<localVars, taskVars, faults, open>>

\* The other node sees the end of connection k, or ends it (ntripsrv_eventcb):
\* if it executed a full table on it, it drops the table of the sender.
Close(k) ==
  /\ k \in open
  /\ IF k = conn THEN Fault ELSE faults' = faults
  /\ open' = open \ {k}
  /\ replica' = IF k \in owner THEN None ELSE replica
  /\ owner' = owner \ {k}
  /\ UNCHANGED <<localVars, taskVars, net, reply>>

\* The other node is restarted.
RemoteRestart ==
  /\ Fault
  /\ open' = {}
  /\ net' = [k \in Conns |-> None]
  /\ owner' = {}
  /\ replica' = None
  /\ UNCHANGED <<localVars, taskVars, reply>>

----------------------------------------------------------------------------
TaskStep ==
  \/ Start \/ MakeFull \/ Connect \/ BecomesIdle \/ Status \/ QueueFull
  \/ MakeCheck \/ Reschedule

\* The thread finishes the change it has begun.
QueueStep(t) ==
  Bump(t) \/ QueueUpdate(t) \/ TrySend(t) \/ Uncount(t)

Step ==
  \/ \E t \in setting.threads, m \in Mountpoints :
       AddDirect(t, m) \/ AddOnDemand(t, m) \/ Delete(t, m) \/ SetState(t, m)
  \/ \E t \in setting.threads : QueueStep(t)
  \/ Restart
  \/ TaskStep
  \/ Disconnect
  \/ \E k \in Conns : Execute(k) \/ Close(k)
  \/ RemoteRestart

Run(A) == A /\ UNCHANGED setting

Next == Run(Step)

\* Threads finish what they began, the retry timer fires, the other node
\* executes what it received and sees the end of lost connections, and the
\* sender that of a connection the other node has closed.
Fairness ==
  /\ \A t \in Threads : SF_vars(Run(QueueStep(t)))
  /\ SF_vars(Run(TaskStep))
  /\ \A k \in Conns : WF_vars(Run(Execute(k))) /\ WF_vars(k # conn /\ Run(Close(k)))
  /\ WF_vars(conn \notin open /\ Run(Disconnect))

Spec == Init /\ [][Next]_vars
FairSpec == Spec /\ Fairness

----------------------------------------------------------------------------
(* Properties.                                                             *)

\* The sources that livesource_find_remote_endpoint takes into account
Running(tbl) == {m \in Mountpoints : tbl[m] = "RUNNING"}

\* No change under way, an idle connection, and nothing left of another one.
Still ==
  /\ \A t \in Threads : pc[t] = "idle"
  /\ link = "idle"
  /\ open = {conn}
  /\ \A k \in Conns : net[k] = None

\* When all is quiet the other node has a table for this caster, of its
\* present incarnation, with exactly its running sources: updates dropped or
\* sent twice, silent additions, and restarts are all repaired by a refused
\* update and a full table.  Without threads only.
Converged ==
  Still /\ mimeq = <<>> /\ ~setting.threaded =>
    /\ replica # None
    /\ replica.epoch = epoch
    /\ Running(replica.table) = Running(table)

\* With threads, updates are queued out of order and full tables with an old
\* serial, or after newer updates, and a wrong table may remain.  But not
\* under the serial of the sender, so that the next update is refused and
\* repairs it, unless two threads have raced on serial++, which has no lock of
\* its own: a lost increment is all that can hide a wrong table.
SerialTellsTable ==
  (/\ \A t \in Threads : pc[t] # "bump"
   /\ ~lost
   /\ replica # None
   /\ replica.epoch = epoch
   /\ replica.serial = serial) => Running(replica.table) = Running(table)

\* The queue can hold the full table of a refused request, the check of end_cb
\* and the full table of the next connection.
Roomy == setting.queue_max_size >= 3

\* The exchange of refused updates and full tables comes to an end when the
\* table no longer changes and the connection holds, if the queue has room for
\* it, and leaves nothing to send on the idle connection, unless a thread left
\* the sending to another one that had already looked at the connection.
Settles == Roomy => <>[](Still /\ (mimeq = <<>> \/ skipped))
=============================================================================
