----------------------------- MODULE NtripTask ------------------------------
(***************************************************************************)
(* An outgoing connection with a queue of requests: caster/ntrip_task.c, on *)
(* the session states of caster/ntripcli.c, as used by the Graylog sender  *)
(* (caster/graylog_sender.c) and by the syncer (caster/syncer.c).          *)
(*                                                                         *)
(* Any thread may queue a request.  It inserts it under mimeq_lock, and    *)
(* then, if no other thread is at it (restart_sending), takes the lock of  *)
(* the connection and sends the next request if the connection is idle.    *)
(* The callbacks of the connection send the next request each time it      *)
(* becomes idle.  When the queue is full it is drained, except for the     *)
(* `pending' requests at its head, which have been sent.                   *)
(***************************************************************************)
EXTENDS Integers, Sequences, FiniteSets, SequencesExt

CONSTANTS Queuers,    \* threads that queue requests
          Callback,   \* the thread that runs the callbacks of the task
          Kinds,      \* users of the task: "graylog", "syncer"
          Lengths,    \* lengths of requests
          QueueMax,   \* queue_max_size
          BulkMax,    \* bulk_max_size of Graylog, 0 for none
          MaxItems,   \* bound: requests queued by Queuers
          MaxFaults   \* bound: connections lost or requests refused

ASSUME SizeAssumption == {QueueMax, BulkMax, MaxItems, MaxFaults} \subseteq Nat
ASSUME KindAssumption == Kinds \subseteq {"graylog", "syncer"}

VARIABLES
  kind,         \* the user of the task
  mimeq,        \* queued requests: an identity and a length
  queue_size,   \* their total length, as counted
  pending,      \* how many of them have been sent
  sending,      \* restart_sending
  link,         \* state of the task and of its session
  conn,         \* number of the session
  pc, item,     \* per thread: step of ntrip_task_queue, and its request
  ref,          \* per thread: the session it has a reference to
  made,         \* number of requests queued by Queuers
  inserted,     \* number of requests ever inserted
  faults,       \* number of faults
  sent,         \* the requests in flight on the connection
  received,     \* requests that the server has accepted
  dropped,      \* requests drained, or refused by the server
  skipped       \* a thread did not try to send, because another one did

queueVars == <<mimeq, queue_size, pending>>
historyVars == <<sent, received, dropped, skipped>>
threadVars == <<pc, item, ref, sending, made, inserted>>
vars == <<kind, queueVars, link, conn, threadVars, faults, historyVars>>

Threads == Queuers \cup {Callback}
NoItem == [id |-> 0, len |-> 0]

\* task->bulk_max_size: only Graylog is sent several requests in one.
Bulk == IF kind = "graylog" THEN BulkMax ELSE 0

Init ==
  /\ kind \in Kinds
  /\ mimeq = <<>> /\ queue_size = 0 /\ pending = 0
  /\ sending = 0
  /\ link = "down" /\ conn = 0
  /\ pc = [t \in Threads |-> "idle"]
  /\ item = [t \in Threads |-> NoItem]
  /\ ref = [t \in Threads |-> 0]
  /\ made = 0 /\ inserted = 0 /\ faults = 0
  /\ sent = <<>> /\ received = {} /\ dropped = {} /\ skipped = FALSE

Ids(q) == {q[i].id : i \in DOMAIN q}
Length(q) == FoldSeq(LAMBDA m, n : m.len + n, 0, q)

----------------------------------------------------------------------------
(* ntrip_task_send_next_request                                            *)

\* Number of requests that fit in a bulk request, each with a newline
BulkCount ==
  LET fits(n) == Length(SubSeq(mimeq, 1, n)) + n <= Bulk
  IN CHOOSE n \in 0..Len(mimeq) :
       fits(n) /\ \A k \in (n + 1)..Len(mimeq) : ~fits(k)

SendCount ==
  IF Bulk # 0 THEN BulkCount ELSE IF mimeq = <<>> THEN 0 ELSE 1

\* The next request is sent on an idle connection; with none, it stays idle.
SendNext ==
  /\ pending' = pending + SendCount
  /\ sent' = SubSeq(mimeq, 1, SendCount)
  /\ link' = IF SendCount = 0 THEN "idle" ELSE "wait"
  /\ skipped' = FALSE
  /\ UNCHANGED <<mimeq, queue_size, conn, received, dropped>>

----------------------------------------------------------------------------
(* ntrip_task_queue, called by thread t.                                   *)

Goto(t, label) == pc' = [pc EXCEPT ![t] = label]

\* The thread enters ntrip_task_queue with a request of length n, and finds
\* whether there is room for it.
Enter(t, n) ==
  /\ item' = [item EXCEPT ![t] = [id |-> 0, len |-> n]]
  /\ Goto(t, IF n + queue_size > QueueMax THEN "drain" ELSE "insert")

Queue(t) ==
  /\ t \in Queuers
  /\ pc[t] = "idle"
  /\ made < MaxItems
  /\ made' = made + 1
  /\ \E n \in Lengths : Enter(t, n)
  /\ UNCHANGED <<kind, queueVars, link, conn, ref, sending, inserted, faults, historyVars>>

\* What ntrip_task_drain_queue keeps
Kept == SubSeq(mimeq, 1, pending)

\* ntrip_task_drain_queue
Drain(t) ==
  /\ pc[t] = "drain"
  /\ mimeq' = Kept
  /\ queue_size' = Length(Kept)
  /\ dropped' = dropped \cup (Ids(mimeq) \ Ids(Kept))
  /\ Goto(t, "insert")
  /\ UNCHANGED <<kind, pending, link, conn, item, ref, sending, made, inserted, faults,
                 sent, received, skipped>>

\* A request too long for a bulk request is dropped, another one inserted.
Insert(t) ==
  /\ pc[t] = "insert"
  /\ IF Bulk # 0 /\ item[t].len > Bulk - 1
       THEN UNCHANGED <<mimeq, queue_size, inserted>>
       ELSE /\ inserted' = inserted + 1
            /\ mimeq' = Append(mimeq, [item[t] EXCEPT !.id = inserted'])
            /\ queue_size' = queue_size + item[t].len
  /\ item' = [item EXCEPT ![t] = NoItem]
  /\ Goto(t, "count")
  /\ UNCHANGED <<kind, pending, link, conn, ref, sending, made, faults, historyVars>>

\* atomic_fetch_add(&restart_sending): only the first thread goes on.
Count(t) ==
  /\ pc[t] = "count"
  /\ sending' = sending + 1
  /\ Goto(t, IF sending = 0 THEN "get" ELSE "uncount")
  /\ skipped' = (skipped \/ sending # 0)
  /\ UNCHANGED <<kind, queueVars, link, conn, item, ref, made, inserted, faults,
                 sent, received, dropped>>

\* task->st is NULL before the session is made and once end_cb cleared it.
NoSession == link \in {"down", "start", "closing"}

\* ntrip_task_get_st_ref
GetRef(t) ==
  /\ pc[t] = "get"
  /\ ref' = [ref EXCEPT ![t] = IF NoSession THEN 0 ELSE conn]
  /\ Goto(t, IF NoSession THEN "uncount" ELSE "lock")
  /\ UNCHANGED <<kind, queueVars, link, conn, item, sending, made, inserted, faults, historyVars>>

\* The session is the current one, and not idle while a callback holds it.
Current(t) == ref[t] = conn /\ ~NoSession

\* The session is locked, and the next request sent if it is idle.  A thread
\* waits for the callback that holds the lock; the callback itself does not.
TrySend(t) ==
  /\ pc[t] = "lock"
  /\ t # Callback => link # "refused"
  /\ ref' = [ref EXCEPT ![t] = 0]
  /\ Goto(t, "uncount")
  /\ IF Current(t) /\ link = "idle"
       THEN SendNext
       ELSE UNCHANGED <<queueVars, link, conn, historyVars>>
  /\ UNCHANGED <<kind, item, sending, made, inserted, faults>>

\* atomic_fetch_sub(&restart_sending)
Uncount(t) ==
  /\ pc[t] = "uncount"
  /\ sending' = sending - 1
  /\ Goto(t, "idle")
  /\ UNCHANGED <<kind, queueVars, link, conn, item, ref, made, inserted, faults, historyVars>>

QueueStep(t) ==
  Queue(t) \/ Drain(t) \/ Insert(t) \/ Count(t) \/ GetRef(t) \/ TrySend(t) \/ Uncount(t)

----------------------------------------------------------------------------
(* Callbacks of the task.  Those that queue a request themselves, in the   *)
(* syncer, go on when they have done so.                                   *)

CallbackIdle == pc[Callback] = "idle"

\* The callback goes on, in the syncer by queueing a request.
QueueOwn ==
  IF kind = "syncer"
    THEN (\E n \in Lengths : Enter(Callback, n)) /\ UNCHANGED <<ref, sending, made, inserted>>
    ELSE UNCHANGED threadVars

Fault == faults < MaxFaults /\ faults' = faults + 1

\* Mutant: the timer is not armed again.
StartMutant ==
  /\ link = "down" /\ CallbackIdle
  /\ conn = 0
  /\ link' = "start"
  /\ QueueOwn
  /\ UNCHANGED <<kind, queueVars, conn, faults, historyVars>>

\* The timer calls restart_cb; the syncer queues a full table.
Start ==
  /\ link = "down" /\ CallbackIdle
  /\ link' = "start"
  /\ QueueOwn
  /\ UNCHANGED <<kind, queueVars, conn, faults, historyVars>>

\* ntrip_task_start
Connect ==
  /\ link = "start" /\ CallbackIdle
  /\ link' = "connecting"
  /\ conn' = conn + 1
  /\ UNCHANGED <<kind, queueVars, threadVars, faults, historyVars>>

\* connect_cb: the connection is idle and the next request sent.
Connected ==
  /\ link = "connecting"
  /\ SendNext
  /\ UNCHANGED <<kind, threadVars, faults>>

\* ntrip_task_ack_pending
AckPending ==
  /\ mimeq' = SubSeq(mimeq, pending + 1, Len(mimeq))
  /\ queue_size' = queue_size - Length(SubSeq(mimeq, 1, pending))
  /\ pending' = 0

\* The server accepts the request; status_cb acknowledges it.
Accepted ==
  /\ link = "wait"
  /\ AckPending
  /\ received' = received \cup Ids(sent)
  /\ sent' = <<>>
  /\ link' = "header"
  /\ UNCHANGED <<kind, conn, threadVars, faults, dropped, skipped>>

\* End of the headers of the answer: the connection is idle again.
Answered ==
  /\ link = "header"
  /\ SendNext
  /\ UNCHANGED <<kind, threadVars, faults>>

\* Mutant: the Graylog sender acknowledges whatever the answer is.
RefusedMutant ==
  /\ link = "wait"
  /\ Fault
  /\ AckPending
  /\ dropped' = IF kind = "syncer" THEN dropped \cup Ids(sent) ELSE dropped
  /\ sent' = <<>>
  /\ link' = "refused"
  /\ QueueOwn
  /\ UNCHANGED <<kind, conn, received, skipped>>

\* The server refuses the request.  status_cb of the syncer acknowledges it
\* anyway and queues a full table; the Graylog sender keeps it.
Refused ==
  /\ link = "wait"
  /\ Fault
  /\ IF kind = "syncer"
       THEN AckPending /\ dropped' = dropped \cup Ids(sent)
       ELSE UNCHANGED <<queueVars, dropped>>
  /\ sent' = <<>>
  /\ link' = "refused"
  /\ QueueOwn
  /\ UNCHANGED <<kind, conn, received, skipped>>

\* The session ends (end_cb): task->st is cleared; the syncer queues a check.
EndSession ==
  /\ link' = "closing"
  /\ sent' = <<>>
  /\ QueueOwn
  /\ UNCHANGED <<kind, queueVars, conn, received, dropped, skipped>>

\* After a request was refused
CloseRefused == link = "refused" /\ CallbackIdle /\ EndSession /\ UNCHANGED faults

\* The connection is lost, times out or is closed by the server, or the answer
\* is one after which the client closes it: no status, no keep-alive, a body in
\* several pieces.  The server may have accepted the request in flight.
Lost ==
  /\ link \in {"connecting", "idle", "wait", "header"}
  /\ Fault
  /\ EndSession

\* Mutant: pending is not reset.
RescheduleMutant ==
  /\ link = "closing" /\ CallbackIdle
  /\ link' = "down"
  /\ UNCHANGED <<kind, queueVars, conn, threadVars, faults, historyVars>>

\* ntrip_task_reschedule: what was sent and not acknowledged is to be sent
\* again.
Reschedule ==
  /\ link = "closing" /\ CallbackIdle
  /\ pending' = 0
  /\ link' = "down"
  /\ UNCHANGED <<kind, mimeq, queue_size, conn, threadVars, faults, historyVars>>

----------------------------------------------------------------------------
TaskStep ==
  \/ Start \/ Connect \/ Connected \/ Accepted \/ Answered \/ CloseRefused \/ Reschedule

Next ==
  \/ \E t \in Threads : QueueStep(t)
  \/ TaskStep \/ Refused \/ Lost

\* Threads finish what they began, the retry timer fires, connections are
\* made, and the server answers.
Fairness ==
  /\ \A t \in Threads : WF_vars(~(pc[t] = "idle") /\ QueueStep(t))
  /\ WF_vars(TaskStep)

Spec == Init /\ [][Next]_vars
FairSpec == Spec /\ Fairness

----------------------------------------------------------------------------
(* Properties.                                                             *)

\* What the server is answering is the head of the queue: whatever was drained
\* or inserted since, ntrip_task_ack_pending takes out what was sent, and no
\* request is sent while another is in flight (the assertion on pending in
\* ntrip_task_send_next_request).
InFlightAtHead ==
  /\ link = "wait" => sent # <<>> /\ sent = SubSeq(mimeq, 1, pending)
  /\ link \in {"connecting", "idle", "header"} => pending = 0

\* A request that was queued is in the queue until the server has accepted it,
\* unless it was drained or, for the syncer, refused.
NothingLost == \A id \in 1..inserted : id \in Ids(mimeq) \cup received \cup dropped

\* With a server that accepts again, the queue gets empty, and no request waits
\* for ever in the queue of an idle connection, unless a thread left the sending to
\* another one, which had already looked at the connection.
Delivered == <>[](mimeq = <<>> \/ skipped)
=============================================================================
