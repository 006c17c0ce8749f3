---------------------------- MODULE MCTableSync -----------------------------
(* An instance of TableSync for model checking.                            *)
EXTENDS TableSync

CONSTANTS t1, t2

\* One thread, faults and a queue that overflows, with room for the exchange
\* of full tables or not; or two threads that race.
Runs ==
  {[threaded |-> FALSE, threads |-> {t1}, queue_max_size |-> 2, changes |-> 2, faults |-> 1],
   [threaded |-> FALSE, threads |-> {t1}, queue_max_size |-> 3, changes |-> 2, faults |-> 2],
   [threaded |-> FALSE, threads |-> {t1}, queue_max_size |-> 3, changes |-> 3, faults |-> 0],
   [threaded |-> TRUE, threads |-> {t1, t2}, queue_max_size |-> 9, changes |-> 2, faults |-> 0]}
=============================================================================
