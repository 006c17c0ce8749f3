----------------------------- MODULE MCJobList -----------------------------
EXTENDS JobList

CONSTANTS w1, w2, l1, s1, s2

\* A session that queues referring jobs reads and writes; the other one also
\* gets connection events, so its queue holds two jobs.
CallbacksOf(s) == IF s \in RefSessions THEN {"rw"} ELSE {"rw", "event"}
=============================================================================
