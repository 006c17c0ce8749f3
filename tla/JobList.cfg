CONSTANTS
    w1 = w1
    w2 = w2
    l1 = l1
    s1 = s1
    s2 = s2
    NoOne = NoOne
    Workers = {w1, w2}
    Loops = {l1}
    Sessions = {s1, s2}
    RefSessions = {s1}
    LibeventJobs <- CallbacksOf
    Shutdown = TRUE
    MaxJobs = 2
    MaxRefs = 2
SPECIFICATION FairSpec
INVARIANTS TypeOK QueuedOnce NoStrandedJob NoUseAfterFree FreeQueueServed RefcntExact LockOrder
PROPERTIES Fifo WorkersExit
CHECK_DEADLOCK FALSE
