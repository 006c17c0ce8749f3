CONSTANTS
    w1 = w1
    w2 = w2
    l1 = l1
    s1 = s1
    s2 = s2
    NoOne = NoOne
    Workers = {w1, w2}
    Loops = {l1}
    Sessions = {s1}
    RefSessions = {s1}
    LibeventJobs <- CallbacksOf
    Shutdown = FALSE
    MaxJobs = 1
    MaxRefs = 1
SPECIFICATION Spec
INVARIANTS WaitOnlyWhenIdle
CHECK_DEADLOCK FALSE
