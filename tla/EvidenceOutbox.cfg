SPECIFICATION FairSpec
CONSTANTS
    e1 = e1
    e2 = e2
    e3 = e3
    Events = {e1, e2, e3}
    Critical = {e3}
    Flushers = {finalizer}
    Closer = cleanup
    MaxEvents = 1
    MaxBatch = 2
    MaxWriteAttempts = 2
INVARIANTS TypeOK NeverForgotten FlushComplete DurableBarrier
PROPERTY CloseEnds
CHECK_DEADLOCK FALSE
