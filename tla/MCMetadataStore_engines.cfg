SPECIFICATION Spec
CONSTANTS
    e1 = e1  e2 = e2  t1 = t1  t2 = t2  t3 = t3  b1 = b1
    Engine = {e1, e2}
    Thread = {t1, t2}
    EngineOf <- TwoEngines
    Branch = {b1}
    Mark = {m1, m2, m3}
    Jobs <- AllJobs
    MaxRetries = 2
    MaxCrashes = 1
    Absent = Absent  Anything = Anything  Free = Free
SYMMETRY Symmetry
INVARIANTS TypeOK CacheFollowsOwnWrites
PROPERTIES CommitReplacesWhatItRead UpdatesAreDroppedOnlyBlindly RejectionsAreOwedToOthers
