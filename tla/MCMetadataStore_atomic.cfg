SPECIFICATION FairSpec
CONSTANTS
    e1 = e1  e2 = e2  t1 = t1  t2 = t2  t3 = t3  b1 = b1
    Engine = {e1, e2}
    Thread = {t1, t2, t3}
    EngineOf <- TwoAndOne
    Branch = {b1}
    Mark = {m1, m2}
    Jobs <- TxJobs
    MaxRetries = 2
    MaxCrashes = 0
    Absent = Absent  Anything = Anything  Free = Free
PROPERTIES TransactionsAreAtomic RetriesGetThrough
