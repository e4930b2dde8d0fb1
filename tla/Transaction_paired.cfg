SPECIFICATION FairSpec
CONSTANTS
    Threads = {t1, t2, t3}
    Jobs = {j1, j2, j3, j4}
    KindOf <- PairedKinds
    Faults <- PairedFaults
    NoThread = NoThread
    NoJob = NoJob
    t1 = t1
    t2 = t2
    t3 = t3
    j1 = j1
    j2 = j2
    j3 = j3
    j4 = j4
INVARIANTS AuthorityIsExclusive
PROPERTIES ImplementsStore WaiterIsServed
CHECK_DEADLOCK FALSE
