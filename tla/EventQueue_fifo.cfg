CONSTANTS
    QueueMax = 3
    e1 = e1
    e2 = e2
    e3 = e3
    e4 = e4
    c1 = c1
    c2 = c2
    Events = {e1, e2, e3}
    Clients = {c1, c2}
    NoEvent = NoEvent
    Worker = Worker
    Main = Main
    NoProc = NoProc
    TypeOf <- SendAndUpdates
    Cancels <- NoCancel
SPECIFICATION FairSpec
PROPERTIES SleepsOnlyWhenEmpty ImplementsFifo BacklogIsDrained
CHECK_DEADLOCK FALSE
