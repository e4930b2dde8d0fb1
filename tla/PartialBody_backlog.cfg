SPECIFICATION FairSpec
CONSTANTS
    Total = 2
    BulkMax = 2
    Mails = {m1, m2}
    BoxOf <- MC_TwoMails
    AccountOf <- MC_TwoAccounts
    Accounts = {a1, a2}
    Faults = {"network", "connect", "server"}
    Doomed = {a2}
    Boxes = {b1, b2}
    m1 = m1
    m2 = m2
    m3 = m3
    m4 = m4
    b1 = b1
    b2 = b2
    a1 = a1
    a2 = a2
    NoMail = NoMail
    NoBox = NoBox
    NoAccount = NoAccount
    Pbd = Pbd
    Syncer = Syncer
    Stub = Stub
    Caller = Caller
INVARIANTS FlagsTellTheQueue
PROPERTIES ImplementsFifo BacklogIsDrained
