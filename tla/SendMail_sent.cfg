CONSTANTS
    QueueMax = 3
    m1 = m1
    m2 = m2
    m3 = m3
    s1 = s1
    s2 = s2
    s3 = s3
    s4 = s4
    Mails = {m1}
    Sends = {s1}
    NoSend = NoSend
    NoMail = NoMail
    Stub = Stub
    Timer = Timer
    Sender = Sender
    MailOf <- OneMailEach
    TypeOf <- SendTypes
    Faults <- NoFault
    Cancelling = FALSE
    MaxCrashes = 0
SPECIFICATION Spec
INVARIANTS SentWasDelivered
CHECK_DEADLOCK FALSE
