CONSTANTS
    QueueMax = 3
    m1 = m1
    m2 = m2
    m3 = m3
    s1 = s1
    s2 = s2
    s3 = s3
    s4 = s4
    Mails = {m1, m3}
    Sends = {s1, s2, s4}
    NoSend = NoSend
    NoMail = NoMail
    Stub = Stub
    Timer = Timer
    Sender = Sender
    MailOf <- RetriedMail
    TypeOf <- SendTypes
    Faults <- AnyFault
    Cancelling = TRUE
    MaxCrashes = 1
SPECIFICATION Spec
INVARIANTS SendingIsBeingSent
PROPERTIES StoppedIsNotTransmitted
CHECK_DEADLOCK FALSE
