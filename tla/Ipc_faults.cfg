SPECIFICATION Spec
CONSTANTS
    a1 = a1
    a2 = a2
    t1 = t1
    t2 = t2
    t3 = t3
    Apps = {a1, a2}
    Threads = {t1, t2, t3}
    AppOf <- MCAppOf
    c1 = c1
    c2 = c2
    Conns = {c1, c2}
    MaxCalls <- MCMaxCalls
    Works <- MCWorks
INVARIANTS WrongAnswerOnlyByReuse 
PROPERTIES RunsInsideItsCall 
CHECK_DEADLOCK FALSE
