SPECIFICATION FairSpec
CONSTANTS
    s1 = s1
    s2 = s2
    th1 = th1
    i1 = i1
    Nil = Nil
    Sessions = {s1, s2}
    Thread <- OneThread
    MaxConns = 2
    Inputs = {i1}
    Buffer = 1
    MaxFlight = 2
    MaxChanges = 2
    Castings <- Cases
CHECK_DEADLOCK FALSE
INVARIANT TypeOK
INVARIANT QuietMeansEqual
INVARIANT GoneMeansEmpty
PROPERTY SentArrives
 
