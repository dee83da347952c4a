SPECIFICATION FairSpec
CONSTANTS
    f1 = f1
    f2 = f2
    d1 = d1
    d2 = d2
    root = root
    t1 = t1
    t2 = t2
    Nil = Nil
    Files = {f1, f2}
    Dirs = {d1, d2}
    Root = root
    Parent <- Nested
    In <- Inside
    Tails = {t1, t2}
    Window = 2
    MaxSize = 4
    MaxGen = 2
    MaxQueue = 2
    Castings <- Cases
INVARIANT TypeOK
INVARIANT GivenOnce
 
CHECK_DEADLOCK FALSE
PROPERTY NewFilesRead
PROPERTY ShutdownEnds
