SPECIFICATION Spec
CONSTANTS
    Nil = Nil
    Clients = {c1}
    Failing = {c1}
    Producers = {p1, p2}
    Threads = {a, b}
    Depth = 2
    MaxSeq = 3
    Debugging = {TRUE, FALSE}
CHECK_DEADLOCK FALSE
INVARIANT TypeOK
INVARIANT NoGap
 
 
