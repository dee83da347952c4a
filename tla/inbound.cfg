SPECIFICATION FairSpec
CONSTANTS
    Nil = Nil
    Key = Key
    Clients = {c1, c2}
    Inputs = {i1}
    Dictated = {d1}
    MaxConns = 2
    MaxKeys = 1
CHECK_DEADLOCK FALSE
INVARIANT GivenOnce
 
 
INVARIANT HonestEcho
 
PROPERTY InputsAnswered
