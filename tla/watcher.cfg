SPECIFICATION FairSpec
CONSTANTS
    p1 = p1
    p2 = p2
    s1 = s1
    s2 = s2
    d1 = d1
    d2 = d2
    Nil = Nil
    Pids = {p1, p2}
    Sessions = {s1, s2}
    Castings <- Situations
    Helpers = {p2}
    Dirs = {d1, d2}
    Dir <- TwoDirs
INVARIANT LeakNeedsOverwrite
PROPERTY KillsOnlyExited
PROPERTY LiveGetsEndpoint
PROPERTY OrphansDie
