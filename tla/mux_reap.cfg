SPECIFICATION Spec
CONSTANTS
    Sessions = {s1, s2}
    Threads = {t1}
    Objs = {o1, o2}
    Producers = {p1}
    Repliers = {h1}
    Watchers = {w1}
    Sweepers = {}
    Callbacks = {}
    Feeds <- AllFeeds
    Endpoints = {}
    Types <- StartTypes
    Lags = {0}
    DedupWindow = 0
    GCAge = 0
    IdleDebounce = 0
    MaxIdle = 0
    MaxSessions = 1
    Nil = Nil
SYMMETRY SymmetryP
VIEW WithMirror
 
 
 
PROPERTY OnlyOvertakenUntimed
