SPECIFICATION Spec
CONSTANTS
    Sessions = {s1}
    Threads = {t1}
    Objs = {o1}
    Producers = {p1, p2}
    Repliers = {}
    Watchers = {}
    Sweepers = {}
    Callbacks = {c1}
    Feeds <- AllFeeds
    Endpoints = {}
    Types <- CoreTypes
    Lags = {0}
    DedupWindow = 1
    GCAge = 1
    IdleDebounce = 1
    MaxIdle = 0
    MaxSessions = 1
    Nil = Nil
INVARIANT BusyIsTimed
