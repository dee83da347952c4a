SPECIFICATION FairSpec
CONSTANTS
    Sessions = {s1}
    Threads = {t1}
    Objs = {o1}
    Producers = {p1}
    Repliers = {}
    Watchers = {w1}
    Sweepers = {r1}
    Callbacks = {c1}
    Feeds <- AllFeeds
    Endpoints = {s1}
    Types <- FlowTypes
    Lags = {0}
    DedupWindow = 2
    GCAge = 2
    IdleDebounce = 1
    MaxIdle = 0
    MaxSessions = 1
    Nil = Nil
INVARIANT BusyIsTimed
INVARIANT EveryDeathAnnounced
PROPERTY SweepSparesRegistered
INVARIANT DedupExact
PROPERTY OnlyEventsRevive
PROPERTY BusyEnds
