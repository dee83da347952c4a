SPECIFICATION Spec
CONSTANTS
    h1 = h1
    m1 = m1
    m2 = m2
    s1 = s1
    t1 = t1
    None = None
    Sessions = {s1}
    Msgs = {m1, m2}
    To <- ToOne
    Answers = {}
    Senders = {h1}
    Tickers = {t1}
    Notifiers = {}
    Hooks = {}
    WebSessions = {}
    Reachable = {s1}
    PTYs = {}
    MaxRetry = 2
    MaxFaults = 0
    MaxCrashes = 0
INVARIANT NothingLost
