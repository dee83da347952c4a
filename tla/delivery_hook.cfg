SPECIFICATION Spec
CONSTANTS
    h1 = h1
    h2 = h2
    k1 = k1
    m1 = m1
    m2 = m2
    m3 = m3
    s1 = s1
    t1 = t1
    None = None
    Sessions = {s1}
    Msgs = {m1, m2, m3}
    To <- ToOne
    Answers = {m1}
    Senders = {h1, h2}
    Tickers = {t1}
    Notifiers = {}
    Hooks = {k1}
    WebSessions = {}
    Reachable = {}
    PTYs = {}
    MaxRetry = 2
    MaxFaults = 0
    MaxCrashes = 0
PROPERTY ImplementsQueue
