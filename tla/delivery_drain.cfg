SPECIFICATION FairSpec
CONSTANTS
    h1 = h1
    m1 = m1
    m2 = m2
    m3 = m3
    s1 = s1
    s2 = s2
    t1 = t1
    None = None
    Sessions = {s1, s2}
    Msgs = {m1, m2, m3}
    To <- ToTwo
    Answers = {}
    Senders = {h1}
    Tickers = {t1}
    Notifiers = {}
    Hooks = {}
    WebSessions = {s2}
    Reachable = {s1}
    PTYs = {}
    MaxRetry = 1
    MaxFaults = 0
    MaxCrashes = 1
 
PROPERTY QueueDrains
PROPERTY SendsReturn
