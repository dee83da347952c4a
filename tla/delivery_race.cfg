SPECIFICATION Spec
CONSTANTS
    h1 = h1
    k1 = k1
    m1 = m1
    m2 = m2
    n1 = n1
    s1 = s1
    None = None
    Sessions = {s1}
    Msgs = {m1, m2}
    To <- ToOne
    Answers = {m1}
    Senders = {h1}
    Tickers = {}
    Notifiers = {n1}
    Hooks = {k1}
    WebSessions = {}
    Reachable = {s1}
    PTYs = {s1}
    MaxRetry = 1
    MaxFaults = 1
    MaxCrashes = 1
 
PROPERTY OnlyPTYOvertakes
