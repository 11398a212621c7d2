CONSTANTS
    p1 = p1
    p2 = p2
    w1 = w1
    w2 = w2
    a1 = a1
    s1 = s1
    s2 = s2
    NoProcess = NoProcess
    NoScope = NoScope
    Process = {p1, p2}
    Scope = {s1}
    Socket = {w1, w2, a1}
    ApiSocket = {w1, w2}
    RedisChoice = {TRUE, FALSE}
    MaxVersion = 2
SPECIFICATION FairSpec
CHECK_DEADLOCK FALSE
INVARIANTS TypeOK SubscriptionsFollow OpenIsObserved NothingMissed
PROPERTIES ToldOrDropped
