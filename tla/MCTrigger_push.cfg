CONSTANTS
    NoProcess = NoProcess
    NoCode = NoCode
    p1 = p1
    p2 = p2
    c1 = c1
    c2 = c2
    w1 = w1
    n1 = n1
    n2 = n2
    t1 = t1
    t2 = t2
    atm = atm
    till = till
    NoEntry = NoEntry
    NoRequest = NoRequest
    NoDevice = NoDevice
    NoToken = NoToken
    Process = {p1, p2}
    Creation = {c1, c2}
    Registration = {w1}
    Notification = {n1, n2}
    TokenId = {t1, t2}
    Device = {atm, till}
    Fixed = {till}
    RedisChoice = {TRUE, FALSE}
    EarlyChoice = {TRUE, FALSE}
    Validity = 1
    MaxNow = 2
    Outcome = {"COMPLETED"}
SPECIFICATION Spec
SYMMETRY Symmetry
CHECK_DEADLOCK FALSE
INVARIANTS TypeOK RightDevice AnsweredOnce Pushed
PROPERTIES OpenCodeFound SpentCodeRefused
