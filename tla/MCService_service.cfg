CONSTANTS
    c1 = c1
    c2 = c2
    k1 = k1
    k2 = k2
    k3 = k3
    p1 = p1
    p2 = p2
    t1 = t1
    a1 = a1
    a2 = a2
    g1 = g1
    g2 = g2
    u1 = u1
    u2 = u2
    u3 = u3
    r1 = r1
    r2 = r2
    Conn = {c1, c2}
    Caller = {k1, k2, k3}
    NoConn = NoConn
    Process = {p1, p2}
    TokenRow = {t1}
    MaxHistory = 1
    MaxDay = 3
    NoDay = NoDay
    AccountId = {a1, a2}
    Change = {g1, g2}
    NoAccount = NoAccount
    Client = {u1, u2, u3}
    FirstRow = FirstRow
    Nobody = Nobody
    Call = {r1, r2}
    FirstKey = FirstKey
    FirstDevice = FirstDevice
    Nothing = Nothing
SPECIFICATION Spec
CHECK_DEADLOCK FALSE
INVARIANTS TypeOK Accounted OncePerDay CleanOrBlocked QuietHasDefault SecretProved SessionOfUser
PROPERTIES EveryTaskEnds ChosenIsDefault RepairEnds AnsweredOrLost
