CONSTANTS
    bank = bank
    shop = shop
    phone = phone
    till = till
    atm = atm
    t1 = t1
    t2 = t2
    t3 = t3
    r1 = r1
    r2 = r2
    r3 = r3
    p1 = p1
    p2 = p2
    NoCode = NoCode
    NoToken = NoToken
    NoDevice = NoDevice
    Customer = {bank, shop}
    Device = {phone, till}
    DeviceCustomer <- TwoOwners
    TokenDevice = {phone}
    CashDevice = {till}
    TokenId = {t1, t2}
    Request = {r1, r2}
    PlainCode = {p1}
    CodeChoice = {p1}
    RadioCode = {p1}
    Amount = {1, 2}
    Type = {"CASHOUT"}
    Expiry = {0}
    MaxNow = 0
    ClearState = {}
    Retries = 1
    Outcome = {"COMPLETED"}
    Observed = {bank, shop}
    Partial = {TRUE}
    AllowInterCustomerClearing = TRUE
    Failures = TRUE
    n1 = n1
    n2 = n2
    RefName = {n1, n2}
SPECIFICATION ReportsSpec
SYMMETRY ReportSymmetry
CONSTRAINT FewLosses
INVARIANTS OwnerUpToDate ReportsAgree JournalComplete
PROPERTIES SettlementFixed
