CONSTANTS
    bank = bank
    shop = shop
    phone = phone
    till = till
    atm = atm
    t1 = t1
    t2 = t2
    t3 = t3
    r1 = r1
    r2 = r2
    r3 = r3
    p1 = p1
    p2 = p2
    NoCode = NoCode
    NoToken = NoToken
    NoDevice = NoDevice
    Customer = {bank, shop}
    Device = {phone, till, atm}
    DeviceCustomer <- Owners
    TokenDevice = {phone}
    CashDevice = {till}
    TokenId = {t1, t2}
    Request = {r1, r2}
    PlainCode = {p1}
    CodeChoice = {p1}
    RadioCode = {p1}
    Amount = {1}
    Type = {"CASHOUT", "CASHIN"}
    Expiry = {0}
    MaxNow = 0
    ClearState = {}
    Retries = 2
    Outcome = {"COMPLETED"}
    Observed = {}
    Partial = {FALSE}
    AllowInterCustomerClearing = TRUE
    Failures = FALSE
SPECIFICATION FairSpec
PROPERTIES EventuallySettled
