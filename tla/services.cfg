SPECIFICATION ServicesSpec
CONSTANTS
    a1 = a1
    a2 = a2
    a3 = a3
    p1 = p1
    p2 = p2
    f1 = f1
    q1 = q1
    q2 = q2
    Addresses = {a1, a2, a3}
    Phones = {f1}
    Places = {p1, p2}
    NoPlace = NoPlace
    PlaceOf <- TwoOfOnePlace
    Queries = {q1, q2}
    FreshFor = 3
    CacheFor = 3
    ShippingFor = 1
    MaxOffers = 1
    g1 = g1
    g2 = g2
    k1 = k1
    k2 = k2
    Sights = {g1, g2}
    Vague = Vague
    NoSight = NoSight
    Clicks = {k1, k2}
    m1 = m1
    m2 = m2
    c1 = c1
    c2 = c2
    x1 = x1
    Processes = {m1, m2}
    Chats = {c1, c2}
    BotHashes = {x1}
    NoBotHash = NoBotHash
    NoChat = NoChat
    MaxBotFaults = 2
    o1 = o1
    d1 = d1
    d2 = d2
    t1 = t1
    t2 = t2
    Owners = {o1}
    DeviceIds = {d1, d2}
    Tokens = {t1, t2}
    NoToken = NoToken
    Calls = {k1, k2}
    MaxRows = 3
    MaxDeviceFaults = 1
    r1 = r1
    r2 = r2
    LastCategory = 4
    PageSize = 2
    Refreshes = {r1, r2}
    MaxShopChanges = 2
    n1 = n1
    n2 = n2
    e1 = e1
    e2 = e2
    Numbers = {n1, n2}
    TestNumber = n2
    Codes = {e1, e2}
    TestCode = e1
    CodeRequests = {q1, q2}
    MaxSmsCodes = 1
    MaxWaitCodes = 2
    MaxCalls = 1
    MaxReports = 2
    u1 = u1
    s1 = s1
    s2 = s2
    AppleUsers = {u1}
    Nonces = {n1, n2}
    SignIns = {s1, s2}
    MaxGrants = 2
    MaxAppleErrors = 1
    Applications = {q1, q2}
    Totals = {1}
    Lifetime = 2
    FallbackLifetime = 3
    Margin = 1
    MaxLate = 2
    MaxLoanFaults = 2
INVARIANTS ServicesTypeOK PriceShownIsCurrent PageShowsOneAnswer HashFromItsChat DeviceStaysReachable PushGoesToLastToken ListIsWhole  NonceIsSingleUse GrantsAreRevoked RegistersInTime
PROPERTIES StopIsFinal BotReturns ListIsKept
CHECK_DEADLOCK FALSE
