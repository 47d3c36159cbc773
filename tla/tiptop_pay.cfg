SPECIFICATION FairSpec
CONSTANTS
    h1 = h1
    h2 = h2
    o1 = o1
    p1 = p1
    p2 = p2
    p3 = p3
    k1 = k1
    k2 = k2
    c1 = c1
    Payments = {p1, p2, p3}
    Keys = {k1, k2}
    NoKey = NoKey
    KeyOf <- TwoKeys
    InvoiceOf <- SameInvoice
    Checkouts = {c1}
    OrderIds = {o1}
    Handlers = {h1, h2}
    NoCheckout = NoCheckout
    NoPayment = NoPayment
    NoOrder = NoOrder
    Faults <- AlertsAreSent
    MaxCaptured = 2
    MaxFaults = 2
INVARIANTS TypeOK ClaimIsExclusive CardNeedsOrder
PROPERTIES CapturedIsAccountedFor ImplementsPurchase
