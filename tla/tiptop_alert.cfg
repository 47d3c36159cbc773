SPECIFICATION Spec
CONSTANTS
    h1 = h1
    h2 = h2
    o1 = o1
    o2 = o2
    p1 = p1
    p2 = p2
    p3 = p3
    k1 = k1
    k2 = k2
    c1 = c1
    Payments = {p1}
    Keys = {k1}
    NoKey = NoKey
    KeyOf <- OneKey
    InvoiceOf <- OneInvoice
    Checkouts = {c1}
    OrderIds = {o1, o2}
    Handlers = {h1, h2}
    NoCheckout = NoCheckout
    NoPayment = NoPayment
    NoOrder = NoOrder
    Faults <- LateThrow
    MaxCaptured = 1
    MaxFaults = 1
PROPERTIES AlertMeansNoOrder
