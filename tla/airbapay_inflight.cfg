SPECIFICATION FairSpec
CONSTANTS
    c1 = c1
    h1 = h1
    h2 = h2
    o1 = o1
    Checkouts = {c1}
    OrderIds = {o1}
    Handlers = {h1, h2}
    SuccessStates = {"confirmed"}
    OtherStates = {}
    NoCheckout = NoCheckout
    NoMessage = NoMessage
    NoOrder = NoOrder
    Faults <- Crashes
    MaxFaults = 1
PROPERTIES ClaimIsResolved
