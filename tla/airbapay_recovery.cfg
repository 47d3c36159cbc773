SPECIFICATION FairSpec
CONSTANTS
    c1 = c1
    h1 = h1
    h2 = h2
    h3 = h3
    o1 = o1
    Checkouts = {c1}
    OrderIds = {o1}
    Handlers = {h1, h2, h3}
    SuccessStates = {"confirmed", "completed"}
    OtherStates = {}
    NoCheckout = NoCheckout
    NoMessage = NoMessage
    NoOrder = NoOrder
    Faults <- Recoverable
    MaxFaults = 2
INVARIANTS CreatesOnce AckedIsSettled
PROPERTIES ConfirmedIsSettled
