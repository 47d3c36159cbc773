SPECIFICATION Spec
CONSTANTS
    c1 = c1
    c2 = c2
    h1 = h1
    h2 = h2
    o1 = o1
    o2 = o2
    o3 = o3
    Checkouts = {c1, c2}
    OrderIds = {o1, o2, o3}
    Handlers = {h1, h2}
    SuccessStates = {"confirmed"}
    OtherStates = {"rejected"}
    NoCheckout = NoCheckout
    NoMessage = NoMessage
    NoOrder = NoOrder
    Faults <- AllFaults
    MaxFaults = 3
SYMMETRY Symmetric
INVARIANTS TypeOK ClaimIsExclusive SettledIsPaid OrderOnlyWhenConfirmed
PROPERTIES ProgressIsKept ImplementsSettlement
