SPECIFICATION Spec
CONSTANTS
    c1 = c1
    k1 = k1
    k2 = k2
    w1 = w1
    q1 = q1
    q2 = q2
    Checkouts = {c1}
    NoCheckout = NoCheckout
    Clients = {k1, k2}
    Workers = {w1}
    Polls = {q1, q2}
    Nobody = Nobody
    PageSize = 1
    MaxRows = 2
    Faults = {"claim", "insert", "lost", "release", "crash"}
SYMMETRY Symmetric
INVARIANTS TypeOK OneRequestPerCheckout AtMostOnce
PROPERTIES ImplementsOutbox
