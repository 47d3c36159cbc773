SPECIFICATION Spec
CONSTANTS
    h1 = h1
    h2 = h2
    s1 = s1
    s2 = s2
    u1 = u1
    u2 = u2
    u3 = u3
    x1 = x1
    Subjects = {s1, s2}
    UserIds = {u1, u2, u3}
    Hashes = {x1}
    Handlers = {h1, h2}
    NoSubject = NoSubject
    NoUser = NoUser
    NoHash = NoHash
    MaxSessions = 2
    MaxFaults = 1
SYMMETRY Symmetry
INVARIANTS TypeOK ResolvesToOneUser HashIsSingleUse ConsumedIsSignedIn UserIsCustomer RefreshStaysInAccount
PROPERTIES GoneStaysGone
