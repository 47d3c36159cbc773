SPECIFICATION FairSpec
CONSTANTS
    h1 = h1
    s1 = s1
    u1 = u1
    u2 = u2
    x1 = x1
    Subjects = {s1}
    UserIds = {u1, u2}
    Hashes = {x1}
    Handlers = {h1}
    NoSubject = NoSubject
    NoUser = NoUser
    NoHash = NoHash
    MaxSessions = 2
    MaxFaults = 1
PROPERTIES DeletionCompletes
