CONSTANTS
    alice = alice
    bob = bob
    p1 = p1
    p2 = p2
    None = None
    OldUser = OldUser
    Reqs = {1, 2, 3}
    Names <- MCNames
    Passwords <- MCPasswords
    MaxInt = 3
    Pages = {1, 2, 3}
    Limit = 2
    Asked <- MCAsked
    OldName <- MCOldName
    OldPassword <- MCOldPassword
    Lifetime = 2
    Launch = 3
    MaxTime = 4
SPECIFICATION Spec
INVARIANTS
    TypeOK
    OneAccountPerName
    RegisteredCanLogin
    OwnHistoryOnly
    NoGapBetweenPages
