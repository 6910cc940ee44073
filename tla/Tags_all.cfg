CONSTANTS
    n1 = n1
    n2 = n2
    t1 = t1
    None = None
    Reqs = {1, 2, 3}
    Ops = {"create", "add", "remove", "note_delete"}
    Notes = {n1, n2}
    Stored <- MCStored
    StoredName <- MCStoredName
    StoredLinks <- MCStoredLinks
    Names <- MCNames
SPECIFICATION FairSpec
INVARIANTS
    TypeOK
    NoDanglingLink
    AtMostOneAdder
PROPERTIES
    TagGoesWithLastLink
    AtomicLinks
    EveryRequestAnswered
