CONSTANTS
    n1 = n1
    n2 = n2
    t1 = t1
    None = None
    Reqs = {1, 2}
    Ops = {"create"}
    Notes = {n1, n2}
    Stored <- MCStored
    StoredName <- MCStoredName
    StoredLinks <- MCStoredLinks
    Names <- MCNames
SPECIFICATION Spec
INVARIANT TagNamesUnique
