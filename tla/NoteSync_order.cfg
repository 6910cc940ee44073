CONSTANTS
    n1 = n1
    c1 = c1
    i1 = i1
    None = None
    r1 = r1
    r2 = r2
    Reqs = {r1, r2}
    Ops = {"note_patch"}
    Stored <- MCStored
    StoredTable <- MCStoredTable
    StoredParent <- MCStoredParent
SPECIFICATION Spec
PROPERTY IndexNeverGoesBack
