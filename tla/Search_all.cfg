CONSTANTS
    n1 = n1
    n2 = n2
    n3 = n3
    o1 = o1
    t1 = t1
    t2 = t2
    t3 = t3
    MaxInt = 7
    Callers = {"u"}
    Kinds = {"none", "exact", "semantic"}
    TagLists <- MCTagLists
    Pages = {0, 1, 7}
    Limits = {1, 3}
    MinLimit = 1
    MaxLimit = 3
    Notes <- MCNotes
    Owner <- MCOwner
    Stored <- MCStored
    StoredTime <- MCStoredTime
    Matching <- MCStored
    Tags = {t1, t2, t3}
    TagName <- MCTagName
    StoredLinks <- MCStoredLinks
    Launch = 3
    MaxTime = 5
SPECIFICATION Spec
INVARIANTS
    TypeOK
    OwnNotesOnly
    NoSkippedNote
PROPERTIES
    OnlyWithAllNames
    PageAsAsked
