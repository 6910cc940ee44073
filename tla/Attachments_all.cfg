CONSTANTS
    n1 = n1
    n2 = n2
    a1 = a1
    a2 = a2
    a3 = a3
    None = None
    r1 = r1
    r2 = r2
    Reqs = {r1, r2}
    Ops = {"upload", "download", "remove", "note_delete"}
    Notes = {n1, n2}
    Stored <- MCStored
    StoredNote <- MCStoredNote
    StoredFile <- MCStoredFile
    MaxRetries = 3
SPECIFICATION FairSpec
INVARIANTS
    TypeOK
    NothingLostUnasked
    AtMostOneRemover
    NoBrokenServed
    StoredFilesFollowNote
PROPERTIES
    AttachmentLife
    EveryRequestAnswered
    EveryCleanerEnds
