CONSTANTS
    n1 = n1
    c1 = c1
    i1 = i1
    None = None
    r1 = r1
    r2 = r2
    Reqs = {r1, r2}
    Ops = {"note_post", "note_patch", "note_delete", "checklist_post", "checklist_patch", "checklist_delete", "item_post", "item_patch", "item_delete"}
    Stored <- MCStored
    StoredTable <- MCStoredTable
    StoredParent <- MCStoredParent
SPECIFICATION Spec
INVARIANT FreshTextSent
