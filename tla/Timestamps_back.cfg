CONSTANTS
    n1 = n1
    c1 = c1
    i1 = i1
    a1 = a1
    None = None
    Reqs = {1}
    Ops = {"note_patch", "note_delete", "checklist_post", "checklist_patch", "checklist_delete", "item_post", "item_patch", "item_delete", "attachment_post", "attachment_delete"}
    Stored <- MCStored
    StoredTable <- MCStoredTable
    StoredParent <- MCStoredParent
    StoredTime <- MCStoredTime
    Launch = 3
SPECIFICATION Spec
PROPERTY NoTimeGoesBack
