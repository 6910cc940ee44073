----------------------------- MODULE MCNoteSync -----------------------------
(* Instances of NoteSync: the database holds one note with one checklist  *)
(* of one item.                                                            *)
EXTENDS NoteSync, TLC

CONSTANTS n1, c1, i1

MCStored == {n1, c1, i1}

MCStoredTable ==
    n1 :> "notes" @@ c1 :> "checklists" @@ i1 :> "checklist_items"

MCStoredParent == n1 :> None @@ c1 :> n1 @@ i1 :> c1

=============================================================================
