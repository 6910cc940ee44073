---------------------------- MODULE MCTimestamps ----------------------------
(* An instance of Timestamps: a note with a checklist of one item and an   *)
(* attachment.  The item is older than the title of the checklist.          *)
EXTENDS Timestamps, TLC

CONSTANTS n1, c1, i1, a1

MCStored == {n1, c1, i1, a1}

MCStoredTable ==
    n1 :> "notes" @@ c1 :> "checklists" @@ i1 :> "checklist_items" @@ a1 :> "attachments"

MCStoredParent == n1 :> None @@ c1 :> n1 @@ i1 :> c1 @@ a1 :> n1

MCStoredTime == n1 :> 2 @@ c1 :> 2 @@ i1 :> 1 @@ a1 :> 1

=============================================================================
