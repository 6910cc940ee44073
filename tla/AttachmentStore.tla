--------------------------- MODULE AttachmentStore ---------------------------
(***************************************************************************)
(* What the attachments promise, of which each is a row and a file: the    *)
(* file is there, and was written to its end, before the row is; it keeps  *)
(* its contents, and is removed only once somebody has asked to delete the *)
(* attachment or its note; the row goes after its file, or with the note.  *)
(* Attachments implements it with handlers that stop half-way.             *)
(***************************************************************************)

CONSTANTS Notes, Atts, None

VARIABLES
    note,       \* of each note: live or gone
    row,        \* of each attachment: not inserted yet, live or gone
    owner,      \* the note of each attachment that was inserted
    file,       \* what there is of its file
    asked       \* the notes and attachments that clients asked to delete

vars == <<note, row, owner, file, asked>>

Init ==
    /\ note \in [Notes -> {"live"}]
    /\ row \in [Atts -> {"free", "live"}]
    /\ owner \in [Atts -> Notes \cup {None}]
    /\ file \in [Atts -> {"absent", "whole"}]
    /\ asked = {}

(* A file may be cut short, or broken off.                                 *)
Save(a) ==
    /\ row[a] = "free" /\ file[a] = "absent"
    /\ \E f \in {"whole", "short", "broken"} : file' = [file EXCEPT ![a] = f]
    /\ UNCHANGED <<note, row, owner, asked>>

Insert(a, n) ==
    /\ row[a] = "free" /\ file[a] \in {"whole", "short"} /\ note[n] = "live"
    /\ row' = [row EXCEPT ![a] = "live"]
    /\ owner' = [owner EXCEPT ![a] = n]
    /\ UNCHANGED <<note, file, asked>>

Ask(x, there) ==
    /\ there[x] = "live"
    /\ asked' = asked \cup {x}
    /\ UNCHANGED <<note, row, owner, file>>

Unlink(a) ==
    /\ row[a] # "free" /\ (a \in asked \/ owner[a] \in asked)
    /\ file' = [file EXCEPT ![a] = "absent"]
    /\ UNCHANGED <<note, row, owner, asked>>

Drop(a) ==
    /\ row[a] = "live" /\ a \in asked /\ file[a] = "absent"
    /\ row' = [row EXCEPT ![a] = "gone"]
    /\ UNCHANGED <<note, owner, file, asked>>

DropNote(n) ==
    /\ note[n] = "live" /\ n \in asked
    /\ note' = [note EXCEPT ![n] = "gone"]
    /\ row' = [a \in Atts |-> IF row[a] = "live" /\ owner[a] = n THEN "gone" ELSE row[a]]
    /\ UNCHANGED <<owner, file, asked>>

Next ==
    \/ \E a \in Atts : \/ Save(a) \/ Unlink(a) \/ Drop(a) \/ Ask(a, row)
                       \/ \E n \in Notes : Insert(a, n)
    \/ \E n \in Notes : Ask(n, note) \/ DropNote(n)

Spec == Init /\ [][Next]_vars

=============================================================================
