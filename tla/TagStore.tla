------------------------------ MODULE TagStore ------------------------------
(***************************************************************************)
(* What the tables of the tags promise to the handlers: links join notes  *)
(* and tags that are there; a link is inserted and removed at once, a note *)
(* goes at once with all its links; a tag is never inserted twice, and it  *)
(* may only go in the step that takes its last link.  Tags implements it  *)
(* with transactions that overlap, wait for each other's rows and fail.    *)
(***************************************************************************)

CONSTANTS NoteIds, TagIds

VARIABLES
    notes,      \* the notes that are there
    tags,       \* the tags that are there
    past,       \* the tags that were there
    links       \* which note has which tag

vars == <<notes, tags, past, links>>

Tagged(L, t) == \E n \in NoteIds : <<n, t>> \in L

Consistent ==
    /\ links \subseteq notes \X tags
    /\ tags \cap past = {}

Init ==
    /\ notes \in SUBSET NoteIds
    /\ tags \in SUBSET TagIds
    /\ past = {}
    /\ links \in SUBSET (notes \X tags)

Insert(t) ==
    /\ t \notin tags \cup past
    /\ tags' = tags \cup {t}
    /\ UNCHANGED <<notes, past, links>>

Link(n, t) ==
    /\ n \in notes /\ t \in tags /\ <<n, t>> \notin links
    /\ links' = links \cup {<<n, t>>}
    /\ UNCHANGED <<notes, tags, past>>

(* The tags of D go with the links of L, which were their last ones.      *)
Drop(L, D) ==
    /\ L \subseteq links
    /\ \A t \in D : Tagged(L, t) /\ ~Tagged(links \ L, t)
    /\ links' = links \ L
    /\ tags' = tags \ D
    /\ past' = past \cup D

Unlink(n, t) ==
    /\ <<n, t>> \in links
    /\ \E D \in SUBSET TagIds : Drop({<<n, t>>}, D)
    /\ UNCHANGED notes

DropNote(n) ==
    /\ n \in notes
    /\ \E D \in SUBSET TagIds : Drop({l \in links : l[1] = n}, D)
    /\ notes' = notes \ {n}

Next ==
    \/ \E t \in TagIds : Insert(t)
    \/ \E n \in NoteIds, t \in TagIds : Link(n, t) \/ Unlink(n, t)
    \/ \E n \in NoteIds : DropNote(n)

Spec == Init /\ [][Next]_vars

=============================================================================
