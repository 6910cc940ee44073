------------------------------ MODULE RowStore ------------------------------
(***************************************************************************)
(* What the tables of the notes promise to the handlers: rows that form   *)
(* trees, an INSERT that happens at once and only below a row that is     *)
(* there, a DELETE that happens at once and takes everything below along. *)
(* NoteSync implements it with one step for each statement, Timestamps    *)
(* with the locks and triggers that a statement goes through.              *)
(***************************************************************************)

CONSTANTS Ids, None

VARIABLES
    status,     \* of each row: not inserted yet, live, or deleted
    parent      \* the row its foreign key names

vars == <<status, parent>>

Live(x) == x # None /\ status[x] = "live"

Children(x) == {y \in Ids : status[y] = "live" /\ parent[y] = x}

(* No row lies deeper than two levels below another one.                   *)
Below(x) == Children(x) \cup UNION {Children(y) : y \in Children(x)}

Init ==
    /\ status \in [Ids -> {"free", "live"}]
    /\ parent \in [Ids -> Ids \cup {None}]
    /\ \A x \in Ids : Live(x) /\ parent[x] # None => Live(parent[x])

Insert(x, p) ==
    /\ status[x] = "free"
    /\ p = None \/ Live(p)
    /\ status' = [status EXCEPT ![x] = "live"]
    /\ parent' = [parent EXCEPT ![x] = p]

Delete(x) ==
    /\ Live(x)
    /\ status' = [y \in Ids |-> IF y \in {x} \cup Below(x) THEN "gone" ELSE status[y]]
    /\ UNCHANGED parent

Next == \E x \in Ids : Delete(x) \/ \E p \in Ids \cup {None} : Insert(x, p)

Spec == Init /\ [][Next]_vars

=============================================================================
