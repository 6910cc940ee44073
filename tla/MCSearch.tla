------------------------------ MODULE MCSearch ------------------------------
(* Instances of Search: three notes of one user and one of another; two    *)
(* tags have the same name.                                                *)
EXTENDS Search, TLC

CONSTANTS n1, n2, n3, o1, t1, t2, t3

MCStored == {n1, n2, o1}

MCNotes == {n1, n2, n3, o1}

MCOwner == [n \in MCNotes |-> IF n = o1 THEN "v" ELSE "u"]

MCStoredTime == n1 :> 1 @@ n2 :> 3 @@ o1 :> 2

MCTagName == t1 :> "work" @@ t2 :> "work" @@ t3 :> "home"

MCStoredLinks == {<<n1, t1>>, <<n1, t2>>, <<n2, t1>>}

MCTagLists == {<< >>, <<"work", "home">>, <<"work", "work">>}

=============================================================================
