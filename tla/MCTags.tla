------------------------------- MODULE MCTags -------------------------------
(* Instances of Tags: two notes share one tag.                             *)
EXTENDS Tags, TLC

CONSTANTS n1, n2, t1

MCStored == {t1}

MCStoredName == t1 :> "work"

MCStoredLinks == {<<n1, t1>>, <<n2, t1>>}

MCNames == {"work", "new"}

=============================================================================
