--------------------------- MODULE MCAttachments ---------------------------
(* Instances of Attachments: two notes; the first has an attachment and    *)
(* one whose file is missing, as in the data of the functional tests, the  *)
(* second has an attachment.                                               *)
EXTENDS Attachments, TLC

CONSTANTS n1, n2, a1, a2, a3

MCStored == {a1, a2, a3}

MCStoredNote == a1 :> n1 @@ a2 :> n1 @@ a3 :> n2

MCStoredFile == a1 :> "whole" @@ a2 :> "absent" @@ a3 :> "whole"

=============================================================================
