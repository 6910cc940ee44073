---------------------------- MODULE Attachments ----------------------------
(***************************************************************************)
(* Attachments: a row in the database and a file in the directory          *)
(* attachments/, kept in step by four handlers and by the detached task    *)
(* that DELETE /notes/{id} starts to remove the files of the note.         *)
(*                                                                         *)
(* The step of a request is one statement or one call of FileManager.      *)
(* A file is absent, whole, cut short although SaveFile returned (the      *)
(* result of close() is not looked at), or left behind by a SaveFile that  *)
(* threw.  Random file names are taken to be distinct.                     *)
(***************************************************************************)
EXTENDS Naturals, Sequences, FiniteSets

CONSTANTS
    Reqs,           \* the requests that clients may send
    Ops,            \* the handlers they call
    Notes,          \* the notes in the database when the run starts
    Stored,         \* the attachments in the database when the run starts
    StoredNote,     \* the note of each of them
    StoredFile,     \* whether its file is there
    MaxRetries,     \* of tryDeleteFile
    None

AllOps == {"upload", "download", "remove", "note_delete"}

(* An upload's row and file carry the name of the request: ids come from  *)
(* SERIAL and file names from a random generator.                          *)
Atts == Stored \cup Reqs

ASSUME OpsAssumption == Ops \subseteq AllOps

ASSUME IdsAssumption ==
    Stored \cap Reqs = {} /\ Notes \cap Atts = {} /\ None \notin Atts \cup Notes

ASSUME StoredAssumption ==
    StoredNote \in [Stored -> Notes] /\ StoredFile \in [Stored -> {"whole", "absent"}]

ASSUME RetriesAssumption == MaxRetries \in Nat \ {0}

VARIABLES
    noteRow,    \* of each note: live or gone
    row,        \* of each attachment: not inserted yet, live or gone
    file,       \* of each attachment: what the directory holds for it
    job,        \* of each request: handler and path argument
    pc,         \* the step it executes next; 0 before it is received
    answer,     \* how it was answered
    got,        \* the contents a download returned
    cleaner     \* the detached deleteAttachments of a note_delete

fsVars == <<file, cleaner>>
dbVars == <<noteRow, row>>
vars   == <<noteRow, row, file, job, pc, answer, got, cleaner>>

-----------------------------------------------------------------------------
(* Each handler is the sequence of its steps.                              *)

UploadInsertsFirst == <<"find_note", "insert", "save">>

Upload == <<"find_note", "save", "insert">>

Download == <<"find", "read">>

RemoveDropsFirst == <<"find", "drop", "unlink">>

Remove == <<"find", "unlink", "drop">>

NoteDeleteListsLate == <<"find_note", "drop_note", "list">>

NoteDelete == <<"find_note", "list", "drop_note">>

Program(op) ==
    CASE op = "upload"      -> Upload
      [] op = "download"    -> Download
      [] op = "remove"      -> Remove
      [] op = "note_delete" -> NoteDelete

NoJob == [op |-> "none", target |-> None]

NoCleaner == [state |-> "none", left |-> {}, failed |-> {}, cur |-> None, attempt |-> 0]

Running(r) == pc[r] # 0 /\ answer[r] = "none"

Step(r) == Program(job[r].op)[pc[r]]

At(r, step) == Running(r) /\ Step(r) = step

NoteOf(a) == IF a \in Stored THEN StoredNote[a] ELSE job[a].target

AttachmentsOf(n) == {a \in Atts : row[a] = "live" /\ NoteOf(a) = n}

Answer(r, code) == answer' = [answer EXCEPT ![r] = code] /\ UNCHANGED pc

Advance(r) ==
    /\ pc' = [pc EXCEPT ![r] = @ + 1]
    /\ answer' = IF pc[r] = Len(Program(job[r].op))
                 THEN [answer EXCEPT ![r] = "ok"] ELSE answer

(* A committed statement whose reply does not arrive in time throws too.  *)
AdvanceOrThrow(r) == Advance(r) \/ Answer(r, "500")

-----------------------------------------------------------------------------
(* The steps of a request.                                                 *)

Receive(r) ==
    /\ pc[r] = 0
    /\ answer[r] = "none"
    /\ \E op \in Ops :
       \E x \in IF op \in {"upload", "note_delete"} THEN Notes ELSE {a \in Atts : row[a] # "free"} :
          job' = [job EXCEPT ![r] = [op |-> op, target |-> x]]
    /\ pc' = [pc EXCEPT ![r] = 1]
    /\ UNCHANGED <<dbVars, fsVars, answer, got>>

FindNote(r) ==
    /\ At(r, "find_note")
    /\ IF noteRow[job[r].target] = "live" THEN Advance(r) ELSE Answer(r, "404")
    /\ UNCHANGED <<dbVars, fsVars, job, got>>

Find(r) ==
    /\ At(r, "find")
    /\ IF row[job[r].target] = "live" THEN Advance(r) ELSE Answer(r, "404")
    /\ UNCHANGED <<dbVars, fsVars, job, got>>

SaveUnchecked(f) == f # "absent"

(* The outcomes of SaveFile that let the handler go on to its INSERT.     *)
SaveReturns(f) == f \in {"whole", "short"}

SaveFile(r) ==
    /\ At(r, "save")
    /\ \E f \in {"whole", "short", "broken", "absent"} :
          /\ file' = [file EXCEPT ![r] = f]
          /\ IF SaveReturns(f) THEN Advance(r) ELSE Answer(r, "500")
    /\ UNCHANGED <<dbVars, job, got, cleaner>>

(* fk_attachments_note is checked by the INSERT.                           *)
ForeignKeyHolds(n) == noteRow[n] = "live"

InsertRow(r) ==
    /\ At(r, "insert")
    /\ IF ForeignKeyHolds(job[r].target)
       THEN row' = [row EXCEPT ![r] = "live"] /\ AdvanceOrThrow(r)
       ELSE UNCHANGED row /\ Answer(r, "500")
    /\ UNCHANGED <<noteRow, fsVars, job, got>>

ReadFile(r) ==
    /\ At(r, "read")
    /\ \/ /\ file[job[r].target] # "absent"
          /\ got' = [got EXCEPT ![r] = file[job[r].target]]
          /\ Advance(r)
       \/ Answer(r, "500") /\ UNCHANGED got
    /\ UNCHANGED <<dbVars, fsVars, job>>

UnlinkTolerant(a) == TRUE

(* DeleteFile throws when there was no file to remove.                     *)
Unlinks(a) == file[a] # "absent"

UnlinkInsists(r) ==
    /\ At(r, "unlink")
    /\ Unlinks(job[r].target)
    /\ file' = [file EXCEPT ![job[r].target] = "absent"]
    /\ Advance(r)
    /\ UNCHANGED <<dbVars, job, got, cleaner>>

Unlink(r) ==
    /\ At(r, "unlink")
    /\ \/ /\ Unlinks(job[r].target)
          /\ file' = [file EXCEPT ![job[r].target] = "absent"]
          /\ Advance(r)
       \/ Answer(r, "500") /\ UNCHANGED file
    /\ UNCHANGED <<dbVars, job, got, cleaner>>

DropRow(r) ==
    /\ At(r, "drop")
    /\ row' = [row EXCEPT ![job[r].target] = IF @ = "live" THEN "gone" ELSE @]
    /\ AdvanceOrThrow(r)
    /\ UNCHANGED <<noteRow, fsVars, job, got>>

(* The file names are read and the cleaning task is started, before the   *)
(* note is deleted.                                                        *)
ListFiles(r) ==
    /\ At(r, "list")
    /\ cleaner' = [cleaner EXCEPT ![r] =
          [NoCleaner EXCEPT !.state = "running", !.left = AttachmentsOf(job[r].target)]]
    /\ Advance(r)
    /\ UNCHANGED <<dbVars, file, job, got>>

(* The rows that go with a note: ON DELETE CASCADE.                        *)
Cascade(n) == AttachmentsOf(n)

DropNote(r) ==
    /\ At(r, "drop_note")
    /\ noteRow' = [noteRow EXCEPT ![job[r].target] = "gone"]
    /\ row' = [a \in Atts |-> IF a \in Cascade(job[r].target) THEN "gone" ELSE row[a]]
    /\ AdvanceOrThrow(r)
    /\ UNCHANGED <<fsVars, job, got>>

(* Any statement may fail without an effect: time limit, lost connection. *)
Throw(r) ==
    /\ Running(r)
    /\ Step(r) \notin {"save", "read", "unlink"}
    /\ Answer(r, "500")
    /\ UNCHANGED <<dbVars, fsVars, job, got>>

Serve(r) ==
    \/ FindNote(r) \/ Find(r) \/ SaveFile(r) \/ InsertRow(r) \/ ReadFile(r)
    \/ Unlink(r) \/ DropRow(r) \/ ListFiles(r) \/ DropNote(r)

-----------------------------------------------------------------------------
(* deleteAttachments: one file after the other, each tried MaxRetries      *)
(* times with a pause between.                                             *)

Cleaning(r) == cleaner[r].state = "running"

CleanNext(r) ==
    /\ Cleaning(r)
    /\ cleaner[r].cur = None
    /\ \E a \in cleaner[r].left :
          cleaner' = IF file[a] = "absent"
                     THEN [cleaner EXCEPT ![r].left = @ \ {a}]
                     ELSE [cleaner EXCEPT ![r].cur = a, ![r].attempt = 0]
    /\ UNCHANGED <<dbVars, file, job, pc, answer, got>>

CleanTrySucceeds(r) ==
    /\ Cleaning(r)
    /\ cleaner[r].cur # None
    /\ file[cleaner[r].cur] # "absent"
    /\ file' = [file EXCEPT ![cleaner[r].cur] = "absent"]
    /\ cleaner' = [cleaner EXCEPT ![r].left = @ \ {cleaner[r].cur}, ![r].cur = None]
    /\ UNCHANGED <<dbVars, job, pc, answer, got>>

NextAttemptForgotten(k) == k

NextAttemptTwice(k) == k + 2

NextAttempt(k) == k + 1

(* remove() throws, or returns false because the file is gone by now.     *)
CleanTryFails(r) ==
    /\ Cleaning(r)
    /\ cleaner[r].cur # None
    /\ cleaner' = IF NextAttempt(cleaner[r].attempt) = MaxRetries
                  THEN [cleaner EXCEPT ![r].left = @ \ {cleaner[r].cur},
                                       ![r].failed = @ \cup {cleaner[r].cur}, ![r].cur = None]
                  ELSE [cleaner EXCEPT ![r].attempt = NextAttempt(@)]
    /\ UNCHANGED <<dbVars, file, job, pc, answer, got>>

CleanEnds(r) ==
    /\ Cleaning(r)
    /\ cleaner[r].left = {}
    /\ cleaner' = [cleaner EXCEPT ![r].state = "done"]
    /\ UNCHANGED <<dbVars, file, job, pc, answer, got>>

(* exists() is outside the try block: its error ends the task.            *)
CleanDies(r) ==
    /\ Cleaning(r)
    /\ cleaner[r].cur = None
    /\ cleaner[r].left # {}
    /\ cleaner' = [cleaner EXCEPT ![r].state = "lost"]
    /\ UNCHANGED <<dbVars, file, job, pc, answer, got>>

Clean(r) == CleanNext(r) \/ CleanTrySucceeds(r) \/ CleanTryFails(r) \/ CleanEnds(r)

(* Requests in progress and cleaning tasks go with the process; rows and  *)
(* files stay.                                                             *)
Restart ==
    /\ \E r \in Reqs : Running(r) \/ Cleaning(r)
    /\ answer' = [r \in Reqs |-> IF Running(r) THEN "lost" ELSE answer[r]]
    /\ cleaner' = [r \in Reqs |-> IF Cleaning(r) THEN [cleaner[r] EXCEPT !.state = "lost"]
                                                 ELSE cleaner[r]]
    /\ UNCHANGED <<dbVars, file, job, pc, got>>

Quiescent == \A r \in Reqs : ~Running(r) /\ ~Cleaning(r)

Rest == Quiescent /\ (\A r \in Reqs : pc[r] # 0) /\ UNCHANGED vars

Init ==
    /\ noteRow = [n \in Notes |-> "live"]
    /\ row = [a \in Atts |-> IF a \in Stored THEN "live" ELSE "free"]
    /\ file = [a \in Atts |-> IF a \in Stored THEN StoredFile[a] ELSE "absent"]
    /\ job = [r \in Reqs |-> NoJob]
    /\ pc = [r \in Reqs |-> 0]
    /\ answer = [r \in Reqs |-> "none"]
    /\ got = [r \in Reqs |-> "nothing"]
    /\ cleaner = [r \in Reqs |-> NoCleaner]

Next ==
    \/ \E r \in Reqs : Receive(r) \/ Serve(r) \/ Throw(r) \/ Clean(r) \/ CleanDies(r)
    \/ Restart
    \/ Rest

Spec == Init /\ [][Next]_vars

(* Coroutines are scheduled, statements and file operations end, and the  *)
(* pause between two attempts is one second.                               *)
Fairness == \A r \in Reqs : WF_vars(Serve(r)) /\ WF_vars(Clean(r))

FairSpec == Spec /\ Fairness

-----------------------------------------------------------------------------
(* Properties.                                                             *)

(* Every variable has its type, and no file is tried more than MaxRetries *)
(* times (tryDeleteFile).                                                  *)
TypeOK ==
    /\ noteRow \in [Notes -> {"live", "gone"}]
    /\ row \in [Atts -> {"free", "live", "gone"}]
    /\ file \in [Atts -> {"absent", "whole", "short", "broken"}]
    /\ job \in [Reqs -> [op : AllOps \cup {"none"}, target : Notes \cup Atts \cup {None}]]
    /\ pc \in [Reqs -> 0 .. 4]
    /\ answer \in [Reqs -> {"none", "ok", "404", "500", "lost"}]
    /\ got \in [Reqs -> {"nothing", "whole", "short", "broken"}]
    /\ cleaner \in [Reqs -> [state : {"none", "running", "done", "lost"},
                             left : SUBSET Atts, failed : SUBSET Atts,
                             cur : Atts \cup {None}, attempt : 0 .. MaxRetries - 1]]

Promised(a) == IF a \in Stored THEN StoredFile[a] = "whole" ELSE row[a] # "free"

AskedToDrop(a) ==
    \E r \in Reqs :
        /\ pc[r] >= 3
        /\ \/ job[r].op = "remove" /\ job[r].target = a
           \/ job[r].op = "note_delete" /\ job[r].target = NoteOf(a)

(* An attachment loses its row or its file only when a client asked to    *)
(* delete it or its note: uploads put the file in place before the row,    *)
(* and no cleaning task reaches a file of another note, whatever crashes.  *)
NothingLostUnasked ==
    \A a \in Atts :
        Promised(a) /\ (row[a] = "gone" \/ file[a] = "absent") => AskedToDrop(a)

(* Of all the requests to delete one attachment at most one is answered   *)
(* 200: the removal of the file decides between concurrent ones.           *)
AtMostOneRemover ==
    \A q, r \in Reqs :
        /\ job[q].op = "remove" /\ answer[q] = "ok"
        /\ job[r].op = "remove" /\ answer[r] = "ok"
        /\ job[q].target = job[r].target
        => q = r

(* A download never returns what a failed SaveFile left in the directory. *)
NoBrokenServed == \A r \in Reqs : got[r] # "broken"

(* Every request went well and every cleaning task did all its work.      *)
AllWentWell ==
    /\ Quiescent
    /\ \A r \in Reqs : answer[r] \in {"none", "ok", "404"}
    /\ \A r \in Reqs : cleaner[r].state # "lost" /\ cleaner[r].failed = {}

(* The attachments of deleted notes whose files are still there.           *)
FilesLeft ==
    {a \in Atts : row[a] # "free" /\ noteRow[NoteOf(a)] = "gone" /\ file[a] # "absent"}

(* When all went well, no file that belonged to a note before the requests *)
(* is left once the note is deleted, whatever else is uploaded or removed  *)
(* while note_delete lists the files, deletes the note and cleans up.      *)
StoredFilesFollowNote == AllWentWell => FilesLeft \cap Stored = {}

(* When all went well, no file of a deleted note is left, not even one     *)
(* that was uploaded meanwhile (db_1.sql:199-200).                         *)
FilesFollowNote == AllWentWell => FilesLeft = {}

(* The attachments and notes that a handler was asked to delete and found. *)
Asked ==
    {job[r].target : r \in {q \in Reqs : job[q].op \in {"remove", "note_delete"} /\ pc[q] >= 2}}

Store == INSTANCE AttachmentStore WITH
    note  <- noteRow,
    owner <- [a \in Atts |-> IF row[a] = "free" THEN None ELSE NoteOf(a)],
    asked <- Asked

(* However handlers and cleaning tasks interleave, fail and stop half-way, *)
(* row and file of an attachment go through its life in the one order: the *)
(* file, its row, a client's wish, the file, the row.                      *)
AttachmentLife == Store!Spec

(* Every request that is received is answered, or lost with the process.  *)
EveryRequestAnswered == \A r \in Reqs : (pc[r] # 0) ~> (answer[r] # "none")

(* Every cleaning task comes to an end, also when files cannot be removed. *)
EveryCleanerEnds == \A r \in Reqs : Cleaning(r) ~> ~Cleaning(r)

=============================================================================
