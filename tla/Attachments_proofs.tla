------------------------ MODULE Attachments_proofs ------------------------
(***************************************************************************)
(* Proofs about Attachments for every set of requests, notes, attachments  *)
(* and every number of retries: all the safety properties that its run     *)
(* checks, and that Attachments implements AttachmentStore.                *)
(***************************************************************************)
EXTENDS Attachments, TLAPS

StepNames == {"find_note", "save", "insert", "find", "read", "unlink", "drop", "list", "drop_note"}

Codes == {"404", "500"}

-----------------------------------------------------------------------------
(* The parts of the inductive invariant.                                   *)

(* A request is at a step of its program until it is answered.             *)
AtStep ==
    \A r \in Reqs :
        /\ pc[r] = 0 <=> job[r].op = "none"
        /\ pc[r] # 0 /\ answer[r] = "none" => pc[r] \in DOMAIN Program(job[r].op)

(* The paths name notes, and attachments that were inserted.               *)
Targets ==
    \A r \in Reqs :
        /\ job[r].op \in {"upload", "note_delete"} => job[r].target \in Notes
        /\ job[r].op \in {"download", "remove"} =>
              job[r].target \in Atts /\ row[job[r].target] # "free"

(* The row of an upload is inserted by its last step, after its file.      *)
Uploads ==
    \A r \in Reqs :
        /\ row[r] # "free" => job[r].op = "upload" /\ ~Running(r)
        /\ At(r, "insert") => file[r] \in {"whole", "short"}

(* What a failed SaveFile leaves never gets a row.                         *)
NoBrokenRow == \A a \in Atts : row[a] # "free" => file[a] # "broken"

(* A cleaning task works on attachments of the note of its request.        *)
Cleaners ==
    \A r \in Reqs :
        /\ cleaner[r] # NoCleaner => job[r].op = "note_delete" /\ pc[r] >= 3
        /\ cleaner[r].cur # None => cleaner[r].cur \in cleaner[r].left
        /\ cleaner[r].state \in {"none", "done"} => cleaner[r].left = {}
        /\ \A a \in cleaner[r].left : row[a] # "free" /\ NoteOf(a) = job[r].target

(* A request to remove an attachment goes on only after it has removed    *)
(* the file, and only one does.                                            *)
Unlinked ==
    \A r \in Reqs : job[r].op = "remove" =>
        /\ pc[r] >= 3 => file[job[r].target] = "absent"
        /\ answer[r] = "ok" => pc[r] >= 3
        /\ \A q \in Reqs : /\ q # r /\ job[q].op = "remove" /\ job[q].target = job[r].target
                           /\ pc[q] >= 3
                           => pc[r] < 3

(* An attachment whose file is gone, or is left to the cleaning task of s. *)
CleanedBy(a, s) == file[a] = "absent" \/ a \in cleaner[s].left \cup cleaner[s].failed

(* The cleaning task of a note_delete takes care of all that the note had. *)
Listed ==
    \A a \in Stored, s \in Reqs :
        job[s].op = "note_delete" /\ job[s].target = NoteOf(a) /\ pc[s] >= 3 /\ row[a] = "live"
        => CleanedBy(a, s)

(* No stored attachment loses its row without its file.                    *)
Handled ==
    \A a \in Stored : row[a] = "gone" =>
        file[a] = "absent" \/ \E s \in Reqs : CleanedBy(a, s)

StoredInserted == \A a \in Stored : row[a] # "free"

(* The INSERT of an upload checks the note and the DELETE of a note takes *)
(* its attachments along, so that no order of the two leaves a row of a    *)
(* note that is gone (db_1.sql, fk_attachments_note).                      *)
NoOrphanRow ==
    \A a \in Atts : row[a] = "live" => noteRow[NoteOf(a)] = "live"

IndInv ==
    /\ TypeOK /\ AtStep /\ Targets /\ Uploads /\ NoBrokenRow /\ Cleaners
    /\ NoOrphanRow /\ NothingLostUnasked /\ Unlinked /\ NoBrokenServed
    /\ StoredInserted /\ Listed /\ Handled

-----------------------------------------------------------------------------
(* Lemmas about the programs of the handlers.                              *)

LEMMA ProgramFacts ==
    ASSUME NEW op \in AllOps
    PROVE  LET P == Program(op)
           IN  /\ Len(P) \in 2 .. 3
               /\ DOMAIN P = 1 .. Len(P)
               /\ \A k \in DOMAIN P :
                     /\ P[k] \in StepNames
                     /\ P[k] \in {"save", "insert"} => op = "upload"
                     /\ P[k] = "insert" => k = Len(P)
                     /\ op = "upload" /\ k + 1 = Len(P) => P[k] = "save"
                     /\ P[k] = "find" => op \in {"download", "remove"}
                     /\ P[k] = "find_note" => op \in {"upload", "note_delete"}
                     /\ P[k] = "read" => op = "download"
                     /\ P[k] \in {"unlink", "drop"} => op = "remove"
                     /\ P[k] \in {"list", "drop_note"} => op = "note_delete"
                     /\ P[k] \in {"drop", "drop_note", "insert"} => k = 3
                     /\ P[k] \in {"unlink", "list"} => k = 2
                     /\ op = "remove" => Len(P) = 3 /\ (k = 2 => P[k] = "unlink")
                     /\ op = "note_delete" => (k = 2 => P[k] = "list")
<1> USE DEF AllOps, StepNames, Program
<1>1. CASE op = "upload"
  BY <1>1 DEF Upload
<1>2. CASE op = "download"
  BY <1>2 DEF Download
<1>3. CASE op = "remove"
  BY <1>3 DEF Remove
<1>4. CASE op = "note_delete"
  BY <1>4 DEF NoteDelete
<1> QED
  BY <1>1, <1>2, <1>3, <1>4

LEMMA Inside ==
    ASSUME TypeOK, AtStep, NEW r \in Reqs, Running(r)
    PROVE  /\ job[r].op \in AllOps
           /\ pc[r] \in DOMAIN Program(job[r].op)
           /\ pc[r] \in 1 .. Len(Program(job[r].op))
           /\ Len(Program(job[r].op)) \in 2 .. 3
<1>1. job[r].op \in AllOps /\ pc[r] \in DOMAIN Program(job[r].op)
  BY DEF TypeOK, AtStep, Running
<1> QED
  BY <1>1, ProgramFacts

(* Where a request is when it takes a step.                                *)
LEMMA Where ==
    ASSUME TypeOK, AtStep, NEW r \in Reqs, NEW step \in StepNames, At(r, step)
    PROVE  /\ Running(r) /\ pc[r] \in 1 .. 3
           /\ step \in {"save", "insert"} => job[r].op = "upload"
           /\ step = "insert" => pc[r] = Len(Program(job[r].op))
           /\ step = "find" => job[r].op \in {"download", "remove"}
           /\ step = "read" => job[r].op = "download"
           /\ step \in {"unlink", "drop"} => job[r].op = "remove"
           /\ step \in {"list", "drop_note"} => job[r].op = "note_delete"
           /\ step \in {"drop", "drop_note", "insert"} => pc[r] = 3
           /\ step \in {"unlink", "list"} => pc[r] = 2
BY Inside, ProgramFacts DEF At, Step

-----------------------------------------------------------------------------
(* The program counter, the answer and the job.                            *)

LEMMA ServeMoves ==
    ASSUME NEW r \in Reqs, Serve(r) \/ Throw(r)
    PROVE  /\ job' = job
           /\ Running(r)
           /\ \/ Advance(r)
              \/ \E code \in Codes : Answer(r, code)
<1> USE DEF At, Codes, AdvanceOrThrow
<1>1. CASE FindNote(r) \/ Find(r) \/ SaveFile(r) \/ InsertRow(r) \/ ReadFile(r)
  BY <1>1 DEF FindNote, Find, SaveFile, InsertRow, ReadFile
<1>2. CASE Unlink(r) \/ DropRow(r) \/ ListFiles(r) \/ DropNote(r) \/ Throw(r)
  BY <1>2 DEF Unlink, DropRow, ListFiles, DropNote, Throw
<1> QED
  BY <1>1, <1>2 DEF Serve

LEMMA Moves ==
    ASSUME TypeOK, AtStep, job' = job,
           NEW r \in Reqs, Running(r),
           Advance(r) \/ \E code \in Codes : Answer(r, code)
    PROVE  /\ pc' \in [Reqs -> 0 .. 4]
           /\ answer' \in [Reqs -> {"none", "ok", "404", "500", "lost"}]
           /\ \A q \in Reqs : q # r => pc'[q] = pc[q] /\ answer'[q] = answer[q]
           /\ pc'[r] # 0 /\ pc'[r] >= pc[r]
           /\ answer'[r] = "none" =>
                 /\ pc'[r] = pc[r] + 1
                 /\ pc'[r] \in DOMAIN Program(job[r].op)
                 /\ Advance(r)
           /\ answer'[r] = "ok" =>
                 Advance(r) /\ pc[r] = Len(Program(job[r].op)) /\ pc'[r] = pc[r] + 1
<1> DEFINE P == Program(job[r].op)
<1>1. pc[r] \in 1 .. Len(P) /\ Len(P) \in 2 .. 3 /\ DOMAIN P = 1 .. Len(P)
  BY Inside, ProgramFacts
<1>2. pc \in [Reqs -> 0 .. 4] /\ answer \in [Reqs -> {"none", "ok", "404", "500", "lost"}]
  BY DEF TypeOK
<1>3. answer[r] = "none"
  BY DEF Running
<1>4. CASE Advance(r)
  <2>1. /\ pc' = [pc EXCEPT ![r] = pc[r] + 1]
        /\ answer' = IF pc[r] = Len(P) THEN [answer EXCEPT ![r] = "ok"] ELSE answer
    BY <1>4 DEF Advance
  <2> HIDE DEF P
  <2>2. pc[r] + 1 \in 0 .. 4 /\ pc[r] + 1 # 0 /\ (pc[r] # Len(P) => pc[r] + 1 \in DOMAIN P)
    BY <1>1
  <2>3. answer' \in [Reqs -> {"none", "ok", "404", "500", "lost"}]
    BY <1>2, <2>1
  <2>4. pc' \in [Reqs -> 0 .. 4] /\ pc'[r] = pc[r] + 1 /\ pc'[r] >= pc[r]
    BY <1>1, <1>2, <2>1, <2>2
  <2>5. answer'[r] = "none" => pc[r] # Len(P)
    BY <1>2, <2>1
  <2>6. answer'[r] = "ok" => pc[r] = Len(P)
    BY <1>3, <2>1
  <2>7. \A q \in Reqs : q # r => pc'[q] = pc[q] /\ answer'[q] = answer[q]
    BY <1>2, <2>1
  <2> QED
    BY <1>4, <2>2, <2>3, <2>4, <2>5, <2>6, <2>7 DEF P
<1>5. CASE \E code \in Codes : Answer(r, code)
  <2> PICK code \in Codes : Answer(r, code)
    BY <1>5
  <2>1. pc' = pc /\ answer' = [answer EXCEPT ![r] = code]
    BY DEF Answer
  <2>2. code \notin {"none", "ok"} /\ code \in {"404", "500"}
    BY DEF Codes
  <2>3. pc[r] # 0 /\ pc[r] >= pc[r]
    BY <1>1
  <2> QED
    BY <1>2, <2>1, <2>2, <2>3
<1> QED
  BY <1>4, <1>5

(* A cleaning task touches only itself and the files.                      *)
LEMMA CleanFrame ==
    ASSUME NEW r \in Reqs, Clean(r) \/ CleanDies(r)
    PROVE  UNCHANGED <<noteRow, row, job, pc, answer, got>>
<1> USE DEF dbVars
<1>1. CASE CleanNext(r)
  BY <1>1 DEF CleanNext
<1>2. CASE CleanTrySucceeds(r)
  BY <1>2 DEF CleanTrySucceeds
<1>3. CASE CleanTryFails(r)
  BY <1>3 DEF CleanTryFails
<1>4. CASE CleanEnds(r) \/ CleanDies(r)
  BY <1>4 DEF CleanEnds, CleanDies
<1> QED
  BY <1>1, <1>2, <1>3, <1>4 DEF Clean

(* Every step but the receipt of a request.                                *)
LEMMA JobsFrame ==
    ASSUME [Next]_vars
    PROVE  \/ \E r \in Reqs : Receive(r)
           \/ job' = job
<1>1. ASSUME NEW r \in Reqs, Serve(r) \/ Throw(r)
      PROVE  job' = job
  BY <1>1, ServeMoves
<1>2. ASSUME NEW r \in Reqs, Clean(r) \/ CleanDies(r)
      PROVE  job' = job
  BY <1>2, CleanFrame
<1>3. CASE Restart \/ UNCHANGED vars
  BY <1>3 DEF Restart, vars
<1> QED
  BY <1>1, <1>2, <1>3 DEF Next, Rest

LEMMA JobsKept ==
    ASSUME TypeOK, AtStep, [Next]_vars, NEW r \in Reqs, job[r].op # "none"
    PROVE  job'[r] = job[r]
<1>1. ASSUME NEW q \in Reqs, Receive(q)
      PROVE  job'[r] = job[r]
  <2>1. q # r
    BY <1>1 DEF AtStep, Receive
  <2> QED
    BY <1>1, <2>1 DEF Receive, TypeOK
<1> QED
  BY <1>1, JobsFrame

LEMMA PcGrows ==
    ASSUME TypeOK, AtStep, [Next]_vars, NEW r \in Reqs
    PROVE  pc'[r] >= pc[r]
<1>0. pc[r] \in 0 .. 4
  BY DEF TypeOK
<1>1. ASSUME NEW q \in Reqs, Receive(q)
      PROVE  pc'[r] >= pc[r]
  BY <1>0, <1>1 DEF Receive, TypeOK
<1>2. ASSUME NEW q \in Reqs, Serve(q) \/ Throw(q)
      PROVE  pc'[r] >= pc[r]
  <2>1. q # r => pc'[r] = pc[r]
    BY <1>2, ServeMoves, Moves
  <2>2. q = r => pc'[r] >= pc[r]
    BY <1>2, ServeMoves, Moves
  <2> QED
    BY <1>0, <2>1, <2>2
<1>3. ASSUME NEW q \in Reqs, Clean(q) \/ CleanDies(q)
      PROVE  pc'[r] >= pc[r]
  BY <1>0, <1>3, CleanFrame
<1>4. CASE Restart \/ UNCHANGED vars
  BY <1>0, <1>4 DEF Restart, vars
<1> QED
  BY <1>1, <1>2, <1>3, <1>4 DEF Next, Rest

LEMMA JobsInvariant ==
    ASSUME TypeOK, AtStep, [Next]_vars
    PROVE  /\ AtStep'
           /\ job' \in [Reqs -> [op : AllOps \cup {"none"}, target : Notes \cup Atts \cup {None}]]
           /\ pc' \in [Reqs -> 0 .. 4]
           /\ answer' \in [Reqs -> {"none", "ok", "404", "500", "lost"}]
<1>1. CASE \E r \in Reqs : Receive(r)
  <2> PICK r \in Reqs : Receive(r)
    BY <1>1
  <2>1. PICK op \in Ops, x \in Notes \cup Atts :
          job' = [job EXCEPT ![r] = [op |-> op, target |-> x]]
    BY DEF Receive
  <2>2. op \in AllOps /\ op # "none"
    BY OpsAssumption DEF AllOps
  <2>3. 1 \in DOMAIN Program(op)
    BY <2>2, ProgramFacts
  <2>4. pc' = [pc EXCEPT ![r] = 1] /\ answer' = answer
    BY DEF Receive
  <2> QED
    BY <2>1, <2>2, <2>3, <2>4 DEF AtStep, TypeOK
<1>2. CASE \E r \in Reqs : Serve(r) \/ Throw(r)
  <2> PICK r \in Reqs : Serve(r) \/ Throw(r)
    BY <1>2
  <2>1. job' = job /\ Running(r) /\ job[r].op # "none"
    BY ServeMoves DEF Running, AtStep
  <2> QED
    BY <2>1, ServeMoves, Moves DEF AtStep, TypeOK
<1>3. CASE \E r \in Reqs : Clean(r) \/ CleanDies(r)
  BY <1>3, CleanFrame DEF AtStep, TypeOK
<1>4. CASE Restart
  BY <1>4 DEF Restart, AtStep, TypeOK, Running
<1>5. CASE UNCHANGED vars
  BY <1>5 DEF vars, AtStep, TypeOK
<1> QED
  BY <1>1, <1>2, <1>3, <1>4, <1>5 DEF Next, Rest

-----------------------------------------------------------------------------
(* What a step does to rows, files and cleaning tasks.                    *)

LEMMA RowsFrame ==
    ASSUME [Next]_vars
    PROVE  \/ \E r \in Reqs : InsertRow(r) \/ DropRow(r) \/ DropNote(r)
           \/ UNCHANGED <<noteRow, row>>
<1> USE DEF dbVars
<1>1. ASSUME NEW r \in Reqs, Receive(r) \/ Throw(r)
      PROVE  UNCHANGED <<noteRow, row>>
  BY <1>1 DEF Receive, Throw
<1>2. ASSUME NEW r \in Reqs, Serve(r)
      PROVE  InsertRow(r) \/ DropRow(r) \/ DropNote(r) \/ UNCHANGED <<noteRow, row>>
  BY <1>2 DEF Serve, FindNote, Find, SaveFile, ReadFile, Unlink, ListFiles
<1>3. ASSUME NEW r \in Reqs, Clean(r) \/ CleanDies(r)
      PROVE  UNCHANGED <<noteRow, row>>
  BY <1>3, CleanFrame
<1>4. CASE Restart \/ UNCHANGED vars
  BY <1>4 DEF Restart, vars
<1> QED
  BY <1>1, <1>2, <1>3, <1>4 DEF Next, Rest

LEMMA FilesFrame ==
    ASSUME [Next]_vars
    PROVE  \/ \E r \in Reqs : SaveFile(r) \/ Unlink(r) \/ CleanTrySucceeds(r)
           \/ UNCHANGED file
<1> USE DEF fsVars
<1>1. ASSUME NEW r \in Reqs, Receive(r) \/ Throw(r)
      PROVE  UNCHANGED file
  BY <1>1 DEF Receive, Throw
<1>2. ASSUME NEW r \in Reqs, Serve(r)
      PROVE  SaveFile(r) \/ Unlink(r) \/ UNCHANGED file
  BY <1>2 DEF Serve, FindNote, Find, InsertRow, ReadFile, DropRow, ListFiles, DropNote
<1>3. ASSUME NEW r \in Reqs, Clean(r) \/ CleanDies(r)
      PROVE  CleanTrySucceeds(r) \/ UNCHANGED file
  BY <1>3 DEF Clean, CleanNext, CleanTryFails, CleanEnds, CleanDies
<1>4. CASE Restart \/ UNCHANGED vars
  BY <1>4 DEF Restart, vars
<1> QED
  BY <1>1, <1>2, <1>3, <1>4 DEF Next, Rest

LEMMA CleanersFrame ==
    ASSUME [Next]_vars
    PROVE  \/ \E r \in Reqs : ListFiles(r) \/ Clean(r) \/ CleanDies(r)
           \/ Restart
           \/ UNCHANGED cleaner
<1> USE DEF fsVars
<1>1. ASSUME NEW r \in Reqs, Receive(r) \/ Throw(r)
      PROVE  UNCHANGED cleaner
  BY <1>1 DEF Receive, Throw
<1>2. ASSUME NEW r \in Reqs, Serve(r)
      PROVE  ListFiles(r) \/ UNCHANGED cleaner
  BY <1>2 DEF Serve, FindNote, Find, SaveFile, InsertRow, ReadFile, Unlink, DropRow, DropNote
<1>3. CASE UNCHANGED vars
  BY <1>3 DEF vars
<1> QED
  BY <1>1, <1>2, <1>3 DEF Next, Rest

(* An attachment that was inserted stays so, with its note; a row that is *)
(* gone does not come back.                                                *)
LEMMA RowsKept ==
    ASSUME TypeOK, AtStep, Uploads, [Next]_vars, NEW a \in Atts, row[a] # "free"
    PROVE  /\ row'[a] # "free"
           /\ NoteOf(a)' = NoteOf(a)
           /\ row[a] = "gone" => row'[a] = "gone"
<1>1. ASSUME NEW r \in Reqs, InsertRow(r)
      PROVE  row'[a] = row[a]
  <2>1. Running(r) /\ r # a
    BY <1>1 DEF InsertRow, At, Uploads
  <2> QED
    BY <1>1, <2>1 DEF InsertRow, TypeOK
<1>2. ASSUME NEW r \in Reqs, DropRow(r) \/ DropNote(r)
      PROVE  row'[a] # "free" /\ (row[a] = "gone" => row'[a] = "gone")
  BY <1>2 DEF DropRow, DropNote, Cascade, TypeOK
<1>3. row'[a] # "free" /\ (row[a] = "gone" => row'[a] = "gone")
  BY <1>1, <1>2, RowsFrame
<1>4. NoteOf(a)' = NoteOf(a)
  <2>1. a \notin Stored => a \in Reqs /\ job[a].op # "none"
    BY DEF Atts, Uploads
  <2> QED
    BY <2>1, JobsKept DEF NoteOf
<1> QED
  BY <1>3, <1>4

(* The file of an attachment that was inserted is never written again.    *)
LEMMA FilesKept ==
    ASSUME TypeOK, AtStep, Uploads, [Next]_vars, NEW a \in Atts, row[a] # "free"
    PROVE  file'[a] \in {file[a], "absent"}
<1>1. ASSUME NEW r \in Reqs, SaveFile(r)
      PROVE  file'[a] = file[a]
  <2>1. Running(r) /\ r # a
    BY <1>1 DEF SaveFile, At, Uploads
  <2> QED
    BY <1>1, <2>1 DEF SaveFile, TypeOK
<1>2. ASSUME NEW r \in Reqs, Unlink(r) \/ CleanTrySucceeds(r)
      PROVE  file'[a] \in {file[a], "absent"}
  BY <1>2 DEF Unlink, CleanTrySucceeds, TypeOK
<1> QED
  BY <1>1, <1>2, FilesFrame

LEMMA CleanersType ==
    ASSUME TypeOK, Cleaners, [Next]_vars
    PROVE  cleaner' \in [Reqs -> [state : {"none", "running", "done", "lost"},
                                  left : SUBSET Atts, failed : SUBSET Atts,
                                  cur : Atts \cup {None}, attempt : 0 .. MaxRetries - 1]]
<1> DEFINE C == [state : {"none", "running", "done", "lost"},
                 left : SUBSET Atts, failed : SUBSET Atts,
                 cur : Atts \cup {None}, attempt : 0 .. MaxRetries - 1]
<1>0. cleaner \in [Reqs -> C] /\ 0 \in 0 .. MaxRetries - 1
  BY RetriesAssumption DEF TypeOK
<1>1. ASSUME NEW r \in Reqs, ListFiles(r)
      PROVE  cleaner' \in [Reqs -> C]
  <2>1. cleaner' = [cleaner EXCEPT ![r] =
            [NoCleaner EXCEPT !.state = "running", !.left = AttachmentsOf(job[r].target)]]
    BY <1>1 DEF ListFiles
  <2>2. AttachmentsOf(job[r].target) \in SUBSET Atts
    BY DEF AttachmentsOf
  <2> QED
    BY <1>0, <2>1, <2>2 DEF NoCleaner
<1>2. ASSUME NEW r \in Reqs, CleanNext(r)
      PROVE  cleaner' \in [Reqs -> C]
  <2> PICK a \in cleaner[r].left :
             cleaner' = IF file[a] = "absent"
                        THEN [cleaner EXCEPT ![r].left = @ \ {a}]
                        ELSE [cleaner EXCEPT ![r].cur = a, ![r].attempt = 0]
    BY <1>2 DEF CleanNext
  <2>1. a \in Atts
    BY <1>0
  <2> QED
    BY <1>0, <2>1
<1>3. ASSUME NEW r \in Reqs, CleanTrySucceeds(r)
      PROVE  cleaner' \in [Reqs -> C]
  BY <1>0, <1>3 DEF CleanTrySucceeds
<1>4. ASSUME NEW r \in Reqs, CleanTryFails(r)
      PROVE  cleaner' \in [Reqs -> C]
  <2>1. cleaner[r].cur \in Atts
    BY <1>0, <1>4 DEF CleanTryFails
  <2>2. cleaner[r].attempt \in 0 .. MaxRetries - 1
    BY <1>0
  <2>3. CASE NextAttempt(cleaner[r].attempt) = MaxRetries
    BY <1>0, <1>4, <2>1, <2>3 DEF CleanTryFails
  <2>4. CASE NextAttempt(cleaner[r].attempt) # MaxRetries
    <3>1. NextAttempt(cleaner[r].attempt) \in 0 .. MaxRetries - 1
      BY <2>2, <2>4, RetriesAssumption DEF NextAttempt
    <3>2. cleaner' = [cleaner EXCEPT ![r].attempt = NextAttempt(cleaner[r].attempt)]
      BY <1>4, <2>4 DEF CleanTryFails
    <3> QED
      BY <1>0, <3>1, <3>2
  <2> QED
    BY <2>3, <2>4
<1>5. ASSUME NEW r \in Reqs, CleanEnds(r) \/ CleanDies(r)
      PROVE  cleaner' \in [Reqs -> C]
  BY <1>0, <1>5 DEF CleanEnds, CleanDies
<1>6. CASE Restart
  <2>1. \A r \in Reqs : [cleaner[r] EXCEPT !.state = "lost"] \in C
    BY <1>0
  <2> QED
    BY <1>0, <1>6, <2>1 DEF Restart
<1>7. CASE UNCHANGED cleaner
  BY <1>0, <1>7
<1> QED
  BY <1>1, <1>2, <1>3, <1>4, <1>5, <1>6, <1>7, CleanersFrame DEF Clean

LEMMA GotFrame ==
    ASSUME [Next]_vars
    PROVE  \/ UNCHANGED got
           \/ \E r \in Reqs : /\ At(r, "read") /\ file[job[r].target] # "absent"
                              /\ got' = [got EXCEPT ![r] = file[job[r].target]]
<1>1. ASSUME NEW r \in Reqs, Receive(r) \/ Throw(r)
      PROVE  UNCHANGED got
  BY <1>1 DEF Receive, Throw
<1>2. ASSUME NEW r \in Reqs, Serve(r), ~ReadFile(r)
      PROVE  UNCHANGED got
  BY <1>2 DEF Serve, FindNote, Find, SaveFile, InsertRow, Unlink, DropRow, ListFiles, DropNote
<1>3. ASSUME NEW r \in Reqs, Clean(r) \/ CleanDies(r)
      PROVE  UNCHANGED got
  BY <1>3, CleanFrame
<1>4. CASE Restart \/ UNCHANGED vars
  BY <1>4 DEF Restart, vars
<1> QED
  BY <1>1, <1>2, <1>3, <1>4 DEF Next, Rest, ReadFile

LEMMA TypeInvariant ==
    ASSUME TypeOK, AtStep, Targets, Cleaners, [Next]_vars
    PROVE  TypeOK'
<1>1. noteRow' \in [Notes -> {"live", "gone"}]
  BY RowsFrame DEF TypeOK, InsertRow, DropRow, DropNote
<1>2. row' \in [Atts -> {"free", "live", "gone"}]
  BY RowsFrame DEF TypeOK, InsertRow, DropRow, DropNote
<1>3. file' \in [Atts -> {"absent", "whole", "short", "broken"}]
  BY FilesFrame DEF TypeOK, SaveFile, Unlink, CleanTrySucceeds
<1>4. got' \in [Reqs -> {"nothing", "whole", "short", "broken"}]
  <2>1. ASSUME NEW r \in Reqs, At(r, "read"), file[job[r].target] # "absent"
        PROVE  file[job[r].target] \in {"whole", "short", "broken"}
    BY <2>1, Where DEF StepNames, Targets, TypeOK
  <2> QED
    BY <2>1, GotFrame DEF TypeOK
<1> QED
  BY <1>1, <1>2, <1>3, <1>4, JobsInvariant, CleanersType DEF TypeOK

(* A cleaning task lets go of a file only when it is gone or counted as   *)
(* failed, and ends only with nothing left.                                *)
Works(r) ==
    /\ Cleaning(r)
    /\ cleaner'[r].left \subseteq cleaner[r].left
    /\ cleaner[r].failed \subseteq cleaner'[r].failed
    /\ \A a \in cleaner[r].left \ cleaner'[r].left :
          file'[a] = "absent" \/ a \in cleaner'[r].failed
    /\ cleaner'[r].cur # None => cleaner'[r].cur \in cleaner'[r].left
    /\ cleaner'[r].state \in {"none", "done"} => cleaner'[r].left = {}

LEMMA CleanersMove ==
    ASSUME TypeOK, Cleaners, [Next]_vars, NEW r \in Reqs
    PROVE  \/ cleaner'[r] = cleaner[r]
           \/ /\ ListFiles(r)
              /\ cleaner'[r] = [state |-> "running", left |-> AttachmentsOf(job[r].target),
                                failed |-> {}, cur |-> None, attempt |-> 0]
           \/ Works(r)
<1>0. /\ cleaner \in [Reqs -> [state : {"none", "running", "done", "lost"},
                               left : SUBSET Atts, failed : SUBSET Atts,
                               cur : Atts \cup {None}, attempt : 0 .. MaxRetries - 1]]
      /\ file \in [Atts -> {"absent", "whole", "short", "broken"}]
      /\ cleaner[r].cur # None => cleaner[r].cur \in cleaner[r].left
  BY DEF TypeOK, Cleaners
<1>1. ASSUME NEW q \in Reqs, ListFiles(q) \/ Clean(q) \/ CleanDies(q), q # r
      PROVE  cleaner'[r] = cleaner[r]
  <2>1. CASE ListFiles(q)
    BY <1>0, <1>1, <2>1 DEF ListFiles
  <2>2. CASE CleanNext(q)
    BY <1>0, <1>1, <2>2 DEF CleanNext
  <2>3. CASE CleanTrySucceeds(q) \/ CleanTryFails(q)
    BY <1>0, <1>1, <2>3 DEF CleanTrySucceeds, CleanTryFails
  <2>4. CASE CleanEnds(q) \/ CleanDies(q)
    BY <1>0, <1>1, <2>4 DEF CleanEnds, CleanDies
  <2> QED
    BY <1>1, <2>1, <2>2, <2>3, <2>4 DEF Clean
<1>2. CASE ListFiles(r)
  <2>1. cleaner' = [cleaner EXCEPT ![r] =
            [NoCleaner EXCEPT !.state = "running", !.left = AttachmentsOf(job[r].target)]]
    BY <1>2 DEF ListFiles
  <2> QED
    BY <1>0, <1>2, <2>1 DEF NoCleaner
<1>3. CASE CleanNext(r)
  <2> PICK a \in cleaner[r].left :
             cleaner' = IF file[a] = "absent"
                        THEN [cleaner EXCEPT ![r].left = @ \ {a}]
                        ELSE [cleaner EXCEPT ![r].cur = a, ![r].attempt = 0]
    BY <1>3 DEF CleanNext
  <2>1. cleaner[r].cur = None /\ cleaner[r].state = "running" /\ file' = file /\ a \in Atts
    BY <1>0, <1>3 DEF CleanNext, Cleaning
  <2>2. CASE file[a] = "absent"
    <3>1. cleaner'[r] = [cleaner[r] EXCEPT !.left = cleaner[r].left \ {a}]
      BY <1>0, <2>2
    <3> QED
      BY <1>0, <2>1, <2>2, <3>1 DEF Works, Cleaning
  <2>3. CASE file[a] # "absent"
    <3>1. cleaner'[r] = [cleaner[r] EXCEPT !.cur = a, !.attempt = 0]
      BY <1>0, <2>3
    <3> QED
      BY <1>0, <2>1, <3>1 DEF Works, Cleaning
  <2> QED
    BY <2>2, <2>3
<1>4. CASE CleanTrySucceeds(r)
  <2>1. PICK a \in Atts : a = cleaner[r].cur
    BY <1>0, <1>4 DEF CleanTrySucceeds
  <2>2. cleaner'[r] = [cleaner[r] EXCEPT !.left = cleaner[r].left \ {a}, !.cur = None]
    BY <1>0, <1>4, <2>1 DEF CleanTrySucceeds
  <2>3. file'[a] = "absent" /\ cleaner[r].state = "running"
    BY <1>0, <1>4, <2>1 DEF CleanTrySucceeds, Cleaning
  <2> QED
    BY <1>0, <2>2, <2>3 DEF Works, Cleaning
<1>5. CASE CleanTryFails(r)
  <2>1. PICK a \in Atts : a = cleaner[r].cur
    BY <1>0, <1>5 DEF CleanTryFails
  <2>2. a \in cleaner[r].left /\ cleaner[r].state = "running" /\ a # None
    BY <1>0, <1>5, <2>1 DEF CleanTryFails, Cleaning
  <2>3. CASE NextAttempt(cleaner[r].attempt) = MaxRetries
    <3>1. cleaner'[r] = [cleaner[r] EXCEPT !.left = cleaner[r].left \ {a},
                                           !.failed = cleaner[r].failed \cup {a}, !.cur = None]
      BY <1>0, <1>5, <2>1, <2>3 DEF CleanTryFails
    <3> QED
      BY <1>0, <2>2, <3>1 DEF Works, Cleaning
  <2>4. CASE NextAttempt(cleaner[r].attempt) # MaxRetries
    <3>1. cleaner' = [cleaner EXCEPT ![r].attempt = NextAttempt(cleaner[r].attempt)]
      BY <1>5, <2>4 DEF CleanTryFails
    <3>2. /\ cleaner'[r].left = cleaner[r].left /\ cleaner'[r].failed = cleaner[r].failed
          /\ cleaner'[r].cur = cleaner[r].cur /\ cleaner'[r].state = cleaner[r].state
      BY <1>0, <3>1
    <3> QED
      BY <1>0, <2>2, <3>2 DEF Works, Cleaning
  <2> QED
    BY <2>3, <2>4
<1>6. CASE CleanEnds(r)
  <2>1. cleaner'[r] = [cleaner[r] EXCEPT !.state = "done"]
    BY <1>0, <1>6 DEF CleanEnds
  <2> QED
    BY <1>0, <1>6, <2>1 DEF CleanEnds, Works
<1>7. CASE CleanDies(r)
  <2>1. cleaner'[r] = [cleaner[r] EXCEPT !.state = "lost"]
    BY <1>0, <1>7 DEF CleanDies
  <2> QED
    BY <1>0, <1>7, <2>1 DEF CleanDies, Works
<1>8. CASE Restart
  <2>1. CASE Cleaning(r)
    <3>1. cleaner'[r] = [cleaner[r] EXCEPT !.state = "lost"]
      BY <1>0, <1>8, <2>1 DEF Restart
    <3> QED
      BY <1>0, <2>1, <3>1 DEF Works
  <2>2. CASE ~Cleaning(r)
    BY <1>8, <2>2 DEF Restart
  <2> QED
    BY <2>1, <2>2
<1> QED
  BY <1>1, <1>2, <1>3, <1>4, <1>5, <1>6, <1>7, <1>8, CleanersFrame DEF Clean

-----------------------------------------------------------------------------
(* The second step of a request.                                           *)

(* A request to remove an attachment passes its second step only by       *)
(* removing the file, a request to delete a note by listing the files.     *)
LEMMA PassesSecond ==
    ASSUME TypeOK, AtStep, [Next]_vars, NEW r \in Reqs, pc[r] < 3, pc'[r] >= 3
    PROVE  /\ job' = job
           /\ job[r].op = "remove" => /\ file[job[r].target] # "absent"
                                      /\ file' = [file EXCEPT ![job[r].target] = "absent"]
           /\ job[r].op = "note_delete" => ListFiles(r)
<1>0. pc[r] \in 0 .. 4 /\ pc'[r] # pc[r]
  BY DEF TypeOK
<1>1. ASSUME NEW q \in Reqs, Receive(q)
      PROVE  FALSE
  BY <1>0, <1>1 DEF Receive, TypeOK
<1>2. ASSUME NEW q \in Reqs, Clean(q) \/ CleanDies(q)
      PROVE  FALSE
  BY <1>0, <1>2, CleanFrame
<1>3. ~Restart /\ ~UNCHANGED vars
  BY <1>0 DEF Restart, vars
<1>4. ASSUME NEW q \in Reqs, Serve(q) \/ Throw(q), q # r
      PROVE  FALSE
  BY <1>0, <1>4, ServeMoves, Moves
<1>5. Serve(r) \/ Throw(r)
  BY <1>1, <1>2, <1>3, <1>4 DEF Next, Rest
<1>6. job' = job /\ Running(r) /\ \A code : ~Answer(r, code)
  BY <1>0, <1>5, ServeMoves DEF Answer
<1>7. Serve(r) /\ Advance(r)
  BY <1>5, <1>6, ServeMoves DEF Throw
<1>8. pc[r] = 2 /\ job[r].op \in AllOps /\ pc[r] \in DOMAIN Program(job[r].op)
  <2>1. pc' = [pc EXCEPT ![r] = pc[r] + 1]
    BY <1>7 DEF Advance
  <2>2. pc'[r] = pc[r] + 1
    BY <2>1 DEF TypeOK
  <2> QED
    BY <1>0, <1>6, <2>2, Inside
<1>9. job[r].op = "remove" => Step(r) = "unlink"
  BY <1>8, ProgramFacts DEF Step
<1>10. job[r].op = "note_delete" => Step(r) = "list"
  BY <1>8, ProgramFacts DEF Step
<1>11. job[r].op = "remove" => Unlink(r)
  BY <1>7, <1>9 DEF Serve, FindNote, Find, SaveFile, InsertRow, ReadFile, DropRow, ListFiles,
                    DropNote, At
<1>12. job[r].op = "note_delete" => ListFiles(r)
  BY <1>7, <1>10 DEF Serve, FindNote, Find, SaveFile, InsertRow, ReadFile, Unlink, DropRow,
                     DropNote, At
<1> QED
  BY <1>6, <1>11, <1>12 DEF Unlink, Unlinks

-----------------------------------------------------------------------------
(* Each part of the invariant is kept.                                     *)

LEMMA TargetsInvariant ==
    ASSUME TypeOK, AtStep, Targets, Uploads, [Next]_vars
    PROVE  Targets'
<1> SUFFICES ASSUME NEW r \in Reqs
             PROVE  /\ job'[r].op \in {"upload", "note_delete"} => job'[r].target \in Notes
                    /\ job'[r].op \in {"download", "remove"} =>
                          job'[r].target \in Atts /\ row'[job'[r].target] # "free"
  BY DEF Targets
<1>1. CASE job[r].op # "none"
  <2>1. job'[r] = job[r]
    BY <1>1, JobsKept
  <2> QED
    BY <2>1, RowsKept DEF Targets
<1>2. CASE job[r].op = "none" /\ job'[r] = job[r]
  BY <1>2
<1>3. CASE job'[r] # job[r]
  <2> PICK q \in Reqs : Receive(q)
    BY <1>3, JobsFrame
  <2>1. q = r /\ row' = row
    BY <1>3 DEF Receive, TypeOK, dbVars
  <2>2. PICK op \in Ops, x \in Notes \cup Atts :
          /\ job' = [job EXCEPT ![r] = [op |-> op, target |-> x]]
          /\ x \in IF op \in {"upload", "note_delete"} THEN Notes ELSE {a \in Atts : row[a] # "free"}
    BY <2>1 DEF Receive
  <2>3. job'[r] = [op |-> op, target |-> x]
    BY <2>2 DEF TypeOK
  <2> QED
    BY <2>1, <2>2, <2>3
<1> QED
  BY <1>1, <1>2, <1>3

(* A request stands still, is received, is served, or is lost.            *)
LEMMA RequestMoves ==
    ASSUME TypeOK, AtStep, [Next]_vars, NEW r \in Reqs
    PROVE  \/ pc'[r] = pc[r] /\ answer'[r] = answer[r] /\ job'[r] = job[r]
           \/ Receive(r) /\ pc[r] = 0 /\ pc'[r] = 1 /\ answer'[r] = "none"
           \/ Serve(r) \/ Throw(r)
           \/ answer'[r] = "lost" /\ pc'[r] = pc[r] /\ job'[r] = job[r]
<1>1. ASSUME NEW q \in Reqs, Receive(q), q # r
      PROVE  pc'[r] = pc[r] /\ answer'[r] = answer[r] /\ job'[r] = job[r]
  BY <1>1 DEF Receive, TypeOK
<1>2. CASE Receive(r)
  BY <1>2 DEF Receive, TypeOK
<1>3. ASSUME NEW q \in Reqs, Serve(q) \/ Throw(q), q # r
      PROVE  pc'[r] = pc[r] /\ answer'[r] = answer[r] /\ job'[r] = job[r]
  BY <1>3, ServeMoves, Moves
<1>4. ASSUME NEW q \in Reqs, Clean(q) \/ CleanDies(q)
      PROVE  pc'[r] = pc[r] /\ answer'[r] = answer[r] /\ job'[r] = job[r]
  BY <1>4, CleanFrame
<1>5. CASE Restart
  BY <1>5 DEF Restart
<1>6. CASE UNCHANGED vars
  BY <1>6 DEF vars
<1> QED
  BY <1>1, <1>2, <1>3, <1>4, <1>5, <1>6 DEF Next, Rest

LEMMA UploadsInvariant ==
    ASSUME TypeOK, AtStep, Targets, Uploads, Cleaners, [Next]_vars
    PROVE  Uploads'
<1> SUFFICES ASSUME NEW r \in Reqs
             PROVE  /\ row'[r] # "free" => job'[r].op = "upload" /\ ~Running(r)'
                    /\ At(r, "insert")' => file'[r] \in {"whole", "short"}
  BY DEF Uploads
<1>0. r \in Atts
  BY DEF Atts
<1>1. CASE row[r] # "free"
  <2>1. job[r].op = "upload" /\ ~Running(r) /\ pc[r] # 0
    BY <1>1 DEF Uploads, AtStep
  <2>2. job'[r] = job[r]
    BY <2>1, JobsKept
  <2>3. ~Running(r)'
    <3>1. ~(Serve(r) \/ Throw(r))
      BY <2>1, ServeMoves
    <3> QED
      BY <2>1, <3>1, RequestMoves DEF Running
  <2> QED
    BY <2>1, <2>2, <2>3 DEF At
<1>2. CASE row[r] = "free" /\ row'[r] # "free"
  <2>1. InsertRow(r)
    <3>1. ASSUME NEW q \in Reqs, DropRow(q) \/ DropNote(q)
          PROVE  FALSE
      BY <1>0, <1>2, <3>1 DEF DropRow, DropNote, Cascade, AttachmentsOf, TypeOK
    <3>2. ASSUME NEW q \in Reqs, InsertRow(q), q # r
          PROVE  FALSE
      BY <1>0, <1>2, <3>2 DEF InsertRow, TypeOK
    <3> QED
      BY <1>2, <3>1, <3>2, RowsFrame
  <2>2. job' = job /\ Running(r) /\ job[r].op = "upload" /\ pc[r] = Len(Program(job[r].op))
    BY <2>1, Where, ServeMoves DEF InsertRow, StepNames, Serve
  <2>3. answer'[r] # "none"
    BY <1>2, <2>1, <2>2 DEF InsertRow, AdvanceOrThrow, Advance, Answer, TypeOK
  <2> QED
    BY <2>2, <2>3 DEF At, Running
<1>3. CASE row[r] = "free" /\ row'[r] = "free"
  <2> SUFFICES ASSUME At(r, "insert")'
               PROVE  file'[r] \in {"whole", "short"}
    BY <1>3
  <2>1. CASE pc'[r] = pc[r] /\ answer'[r] = answer[r] /\ job'[r] = job[r]
    <3>1. At(r, "insert")
      BY <2>1 DEF At, Running, Step
    <3>2. ASSUME NEW q \in Reqs, SaveFile(q) \/ Unlink(q) \/ CleanTrySucceeds(q)
          PROVE  file'[r] = file[r]
      <4>1. CASE SaveFile(q)
        <5>1. q # r
          BY <3>1, <4>1 DEF SaveFile, At
        <5> QED
          BY <4>1, <5>1 DEF SaveFile, TypeOK
      <4>2. CASE Unlink(q)
        <5>1. job[q].target # r
          BY <1>3, <4>2, Where DEF Unlink, StepNames, Targets
        <5>2. file' = [file EXCEPT ![job[q].target] = "absent"] \/ file' = file
          BY <4>2 DEF Unlink
        <5> QED
          BY <1>0, <5>1, <5>2 DEF TypeOK
      <4>3. CASE CleanTrySucceeds(q)
        <5>1. cleaner[q].cur # r
          BY <1>3, <4>3 DEF CleanTrySucceeds, Cleaners
        <5> QED
          BY <4>3, <5>1 DEF CleanTrySucceeds, TypeOK
      <4> QED
        BY <3>2, <4>1, <4>2, <4>3
    <3> QED
      BY <3>1, <3>2, FilesFrame DEF Uploads
  <2>2. CASE Receive(r) /\ pc'[r] = 1
    <3>1. job'[r].op \in AllOps /\ Program(job'[r].op)[1] = "insert"
      BY <2>2, JobsInvariant DEF At, Running, Step, AtStep
    <3> QED
      BY <3>1, ProgramFacts
  <2>3. CASE Serve(r) \/ Throw(r)
    <3>1. /\ job' = job /\ Running(r) /\ answer'[r] = "none"
          /\ pc'[r] = pc[r] + 1 /\ pc'[r] \in DOMAIN Program(job[r].op) /\ Advance(r)
          /\ Program(job[r].op)[pc[r] + 1] = "insert"
      BY <2>3, ServeMoves, Moves DEF At, Running, Step
    <3>2. job[r].op = "upload" /\ Step(r) = "save"
      BY <3>1, Inside, ProgramFacts DEF Step
    <3>3. ~Throw(r)
      BY <3>1, <3>2 DEF Throw
    <3>4. SaveFile(r)
      BY <2>3, <3>2, <3>3 DEF Serve, FindNote, Find, InsertRow, ReadFile, Unlink, DropRow,
                              ListFiles, DropNote, At
    <3>5. PICK f \in {"whole", "short", "broken", "absent"} :
            /\ file' = [file EXCEPT ![r] = f]
            /\ IF SaveReturns(f) THEN Advance(r) ELSE Answer(r, "500")
      BY <3>4 DEF SaveFile
    <3>6. ~Answer(r, "500")
      BY <3>1, Inside DEF Answer, TypeOK
    <3> QED
      BY <1>0, <3>5, <3>6 DEF SaveReturns, TypeOK
  <2>4. CASE answer'[r] = "lost"
    BY <2>4 DEF At, Running
  <2> QED
    BY <2>1, <2>2, <2>3, <2>4, RequestMoves
<1> QED
  BY <1>1, <1>2, <1>3

LEMMA NoBrokenRowInvariant ==
    ASSUME TypeOK, AtStep, Uploads, NoBrokenRow, [Next]_vars
    PROVE  NoBrokenRow'
<1> SUFFICES ASSUME NEW a \in Atts, row'[a] # "free"
             PROVE  file'[a] # "broken"
  BY DEF NoBrokenRow
<1>1. CASE row[a] # "free"
  BY <1>1, FilesKept DEF NoBrokenRow
<1>2. CASE row[a] = "free"
  <2>1. PICK r \in Reqs : InsertRow(r) /\ r = a
    BY <1>2, RowsFrame DEF InsertRow, DropRow, DropNote, Cascade, AttachmentsOf, TypeOK
  <2>2. file' = file /\ file[a] \in {"whole", "short"}
    BY <2>1 DEF InsertRow, Uploads, fsVars
  <2> QED
    BY <2>2
<1> QED
  BY <1>1, <1>2

LEMMA NoBrokenServedInvariant ==
    ASSUME TypeOK, AtStep, Targets, NoBrokenRow, NoBrokenServed, [Next]_vars
    PROVE  NoBrokenServed'
<1>1. ASSUME NEW r \in Reqs, At(r, "read")
      PROVE  file[job[r].target] # "broken"
  BY <1>1, Where DEF StepNames, Targets, NoBrokenRow
<1> QED
  BY <1>1, GotFrame DEF NoBrokenServed, TypeOK

(* The note of an attachment that was inserted is one of the notes.       *)
LEMMA NoteOfType ==
    ASSUME TypeOK, Targets, Uploads, NEW a \in Atts, row[a] # "free"
    PROVE  NoteOf(a) \in Notes
BY StoredAssumption DEF NoteOf, Atts, Uploads, Targets

LEMMA NoOrphanRowInvariant ==
    ASSUME TypeOK, AtStep, Targets, Uploads, NoOrphanRow, [Next]_vars
    PROVE  NoOrphanRow'
<1> SUFFICES ASSUME NEW a \in Atts, row'[a] = "live"
             PROVE  noteRow'[NoteOf(a)'] = "live"
  BY DEF NoOrphanRow
<1>1. CASE UNCHANGED <<noteRow, row>>
  <2>1. row[a] = "live" /\ NoteOf(a)' = NoteOf(a)
    BY <1>1, RowsKept
  <2> QED
    BY <1>1, <2>1 DEF NoOrphanRow
<1>2. ASSUME NEW r \in Reqs, InsertRow(r)
      PROVE  noteRow'[NoteOf(a)'] = "live"
  <2>0. noteRow' = noteRow
    BY <1>2 DEF InsertRow
  <2>1. CASE row[a] = "live"
    BY <2>0, <2>1, RowsKept DEF NoOrphanRow
  <2>2. CASE row[a] # "live"
    <3>1. a = r /\ ForeignKeyHolds(job[r].target) /\ job' = job
      BY <1>2, <2>2 DEF InsertRow, TypeOK
    <3>2. row[r] = "free" \/ row[r] = "gone"
      BY <2>2, <3>1 DEF TypeOK
    <3>3. Running(r)
      BY <1>2 DEF InsertRow, At
    <3>4. a \notin Stored
      BY <3>1, IdsAssumption
    <3> QED
      BY <2>0, <3>1, <3>4 DEF NoteOf, ForeignKeyHolds
  <2> QED
    BY <2>1, <2>2
<1>3. ASSUME NEW r \in Reqs, DropRow(r)
      PROVE  noteRow'[NoteOf(a)'] = "live"
  <2>1. row[a] = "live" /\ noteRow' = noteRow
    BY <1>3 DEF DropRow, TypeOK
  <2> QED
    BY <2>1, RowsKept DEF NoOrphanRow
<1>4. ASSUME NEW r \in Reqs, DropNote(r)
      PROVE  noteRow'[NoteOf(a)'] = "live"
  <2>1. row[a] = "live" /\ a \notin AttachmentsOf(job[r].target)
    BY <1>4 DEF DropNote, Cascade
  <2>2. NoteOf(a) # job[r].target
    BY <2>1 DEF AttachmentsOf
  <2>3. NoteOf(a)' = NoteOf(a) /\ noteRow[NoteOf(a)] = "live"
    BY <2>1, RowsKept DEF NoOrphanRow
  <2> QED
    BY <1>4, <2>2, <2>3, <2>1, NoteOfType DEF DropNote, TypeOK
<1> QED
  BY <1>1, <1>2, <1>3, <1>4, RowsFrame

LEMMA CleanersInvariant ==
    ASSUME TypeOK, AtStep, Targets, Uploads, Cleaners, [Next]_vars
    PROVE  Cleaners'
<1> SUFFICES ASSUME NEW r \in Reqs
             PROVE  /\ cleaner'[r] # NoCleaner => job'[r].op = "note_delete" /\ pc'[r] >= 3
                    /\ cleaner'[r].cur # None => cleaner'[r].cur \in cleaner'[r].left
                    /\ cleaner'[r].state \in {"none", "done"} => cleaner'[r].left = {}
                    /\ \A a \in cleaner'[r].left : row'[a] # "free" /\ NoteOf(a)' = job'[r].target
  BY DEF Cleaners
<1>0. pc'[r] >= pc[r] /\ pc[r] \in 0 .. 4 /\ pc'[r] \in 0 .. 4
  BY PcGrows, JobsInvariant DEF TypeOK
<1>1. ASSUME cleaner[r] # NoCleaner
      PROVE  job'[r] = job[r] /\ job[r].op = "note_delete" /\ pc'[r] >= 3
  <2>1. job[r].op = "note_delete" /\ pc[r] >= 3
    BY <1>1 DEF Cleaners
  <2> QED
    BY <1>0, <2>1, JobsKept
<1>2. ASSUME NEW a \in cleaner[r].left
      PROVE  row'[a] # "free" /\ NoteOf(a)' = job'[r].target
  <2>1. a \in Atts /\ cleaner[r] # NoCleaner
    BY <1>2 DEF TypeOK, NoCleaner
  <2>2. row[a] # "free" /\ NoteOf(a) = job[r].target
    BY <1>2 DEF Cleaners
  <2> QED
    BY <1>1, <2>1, <2>2, RowsKept
<1>3. CASE cleaner'[r] = cleaner[r]
  BY <1>1, <1>2, <1>3 DEF Cleaners
<1>4. CASE Works(r)
  <2>1. cleaner[r] # NoCleaner
    BY <1>4 DEF Works, Cleaning, NoCleaner
  <2> QED
    BY <1>1, <1>2, <1>4, <2>1 DEF Works
<1>5. CASE /\ ListFiles(r)
           /\ cleaner'[r] = [state |-> "running", left |-> AttachmentsOf(job[r].target),
                             failed |-> {}, cur |-> None, attempt |-> 0]
  <2>1. job[r].op = "note_delete" /\ pc[r] = 2 /\ job' = job /\ Running(r)
    BY <1>5, Where DEF ListFiles, StepNames
  <2>2. pc'[r] = pc[r] + 1
    BY <1>5 DEF ListFiles, Advance, TypeOK
  <2>3. \A a \in cleaner'[r].left : a \in Atts /\ row[a] # "free" /\ NoteOf(a) = job[r].target
    BY <1>5 DEF AttachmentsOf
  <2>4. \A a \in cleaner'[r].left : row'[a] # "free" /\ NoteOf(a)' = job'[r].target
    BY <2>1, <2>3, RowsKept
  <2> QED
    BY <1>5, <2>1, <2>2, <2>4
<1> QED
  BY <1>3, <1>4, <1>5, CleanersMove

(* A request that asked to take an attachment away asked for ever.        *)
LEMMA AskedKept ==
    ASSUME TypeOK, AtStep, Uploads, [Next]_vars, NEW a \in Atts, row[a] # "free", AskedToDrop(a)
    PROVE  AskedToDrop(a)'
<1> PICK r \in Reqs : /\ pc[r] >= 3
                      /\ \/ job[r].op = "remove" /\ job[r].target = a
                         \/ job[r].op = "note_delete" /\ job[r].target = NoteOf(a)
  BY DEF AskedToDrop
<1>1. pc'[r] >= 3
  <2>1. pc[r] \in 0 .. 4 /\ pc'[r] \in 0 .. 4
    BY JobsInvariant DEF TypeOK
  <2> QED
    BY <2>1, PcGrows
<1>2. job'[r] = job[r] /\ NoteOf(a)' = NoteOf(a)
  BY JobsKept, RowsKept
<1> QED
  BY <1>1, <1>2 DEF AskedToDrop

LEMMA NothingLostInvariant ==
    ASSUME TypeOK, AtStep, Targets, Uploads, StoredInserted, Cleaners, NothingLostUnasked, [Next]_vars
    PROVE  NothingLostUnasked'
<1> SUFFICES ASSUME NEW a \in Atts, Promised(a)', row'[a] = "gone" \/ file'[a] = "absent"
             PROVE  AskedToDrop(a)'
  BY DEF NothingLostUnasked
<1>1. CASE row[a] = "free"
  <2>1. a \notin Stored
    BY <1>1 DEF StoredInserted
  <2>2. row'[a] # "free"
    BY <2>1 DEF Promised
  <2>3. InsertRow(a) /\ a \in Reqs
    BY <1>1, <2>2, RowsFrame DEF InsertRow, DropRow, DropNote, Cascade, AttachmentsOf, TypeOK
  <2>4. row'[a] = "live" /\ file' = file /\ file[a] \in {"whole", "short"}
    BY <1>1, <2>2, <2>3 DEF InsertRow, TypeOK, Uploads, fsVars
  <2> QED
    BY <2>4
<1>2. CASE row[a] # "free" /\ (row[a] = "gone" \/ file[a] = "absent")
  <2>1. Promised(a)
    BY <1>2 DEF Promised
  <2>2. AskedToDrop(a)
    BY <1>2, <2>1 DEF NothingLostUnasked
  <2> QED
    BY <1>2, <2>2, AskedKept
<1>3. CASE row[a] = "live" /\ row'[a] = "gone"
  <2>1. PICK r \in Reqs : \/ DropRow(r) /\ a = job[r].target
                          \/ DropNote(r) /\ a \in AttachmentsOf(job[r].target)
    BY <1>3, RowsFrame DEF InsertRow, DropRow, DropNote, Cascade, TypeOK
  <2>2. pc[r] = 3 /\ job[r].op = (IF DropRow(r) THEN "remove" ELSE "note_delete")
    BY <2>1, Where DEF DropRow, DropNote, StepNames
  <2>3. AskedToDrop(a)
    BY <2>1, <2>2 DEF AskedToDrop, AttachmentsOf, DropRow, At, DropNote
  <2> QED
    BY <1>3, <2>3, AskedKept
<1>4. CASE row[a] = "live" /\ file[a] # "absent" /\ file'[a] = "absent"
  <2>1. ASSUME NEW r \in Reqs, SaveFile(r)
        PROVE  FALSE
    <3>1. r # a
      BY <1>4, <2>1 DEF SaveFile, At, Uploads
    <3> QED
      BY <1>4, <2>1, <3>1 DEF SaveFile, TypeOK
  <2>2. ASSUME NEW r \in Reqs, Unlink(r)
        PROVE  AskedToDrop(a)'
    <3>1. file' = [file EXCEPT ![job[r].target] = "absent"] /\ Advance(r) /\ job' = job
      BY <1>4, <2>2 DEF Unlink
    <3>2. job[r].target = a
      BY <1>4, <3>1 DEF TypeOK
    <3>3. pc[r] = 2 /\ job[r].op = "remove"
      BY <2>2, Where DEF Unlink, StepNames
    <3>4. pc'[r] = 3
      BY <3>1, <3>3 DEF Advance, TypeOK
    <3> QED
      BY <3>1, <3>2, <3>3, <3>4 DEF AskedToDrop
  <2>3. ASSUME NEW r \in Reqs, CleanTrySucceeds(r)
        PROVE  AskedToDrop(a)'
    <3>1. a = cleaner[r].cur
      BY <1>4, <2>3 DEF CleanTrySucceeds, TypeOK
    <3>2. NoteOf(a) = job[r].target /\ cleaner[r] # NoCleaner
      BY <2>3, <3>1 DEF Cleaners, CleanTrySucceeds, NoCleaner
    <3>3. AskedToDrop(a)
      BY <3>2 DEF AskedToDrop, Cleaners
    <3> QED
      BY <1>4, <3>3, AskedKept
  <2> QED
    BY <1>4, <2>1, <2>2, <2>3, FilesFrame
<1> QED
  <2>1. row[a] \in {"free", "live", "gone"}
    BY DEF TypeOK
  <2>2. row'[a] = "gone" => row[a] # "live" \/ row'[a] = "gone"
    OBVIOUS
  <2> QED
    BY <1>1, <1>2, <1>3, <1>4, <2>1

LEMMA UnlinkedInvariant ==
    ASSUME TypeOK, AtStep, Targets, Uploads, Unlinked, [Next]_vars
    PROVE  Unlinked'
<1> SUFFICES ASSUME NEW r \in Reqs, job'[r].op = "remove"
             PROVE  /\ pc'[r] >= 3 => file'[job'[r].target] = "absent"
                    /\ answer'[r] = "ok" => pc'[r] >= 3
                    /\ \A q \in Reqs : /\ q # r /\ job'[q].op = "remove"
                                       /\ job'[q].target = job'[r].target /\ pc'[q] >= 3
                                       => pc'[r] < 3
  BY DEF Unlinked
<1>0. \A q \in Reqs : pc[q] \in 0 .. 4 /\ pc'[q] \in 0 .. 4 /\ pc'[q] >= pc[q]
  BY PcGrows, JobsInvariant DEF TypeOK
<1>1. ASSUME NEW q \in Reqs, pc'[q] >= 3
      PROVE  job'[q] = job[q]
  <2>1. CASE job[q].op # "none"
    BY <2>1, JobsKept
  <2>2. CASE job[q].op = "none"
    <3>1. pc[q] = 0
      BY <2>2 DEF AtStep
    <3> QED
      BY <1>0, <1>1, <3>1, PassesSecond
  <2> QED
    BY <2>1, <2>2
<1>2. ASSUME pc'[r] >= 3
      PROVE  /\ job'[r] = job[r] /\ job[r].target \in Atts /\ row[job[r].target] # "free"
             /\ file'[job[r].target] = "absent"
  <2>1. job'[r] = job[r]
    BY <1>1, <1>2
  <2>2. job[r].target \in Atts /\ row[job[r].target] # "free"
    BY <2>1 DEF Targets
  <2>3. CASE pc[r] >= 3
    BY <2>1, <2>2, <2>3, FilesKept DEF Unlinked
  <2>4. CASE pc[r] < 3
    BY <1>2, <2>1, <2>2, <2>4, PassesSecond DEF TypeOK
  <2> QED
    BY <1>0, <2>1, <2>2, <2>3, <2>4
<1>3. ASSUME answer'[r] = "ok"
      PROVE  pc'[r] >= 3
  <2>1. CASE answer[r] = "ok" /\ pc'[r] = pc[r] /\ job'[r] = job[r]
    BY <2>1 DEF Unlinked
  <2>2. CASE Serve(r) \/ Throw(r)
    <3>1. job' = job /\ pc[r] = Len(Program(job[r].op)) /\ pc'[r] = pc[r] + 1
      BY <1>3, <2>2, ServeMoves, Moves
    <3>2. Len(Program("remove")) = 3
      BY DEF Program, Remove
    <3> QED
      BY <1>0, <3>1, <3>2
  <2> QED
    BY <1>3, <2>1, <2>2, RequestMoves
<1>4. ASSUME NEW q \in Reqs, q # r, job'[q].op = "remove", job'[q].target = job'[r].target,
             pc'[q] >= 3, pc'[r] >= 3
      PROVE  FALSE
  <2>1. job'[q] = job[q] /\ job'[r] = job[r]
    BY <1>1, <1>4
  <2>2. ~(pc[q] >= 3 /\ pc[r] >= 3)
    BY <1>0, <1>4, <2>1 DEF Unlinked
  <2>3. ASSUME pc[r] < 3
        PROVE  pc[q] < 3
    <3>1. file[job[r].target] # "absent"
      BY <1>4, <2>1, <2>3, PassesSecond
    <3> QED
      BY <1>0, <1>4, <2>1, <3>1 DEF Unlinked
  <2>4. ASSUME pc[q] < 3
        PROVE  pc[r] < 3
    <3>1. file[job[q].target] # "absent"
      BY <1>4, <2>1, <2>4, PassesSecond
    <3> QED
      BY <1>0, <1>4, <2>1, <3>1 DEF Unlinked
  <2>5. pc[q] < 3 /\ pc[r] < 3
    BY <1>0, <2>2, <2>3, <2>4
  <2>6. pc'[q] # pc[q] /\ pc'[r] # pc[r]
    BY <1>0, <1>4, <2>5
  <2>7. \A p \in {q, r} : Serve(p) \/ Throw(p)
    <3> SUFFICES ASSUME NEW p \in {q, r}
                 PROVE  Serve(p) \/ Throw(p)
      OBVIOUS
    <3>1. pc'[p] # pc[p] /\ pc'[p] >= 3
      BY <1>4, <2>6
    <3> QED
      BY <3>1, RequestMoves
  <2>8. pc'[r] = pc[r]
    BY <1>4, <2>7, ServeMoves, Moves
  <2> QED
    BY <2>6, <2>8
<1> QED
  BY <1>0, <1>2, <1>3, <1>4

LEMMA CleanedKept ==
    ASSUME TypeOK, AtStep, Uploads, Cleaners, [Next]_vars,
           NEW a \in Atts, row[a] # "free", NEW s \in Reqs, CleanedBy(a, s)
    PROVE  CleanedBy(a, s)'
<1>1. CASE file[a] = "absent"
  BY <1>1, FilesKept DEF CleanedBy
<1>2. CASE a \in cleaner[s].left \cup cleaner[s].failed
  <2>1. CASE cleaner'[s] = cleaner[s]
    BY <1>2, <2>1 DEF CleanedBy
  <2>2. CASE Works(s)
    BY <1>2, <2>2 DEF Works, CleanedBy
  <2>3. CASE ListFiles(s)
    <3>1. pc[s] = 2 /\ cleaner[s] # NoCleaner
      BY <1>2, <2>3, Where DEF ListFiles, StepNames, NoCleaner
    <3> QED
      BY <3>1 DEF Cleaners
  <2> QED
    BY <2>1, <2>2, <2>3, CleanersMove
<1> QED
  BY <1>1, <1>2 DEF CleanedBy

LEMMA StoredInsertedInvariant ==
    ASSUME TypeOK, AtStep, Uploads, StoredInserted, [Next]_vars
    PROVE  StoredInserted'
BY RowsKept DEF StoredInserted, Atts

(* No step brings the row of a stored attachment to life.                  *)
LEMMA StoredLive ==
    ASSUME TypeOK, AtStep, Uploads, StoredInserted, [Next]_vars,
           NEW a \in Stored, row'[a] = "live"
    PROVE  row[a] = "live"
BY RowsKept DEF StoredInserted, Atts, TypeOK

LEMMA ListedInvariant ==
    ASSUME TypeOK, AtStep, Targets, Uploads, Cleaners, StoredInserted, Listed, [Next]_vars
    PROVE  Listed'
<1> SUFFICES ASSUME NEW a \in Stored, NEW s \in Reqs, job'[s].op = "note_delete",
                    job'[s].target = NoteOf(a)', pc'[s] >= 3, row'[a] = "live"
             PROVE  CleanedBy(a, s)'
  BY DEF Listed
<1>0. /\ row[a] = "live" /\ a \in Atts /\ NoteOf(a)' = NoteOf(a)
      /\ pc[s] \in 0 .. 4 /\ pc'[s] \in 0 .. 4
  BY StoredLive, JobsInvariant DEF Atts, NoteOf, TypeOK
<1>1. CASE pc[s] >= 3
  <2>1. job'[s] = job[s]
    BY <1>1, JobsKept DEF AtStep
  <2>2. CleanedBy(a, s)
    BY <1>0, <1>1, <2>1 DEF Listed
  <2> QED
    BY <1>0, <2>2, CleanedKept
<1>2. CASE pc[s] < 3
  <2>1. ListFiles(s) /\ job' = job
    BY <1>2, PassesSecond
  <2>2. cleaner'[s].left = AttachmentsOf(job[s].target)
    BY <2>1 DEF ListFiles, NoCleaner, TypeOK
  <2>3. a \in AttachmentsOf(job[s].target)
    BY <1>0, <2>1 DEF AttachmentsOf
  <2> QED
    BY <2>2, <2>3 DEF CleanedBy
<1> QED
  BY <1>0, <1>1, <1>2

LEMMA HandledInvariant ==
    ASSUME TypeOK, AtStep, Targets, Uploads, Cleaners, StoredInserted, Unlinked, Listed, Handled,
           [Next]_vars
    PROVE  Handled'
<1> SUFFICES ASSUME NEW a \in Stored, row'[a] = "gone"
             PROVE  file'[a] = "absent" \/ \E s \in Reqs : CleanedBy(a, s)'
  BY DEF Handled
<1>0. row[a] # "free" /\ a \in Atts
  BY DEF StoredInserted, Atts
<1>1. file[a] = "absent" \/ \E s \in Reqs : CleanedBy(a, s)
  <2>1. CASE row[a] = "gone"
    BY <2>1 DEF Handled
  <2>2. CASE row[a] = "live"
    <3>1. PICK r \in Reqs : \/ DropRow(r) /\ a = job[r].target
                            \/ DropNote(r) /\ a \in AttachmentsOf(job[r].target)
      BY <1>0, <2>2, RowsFrame DEF InsertRow, DropRow, DropNote, Cascade, TypeOK
    <3>2. CASE DropRow(r) /\ a = job[r].target
      BY <3>2, Where DEF DropRow, StepNames, Unlinked
    <3>3. CASE DropNote(r) /\ a \in AttachmentsOf(job[r].target)
      BY <2>2, <3>3, Where DEF DropNote, StepNames, Listed, AttachmentsOf
    <3> QED
      BY <3>1, <3>2, <3>3
  <2> QED
    BY <1>0, <2>1, <2>2 DEF TypeOK
<1>2. CASE file[a] = "absent"
  BY <1>0, <1>2, FilesKept
<1>3. CASE \E s \in Reqs : CleanedBy(a, s)
  BY <1>0, <1>3, CleanedKept
<1> QED
  BY <1>1, <1>2, <1>3

-----------------------------------------------------------------------------
(* The theorems.                                                           *)

LEMMA IndInvHoldsAtFirst ==
    ASSUME Init
    PROVE  IndInv
<1> USE DEF Init
<1>1. TypeOK
  BY StoredAssumption, RetriesAssumption DEF TypeOK, NoJob, NoCleaner, Atts
<1>2. AtStep /\ Targets
  BY DEF AtStep, Targets, NoJob
<1>3. Uploads
  BY IdsAssumption DEF Uploads, At, Running, Atts
<1>4. NoBrokenRow /\ NoBrokenServed
  BY StoredAssumption DEF NoBrokenRow, NoBrokenServed, Atts
<1>5. Cleaners
  BY DEF Cleaners, NoCleaner
<1>6. NoOrphanRow /\ NothingLostUnasked
  BY StoredAssumption DEF NoOrphanRow, NothingLostUnasked, Promised, Atts, NoteOf
<1>7. Unlinked /\ Listed
  BY DEF Unlinked, Listed, NoJob
<1>8. StoredInserted /\ Handled
  BY DEF StoredInserted, Handled, Atts
<1> QED
  BY <1>1, <1>2, <1>3, <1>4, <1>5, <1>6, <1>7, <1>8 DEF IndInv

LEMMA IndInvIsKept ==
    ASSUME IndInv, [Next]_vars
    PROVE  IndInv'
BY TypeInvariant, JobsInvariant, TargetsInvariant, UploadsInvariant, NoBrokenRowInvariant,
   CleanersInvariant, NoOrphanRowInvariant, NothingLostInvariant, UnlinkedInvariant,
   NoBrokenServedInvariant, StoredInsertedInvariant, ListedInvariant, HandledInvariant DEF IndInv

(* Every reachable state satisfies the inductive invariant.                *)
THEOREM Inductive == Spec => []IndInv
<1>1. Init => IndInv
  BY IndInvHoldsAtFirst
<1>2. IndInv /\ [Next]_vars => IndInv'
  BY IndInvIsKept
<1> QED
  BY <1>1, <1>2, PTL DEF Spec

(* Variables keep their types; a file is tried at most MaxRetries times.   *)
THEOREM TypeCorrect == Spec => []TypeOK
<1>1. IndInv => TypeOK
  BY DEF IndInv
<1> QED
  BY <1>1, Inductive, PTL

(* No attachment outlives the row of its note.                             *)
THEOREM RowsGoWithNote == Spec => []NoOrphanRow
<1>1. IndInv => NoOrphanRow
  BY DEF IndInv
<1> QED
  BY <1>1, Inductive, PTL

(* No attachment loses its row or its file unless a client asked for it.  *)
THEOREM NothingLost == Spec => []NothingLostUnasked
<1>1. IndInv => NothingLostUnasked
  BY DEF IndInv
<1> QED
  BY <1>1, Inductive, PTL

(* At most one of several requests to delete an attachment is answered    *)
(* 200.                                                                    *)
THEOREM OneRemover == Spec => []AtMostOneRemover
<1>1. IndInv => AtMostOneRemover
  <2> SUFFICES ASSUME IndInv, NEW q \in Reqs, NEW r \in Reqs, q # r,
                      job[q].op = "remove", answer[q] = "ok",
                      job[r].op = "remove", answer[r] = "ok", job[q].target = job[r].target
               PROVE  FALSE
    BY DEF AtMostOneRemover
  <2>1. pc[q] >= 3 /\ pc[r] >= 3 /\ pc[r] \in 0 .. 4
    BY DEF IndInv, Unlinked, TypeOK
  <2>2. pc[r] < 3
    BY <2>1 DEF IndInv, Unlinked
  <2> QED
    BY <2>1, <2>2
<1> QED
  BY <1>1, Inductive, PTL

(* What a failed SaveFile left behind is never served.                     *)
THEOREM BrokenStaysUnserved == Spec => []NoBrokenServed
<1>1. IndInv => NoBrokenServed
  BY DEF IndInv
<1> QED
  BY <1>1, Inductive, PTL

(* When all went well, deleting a note leaves none of the files it had.   *)
THEOREM StoredFilesGo == Spec => []StoredFilesFollowNote
<1>1. IndInv => StoredFilesFollowNote
  <2> SUFFICES ASSUME IndInv, AllWentWell, NEW a \in FilesLeft \cap Stored
               PROVE  FALSE
    BY DEF StoredFilesFollowNote
  <2>1. a \in Atts /\ row[a] # "free" /\ noteRow[NoteOf(a)] = "gone" /\ file[a] # "absent"
    BY DEF FilesLeft
  <2>2. row[a] = "gone"
    BY <2>1 DEF IndInv, TypeOK, NoOrphanRow
  <2>3. PICK s \in Reqs : a \in cleaner[s].left \cup cleaner[s].failed
    BY <2>1, <2>2 DEF IndInv, Handled, CleanedBy
  <2>4. cleaner[s].state \in {"none", "running", "done", "lost"}
    BY DEF IndInv, TypeOK
  <2>5. /\ cleaner[s].state # "running" /\ cleaner[s].state # "lost" /\ cleaner[s].failed = {}
    BY DEF AllWentWell, Quiescent, Cleaning
  <2> QED
    BY <2>3, <2>4, <2>5 DEF IndInv, Cleaners
<1> QED
  BY <1>1, Inductive, PTL

-----------------------------------------------------------------------------
(* Attachments implements AttachmentStore.                                 *)

(* A file that is there was saved: its request is past that step.          *)
SavedLate == \A r \in Reqs : file[r] # "absent" => pc[r] >= 3 \/ answer[r] # "none"

LifeInv == IndInv /\ SavedLate

Owner == [a \in Atts |-> IF row[a] = "free" THEN None ELSE NoteOf(a)]

(* The requests that make up Asked.                                        *)
Asks(r) == job[r].op \in {"remove", "note_delete"} /\ pc[r] >= 2

(* The other steps that the programs begin and go on with.                 *)
LEMMA FirstSteps ==
    /\ Program("remove")[1] = "find"
    /\ Program("note_delete")[1] = "find_note"
    /\ \A k \in DOMAIN Program("upload") : Program("upload")[k] = "save" => k = 2
BY DEF Program, Remove, NoteDelete, Upload

LEMMA SaveComesSecond ==
    ASSUME TypeOK, AtStep, NEW r \in Reqs, SaveFile(r)
    PROVE  pc[r] = 2 /\ job[r].op = "upload" /\ answer[r] = "none"
<1>1. job[r].op = "upload" /\ Running(r) /\ Step(r) = "save"
  BY Where DEF SaveFile, At, StepNames
<1>2. pc[r] \in DOMAIN Program("upload")
  BY <1>1, Inside
<1> QED
  BY <1>1, <1>2, FirstSteps DEF Step, Running

LEMMA SavedLateInvariant ==
    ASSUME TypeOK, AtStep, SavedLate, [Next]_vars
    PROVE  SavedLate'
<1> SUFFICES ASSUME NEW r \in Reqs, file'[r] # "absent"
             PROVE  pc'[r] >= 3 \/ answer'[r] # "none"
  BY DEF SavedLate
<1>0. pc[r] \in 0 .. 4 /\ pc'[r] \in 0 .. 4 /\ pc'[r] >= pc[r] /\ r \in Atts
  BY PcGrows, JobsInvariant DEF TypeOK, Atts
<1>1. CASE file[r] # "absent"
  <2>1. pc[r] >= 3 => pc'[r] >= 3
    BY <1>0
  <2>2. answer[r] # "none" => answer'[r] # "none"
    <3>1. answer[r] # "none" => ~Receive(r) /\ ~(Serve(r) \/ Throw(r))
      BY ServeMoves DEF Receive, Running
    <3> QED
      BY <3>1, RequestMoves
  <2> QED
    BY <1>1, <2>1, <2>2 DEF SavedLate
<1>2. CASE file[r] = "absent"
  <2>1. SaveFile(r)
    <3>1. ASSUME NEW q \in Reqs, SaveFile(q), q # r
          PROVE  FALSE
      BY <1>0, <1>2, <3>1 DEF SaveFile, TypeOK
    <3>2. ASSUME NEW q \in Reqs, Unlink(q) \/ CleanTrySucceeds(q)
          PROVE  FALSE
      BY <1>0, <1>2, <3>2 DEF Unlink, CleanTrySucceeds, TypeOK
    <3> QED
      BY <1>2, <3>1, <3>2, FilesFrame
  <2>2. pc[r] = 2
    BY <2>1, SaveComesSecond
  <2>3. Advance(r) \/ Answer(r, "500")
    BY <2>1 DEF SaveFile
  <2>4. Advance(r) => pc'[r] = 3
    BY <2>2 DEF Advance, TypeOK
  <2>5. Answer(r, "500") => answer'[r] # "none"
    BY DEF Answer, TypeOK
  <2> QED
    BY <2>3, <2>4, <2>5
<1> QED
  BY <1>1, <1>2

LEMMA LifeInvHolds == Spec => []LifeInv
<1>1. Init => SavedLate
  BY IdsAssumption DEF Init, SavedLate, Atts
<1>2. IndInv /\ SavedLate /\ [Next]_vars => SavedLate'
  BY SavedLateInvariant DEF IndInv
<1>3. IndInv /\ SavedLate => LifeInv
  BY DEF LifeInv
<1> QED
  BY <1>1, <1>2, <1>3, Inductive, PTL DEF Spec

(* The note of an attachment is settled when its row is inserted.          *)
LEMMA OwnerKept ==
    ASSUME TypeOK, AtStep, Uploads, [Next]_vars, NEW a \in Atts, row[a] # "free"
    PROVE  Owner'[a] = Owner[a]
BY RowsKept DEF Owner

LEMMA OwnersKept ==
    ASSUME TypeOK, AtStep, Uploads, [Next]_vars, \A a \in Atts : row[a] = "free" => row'[a] = "free"
    PROVE  Owner' = Owner
<1>1. \A a \in Atts : row'[a] = "free" <=> row[a] = "free"
  BY RowsKept
<1>2. \A a \in Atts : row[a] # "free" => NoteOf(a)' = NoteOf(a)
  BY RowsKept
<1> QED
  BY <1>1, <1>2 DEF Owner

LEMMA AsksKept ==
    ASSUME TypeOK, AtStep, [Next]_vars, NEW r \in Reqs, Asks(r)
    PROVE  Asks(r)' /\ job'[r] = job[r]
<1>1. pc[r] \in 0 .. 4 /\ pc'[r] \in 0 .. 4 /\ pc'[r] >= pc[r]
  BY PcGrows, JobsInvariant DEF TypeOK
<1>2. job'[r] = job[r]
  BY JobsKept DEF Asks
<1> QED
  BY <1>1, <1>2 DEF Asks

(* A request asks when its first statement finds what it is to delete.     *)
LEMMA AsksWhenFound ==
    ASSUME TypeOK, AtStep, [Next]_vars, NEW r \in Reqs, ~Asks(r), Asks(r)'
    PROVE  /\ UNCHANGED <<noteRow, row, file, job>>
           /\ \A q \in Reqs : q # r => pc'[q] = pc[q]
           /\ \/ job[r].op = "remove" /\ row[job[r].target] = "live"
              \/ job[r].op = "note_delete" /\ noteRow[job[r].target] = "live"
<1>0. pc[r] \in 0 .. 4
  BY DEF TypeOK
<1>1. Serve(r) \/ Throw(r)
  BY RequestMoves DEF Asks
<1>2. job' = job /\ Running(r)
  BY <1>1, ServeMoves
<1>3. job[r].op \in {"remove", "note_delete"} /\ pc[r] < 2 /\ pc'[r] >= 2
  BY <1>0, <1>2 DEF Asks
<1>4. pc[r] = 1 /\ pc'[r] # pc[r]
  BY <1>0, <1>2, <1>3 DEF Running
<1>5. Step(r) = IF job[r].op = "remove" THEN "find" ELSE "find_note"
  BY <1>3, <1>4, FirstSteps DEF Step
<1>6. Serve(r)
  BY <1>1, <1>4 DEF Throw, Answer
<1>7. IF job[r].op = "remove" THEN Find(r) ELSE FindNote(r)
  BY <1>5, <1>6 DEF Serve, FindNote, Find, SaveFile, InsertRow, ReadFile, Unlink, DropRow,
                    ListFiles, DropNote, At
<1>8. ~Answer(r, "404")
  BY <1>4 DEF Answer
<1>9. \A q \in Reqs : q # r => pc'[q] = pc[q]
  BY <1>1, <1>2, ServeMoves, Moves
<1> QED
  BY <1>2, <1>3, <1>7, <1>8, <1>9 DEF Find, FindNote, dbVars, fsVars

LEMMA StoreInit ==
    ASSUME Init
    PROVE  Store!Init
<1>1. noteRow \in [Notes -> {"live"}] /\ row \in [Atts -> {"free", "live"}]
  BY DEF Init
<1>2. file \in [Atts -> {"absent", "whole"}]
  BY StoredAssumption DEF Init, Atts
<1>3. Owner \in [Atts -> Notes \cup {None}]
  BY StoredAssumption DEF Init, Owner, NoteOf
<1>4. Asked = {}
  BY DEF Init, Asked, NoJob
<1> QED
  BY <1>1, <1>2, <1>3, <1>4 DEF Store!Init, Owner

LEMMA StoreAsk ==
    ASSUME IndInv, [Next]_vars, NEW r \in Reqs, ~Asks(r), Asks(r)'
    PROVE  Store!Next
<1> PICK x : x = job[r].target
  OBVIOUS
<1>1. /\ UNCHANGED <<noteRow, row, file, job>>
      /\ \A q \in Reqs : q # r => (Asks(q)' <=> Asks(q))
      /\ \/ job[r].op = "remove" /\ row[x] = "live"
         \/ job[r].op = "note_delete" /\ noteRow[x] = "live"
  BY AsksWhenFound DEF IndInv, Asks
<1>2. Asked' = Asked \cup {x}
  <2>1. Asked = {job[q].target : q \in {p \in Reqs : Asks(p)}}
    BY DEF Asked, Asks
  <2>2. Asked' = {job[q].target : q \in {p \in Reqs : Asks(p)'}}
    BY <1>1 DEF Asked, Asks
  <2>3. {p \in Reqs : Asks(p)'} = {p \in Reqs : Asks(p)} \cup {r}
    BY <1>1
  <2> QED
    BY <2>1, <2>2, <2>3
<1>3. Owner' = Owner
  BY <1>1, OwnersKept DEF IndInv
<1>4. CASE job[r].op = "remove" /\ row[x] = "live"
  <2>1. x \in Atts
    BY <1>4 DEF IndInv, Targets
  <2>2. Store!Ask(x, row)
    BY <1>1, <1>2, <1>3, <1>4 DEF Store!Ask, Owner
  <2> QED
    BY <2>1, <2>2 DEF Store!Next
<1>5. CASE job[r].op = "note_delete" /\ noteRow[x] = "live"
  <2>1. x \in Notes
    BY <1>5 DEF IndInv, Targets
  <2>2. Store!Ask(x, noteRow)
    BY <1>1, <1>2, <1>3, <1>5 DEF Store!Ask, Owner
  <2> QED
    BY <2>1, <2>2 DEF Store!Next
<1> QED
  BY <1>1, <1>4, <1>5

LEMMA AskedSame ==
    ASSUME TypeOK, AtStep, [Next]_vars, \A r \in Reqs : Asks(r)' => Asks(r)
    PROVE  Asked' = Asked
<1>1. \A r \in Reqs : (Asks(r)' <=> Asks(r)) /\ (Asks(r) => job'[r] = job[r])
  BY AsksKept
<1>2. Asked = {job[q].target : q \in {p \in Reqs : Asks(p)}}
  BY DEF Asked, Asks
<1>3. Asked' = {job'[q].target : q \in {p \in Reqs : Asks(p)'}}
  BY DEF Asked, Asks
<1>4. Asked' = {job'[q].target : q \in {p \in Reqs : Asks(p)}}
  BY <1>1, <1>3
<1> QED
  BY <1>1, <1>2, <1>4

(* A file appears where there was none, and goes when a client asked.      *)
LEMMA StoreFiles ==
    ASSUME LifeInv, [Next]_vars, UNCHANGED <<noteRow, row>>, Asked' = Asked
    PROVE  Store!Next \/ UNCHANGED Store!vars
<1>0. /\ TypeOK /\ AtStep /\ Targets /\ Uploads /\ Cleaners
      /\ SavedLate
      /\ Owner' = Owner
  BY OwnersKept DEF LifeInv, IndInv
<1>1. ASSUME NEW a \in Atts, file' = [file EXCEPT ![a] = "absent"],
             row[a] # "free", a \in Asked \/ NoteOf(a) \in Asked
      PROVE  Store!Next
  <2>1. Store!Unlink(a)
    BY <1>0, <1>1 DEF Store!Unlink, Owner
  <2> QED
    BY <2>1 DEF Store!Next
<1>2. ASSUME NEW r \in Reqs, SaveFile(r)
      PROVE  Store!Next \/ UNCHANGED Store!vars
  <2>1. r \in Atts /\ Running(r) /\ row[r] = "free"
    BY <1>0, <1>2 DEF Atts, SaveFile, At, Uploads, TypeOK
  <2>2. file[r] = "absent"
    BY <1>0, <1>2, SaveComesSecond DEF SavedLate
  <2>3. PICK f \in {"whole", "short", "broken", "absent"} : file' = [file EXCEPT ![r] = f]
    BY <1>2 DEF SaveFile
  <2>4. CASE f = "absent"
    <3>1. file' = file
      BY <1>0, <2>1, <2>2, <2>3, <2>4 DEF TypeOK
    <3> QED
      BY <1>0, <3>1 DEF Store!vars, Owner
  <2>5. CASE f # "absent"
    <3>1. Store!Save(r)
      BY <1>0, <2>1, <2>2, <2>3, <2>5 DEF Store!Save, Owner
    <3> QED
      BY <2>1, <3>1 DEF Store!Next
  <2> QED
    BY <2>4, <2>5
<1>3. ASSUME NEW r \in Reqs, Unlink(r), file' # file
      PROVE  Store!Next
  <2>1. job[r].op = "remove" /\ pc[r] = 2
    BY <1>0, <1>3, Where DEF Unlink, StepNames
  <2>2. job[r].target \in Atts /\ row[job[r].target] # "free" /\ job[r].target \in Asked
    BY <1>0, <2>1 DEF Targets, Asked
  <2>3. file' = [file EXCEPT ![job[r].target] = "absent"]
    BY <1>3 DEF Unlink
  <2> QED
    BY <1>1, <2>2, <2>3
<1>4. ASSUME NEW r \in Reqs, CleanTrySucceeds(r)
      PROVE  Store!Next
  <2>1. PICK a \in Atts : a = cleaner[r].cur
    BY <1>0, <1>4 DEF CleanTrySucceeds, TypeOK
  <2>2. file' = [file EXCEPT ![a] = "absent"]
    BY <1>4, <2>1 DEF CleanTrySucceeds
  <2>3. cleaner[r] # NoCleaner /\ a \in cleaner[r].left
    BY <1>0, <1>4, <2>1 DEF CleanTrySucceeds, Cleaning, NoCleaner, Cleaners
  <2>4. /\ row[a] # "free" /\ NoteOf(a) = job[r].target
        /\ job[r].op = "note_delete" /\ pc[r] >= 3
    BY <1>0, <2>3 DEF Cleaners
  <2>5. pc[r] >= 2
    BY <1>0, <2>4 DEF TypeOK
  <2>6. NoteOf(a) \in Asked
    BY <2>4, <2>5 DEF Asked
  <2> QED
    BY <1>1, <2>2, <2>4, <2>6
<1>5. CASE file' = file
  BY <1>0, <1>5 DEF Store!vars, Owner
<1> QED
  BY <1>2, <1>3, <1>4, <1>5, FilesFrame

(* A row comes after its file, and goes after it or with its note.         *)
LEMMA StoreRows ==
    ASSUME LifeInv, [Next]_vars, Asked' = Asked,
           NEW r \in Reqs, InsertRow(r) \/ DropRow(r) \/ DropNote(r)
    PROVE  Store!Next \/ UNCHANGED Store!vars
<1>0. /\ TypeOK /\ AtStep /\ Targets /\ Uploads /\ NoOrphanRow /\ Unlinked
      /\ file' = file
  BY DEF LifeInv, IndInv, InsertRow, DropRow, DropNote, fsVars
<1> PICK x : x = job[r].target
  OBVIOUS
<1>1. CASE InsertRow(r) /\ ForeignKeyHolds(x)
  <2>1. /\ r \in Atts \ Stored /\ Running(r) /\ row[r] = "free"
        /\ file[r] \in {"whole", "short"}
    BY <1>0, <1>1, IdsAssumption DEF Atts, InsertRow, At, Uploads, TypeOK
  <2>2. job[r].op = "upload" /\ x \in Notes /\ noteRow[x] = "live"
    BY <1>0, <1>1, Where DEF InsertRow, StepNames, Targets, ForeignKeyHolds
  <2>3. row' = [row EXCEPT ![r] = "live"] /\ noteRow' = noteRow /\ job' = job
    BY <1>1 DEF InsertRow
  <2>4. Owner' = [Owner EXCEPT ![r] = x]
    <3>1. NoteOf(r)' = x /\ row'[r] = "live"
      BY <1>0, <2>1, <2>3 DEF NoteOf, TypeOK
    <3>2. \A a \in Atts : a # r => row'[a] = row[a] /\ NoteOf(a)' = NoteOf(a)
      BY <1>0, <2>3 DEF NoteOf, TypeOK
    <3> QED
      BY <2>1, <3>1, <3>2 DEF Owner
  <2>5. Store!Insert(r, x)
    BY <1>0, <2>1, <2>2, <2>3, <2>4 DEF Store!Insert, Owner
  <2> QED
    BY <2>1, <2>2, <2>5 DEF Store!Next
<1>2. CASE InsertRow(r) /\ ~ForeignKeyHolds(x)
  <2>1. UNCHANGED <<noteRow, row>>
    BY <1>2 DEF InsertRow
  <2> QED
    BY <2>1, StoreFiles
<1>3. CASE DropRow(r)
  <2>1. job[r].op = "remove" /\ pc[r] = 3
    BY <1>0, <1>3, Where DEF DropRow, StepNames
  <2>2. x \in Atts /\ row[x] # "free" /\ x \in Asked /\ file[x] = "absent"
    BY <1>0, <2>1 DEF Targets, Asked, Unlinked
  <2>3. noteRow' = noteRow /\ row' = [row EXCEPT ![x] = IF row[x] = "live" THEN "gone" ELSE row[x]]
    BY <1>3 DEF DropRow
  <2>4. CASE row[x] = "live"
    <3>1. row' = [row EXCEPT ![x] = "gone"]
      BY <2>3, <2>4
    <3>2. Owner' = Owner
      BY <1>0, <2>2, <3>1, OwnersKept DEF TypeOK
    <3>3. Store!Drop(x)
      BY <1>0, <2>2, <2>3, <2>4, <3>1, <3>2 DEF Store!Drop, Owner
    <3> QED
      BY <2>2, <3>3 DEF Store!Next
  <2>5. CASE row[x] # "live"
    <3>1. row' = row
      BY <1>0, <2>3, <2>5 DEF TypeOK
    <3> QED
      BY <2>3, <3>1, StoreFiles
  <2> QED
    BY <2>4, <2>5
<1>4. CASE DropNote(r)
  <2>1. job[r].op = "note_delete" /\ pc[r] = 3
    BY <1>0, <1>4, Where DEF DropNote, StepNames
  <2>2. x \in Notes /\ x \in Asked
    BY <1>0, <2>1 DEF Targets, Asked
  <2>3. noteRow' = [noteRow EXCEPT ![x] = "gone"]
    BY <1>4 DEF DropNote
  <2>4. row' = [a \in Atts |-> IF row[a] = "live" /\ Owner[a] = x THEN "gone" ELSE row[a]]
    BY <1>4 DEF DropNote, Cascade, AttachmentsOf, Owner
  <2>5. CASE noteRow[x] = "live"
    <3>1. Owner' = Owner
      BY <1>0, <2>4, OwnersKept
    <3>2. Store!DropNote(x)
      BY <1>0, <2>2, <2>3, <2>4, <2>5, <3>1 DEF Store!DropNote, Owner
    <3> QED
      BY <2>2, <3>2 DEF Store!Next
  <2>6. CASE noteRow[x] # "live"
    <3>1. \A a \in Atts : row[a] = "live" => Owner[a] # x
      BY <1>0, <2>6 DEF NoOrphanRow, Owner
    <3>2. noteRow' = noteRow /\ row' = row
      BY <1>0, <2>2, <2>3, <2>4, <2>6, <3>1 DEF TypeOK
    <3> QED
      BY <3>2, StoreFiles
  <2> QED
    BY <2>5, <2>6
<1> QED
  BY <1>1, <1>2, <1>3, <1>4

(* However handlers and cleaning tasks interleave, fail and stop half-way, *)
(* each step is one operation of AttachmentStore on the row and the file   *)
(* of one attachment, or none.                                             *)
THEOREM LifeIsKept == Spec => AttachmentLife
<1>1. Init => Store!Init
  BY StoreInit
<1>2. LifeInv /\ [Next]_vars => [Store!Next]_(Store!vars)
  <2> SUFFICES ASSUME LifeInv, [Next]_vars
               PROVE  Store!Next \/ UNCHANGED Store!vars
    OBVIOUS
  <2>1. CASE \E r \in Reqs : ~Asks(r) /\ Asks(r)'
    BY <2>1, StoreAsk DEF LifeInv
  <2>2. CASE \A r \in Reqs : Asks(r)' => Asks(r)
    <3>1. Asked' = Asked
      BY <2>2, AskedSame DEF LifeInv, IndInv
    <3> QED
      BY <3>1, RowsFrame, StoreRows, StoreFiles
  <2> QED
    BY <2>1, <2>2
<1> QED
  BY <1>1, <1>2, LifeInvHolds, PTL DEF Spec, AttachmentLife, Store!Spec

=============================================================================
