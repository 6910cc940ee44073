----------------------- MODULE NoteSync_texts_proofs -----------------------
(***************************************************************************)
(* Proofs about the texts that the handlers of NoteSync send, for every    *)
(* set of requests, every choice of handlers and every initial database.   *)
(* First, what a handler has written when it answers, and that its text    *)
(* shows it.  Then, how the text that the AI service has of a note relates *)
(* to the database: that the one which agrees with it is among those sent  *)
(* when only handlers run that write first, and that another one has one   *)
(* of the causes that Excused lists.  Last, that a text is about one note  *)
(* only, and shows what was answered before its request came.              *)
(***************************************************************************)
EXTENDS NoteSync_proofs

Reading == {"head", "lists", "items"}

(* The query of FormatNote that reads the row which the handler writes.   *)
Level(op) ==
    CASE op \in {"note_post", "note_patch"}           -> "head"
      [] op \in {"checklist_post", "checklist_patch"} -> "lists"
      [] op = "item_patch"                            -> "items"

-----------------------------------------------------------------------------
(* The parts of the inductive invariant, in addition to IndInv.            *)

(* Request r is past its step s.                                           *)
Done(r, s) ==
    \E k \in DOMAIN Program(job[r].op) : k < pc[r] /\ Program(job[r].op)[k] = s

Fields == \A r \in Reqs : job[r].op # "none" => job[r].fields \in FieldsOf(job[r].op)

(* A handler answers 200 or 201 at its end only.                           *)
OkAtEnd ==
    \A r \in Reqs : answer[r] = "ok" =>
        job[r].op # "none" /\ pc[r] = Len(Program(job[r].op)) + 1

(* What a request has inserted or updated is there, or an UPDATE found its *)
(* row gone; the step that reads the row afterwards rules this out.        *)
Written ==
    \A r \in Reqs : job[r].op # "none" =>
        /\ Done(r, "insert") => status[r] # "free" /\ <<r, "insert">> \in writes[r]
        /\ \A c \in job[r].fields :
              /\ Done(r, c) =>
                    status[job[r].target] = "gone" \/ <<r, c>> \in writes[job[r].target]
              /\ Done(r, "noteid") \/ (job[r].op = "note_patch" /\ Done(r, "head")) =>
                    <<r, c>> \in writes[job[r].target]

(* The note_id of a handler that writes first is that of the row it wrote. *)
NoteIsRoot ==
    \A r \in Reqs :
        /\ job[r].op = "note_post" /\ Done(r, "insert") => note[r] = r
        /\ job[r].op = "checklist_post" /\ Done(r, "insert") => parent[r] = job[r].target
        /\ job[r].op = "checklist_patch" /\ Done(r, "noteid") =>
              note[r] = parent[job[r].target]
        /\ job[r].op = "item_patch" /\ Done(r, "noteid") =>
              note[r] = parent[parent[job[r].target]]

Shows(T, r) == \E q \in T : q.row = OwnRow(r) /\ OwnWrites(r) \subseteq q.holds

Shown(r) == Shows(text[r], r)

(* Once FormatNote has read the row, the text shows it with what the      *)
(* handler wrote; before, it still has to visit the checklist of an item.  *)
TextShows ==
    \A r \in Reqs : job[r].op \in WriteFirst /\ Running(r) =>
        /\ Done(r, Level(job[r].op)) => status[OwnRow(r)] = "gone" \/ Shown(r)
        /\ job[r].op = "item_patch" /\ Done(r, "lists") =>
              \/ status[OwnRow(r)] = "gone"
              \/ Shown(r)
              \/ parent[job[r].target] \in todo[r]

(* Only a request that was received leaves a task.                         *)
TaskOwned == \A r \in Reqs : task[r].state # "none" => job[r].op # "none"

TextInv ==
    /\ IndInv
    /\ Fields /\ OkAtEnd /\ Written /\ NoteIsRoot /\ TextShows
    /\ TaskOwned /\ OwnWriteSent

-----------------------------------------------------------------------------
(* Lemmas about the programs of the handlers.                              *)

(* What is used of the order of the steps: every step occurs once, what is *)
(* given is written before the row is read again, and a handler that       *)
(* writes first reads the whole note afterwards and sends it at last.      *)
LEMMA OrderFacts ==
    ASSUME NEW op \in AllOps
    PROVE  LET P == Program(op)
           IN  /\ \A j, k \in DOMAIN P : P[j] = P[k] => j = k
               /\ op \in Inserting => \E k \in DOMAIN P : P[k] = "insert"
               /\ op \in Deleting => \E k \in DOMAIN P : P[k] = "delete"
               /\ op = "note_patch" => \E k \in DOMAIN P : P[k] = "head"
               /\ op \in {"checklist_patch", "item_patch"} =>
                     \E k \in DOMAIN P : P[k] = "noteid"
               /\ \A k \in DOMAIN P :
                     P[k] = "noteid" \/ (op = "note_patch" /\ P[k] = "head") =>
                         \A f \in FieldsOf(op) : \A c \in f :
                             \E j \in DOMAIN P : j < k /\ P[j] = c
<1> USE DEF AllOps, Columns, Inserting, Deleting, FieldsOf, Program
<1>1. CASE op = "note_post"
  BY <1>1 DEF NotePost
<1>2. CASE op = "note_patch"
  BY <1>2 DEF NotePatch
<1>3. CASE op = "note_delete"
  BY <1>3 DEF NoteDelete
<1>4. CASE op = "checklist_post"
  BY <1>4 DEF ChecklistPost
<1>5. CASE op = "checklist_patch"
  BY <1>5 DEF ChecklistPatch
<1>6. CASE op = "checklist_delete"
  BY <1>6 DEF ChecklistDelete
<1>7. CASE op = "item_post"
  BY <1>7 DEF ItemPost
<1>8. CASE op = "item_patch"
  BY <1>8 DEF ItemPatch
<1>9. CASE op = "item_delete"
  BY <1>9 DEF ItemDelete
<1> QED
  BY <1>1, <1>2, <1>3, <1>4, <1>5, <1>6, <1>7, <1>8, <1>9

LEMMA WriteFirstFacts ==
    ASSUME NEW op \in WriteFirst
    PROVE  LET P == Program(op)
           IN  /\ op \in AllOps
               /\ \A j, k \in DOMAIN P :
                     P[j] \in {"noteid", "insert"} /\ P[k] \in {"noteid", "insert"} => j = k
               /\ \A k \in DOMAIN P : P[k] = "send" => k = Len(P)
               /\ \A k \in DOMAIN P : P[k] \in Reading \cup {"send"} =>
                     /\ op \in Inserting => \E j \in DOMAIN P : j < k /\ P[j] = "insert"
                     /\ op \in {"checklist_patch", "item_patch"} =>
                           \E j \in DOMAIN P : j < k /\ P[j] = "noteid"
                     /\ \A f \in FieldsOf(op) : \A c \in f :
                           \E j \in DOMAIN P : j < k /\ P[j] = c
               /\ \A j, k \in DOMAIN P :
                     P[j] = "head" /\ P[k] \in {"lists", "items"} => j < k
               /\ \A j, k \in DOMAIN P : P[j] = "lists" /\ P[k] = "items" => j < k
               /\ \A k \in DOMAIN P : P[k] = "send" =>
                     \E j \in DOMAIN P : j < k /\ P[j] = Level(op)
               /\ \A k \in DOMAIN P : P[k] = "items" =>
                     \E j \in DOMAIN P : j < k /\ P[j] = "lists"
               /\ Level(op) \in Reading
<1> USE DEF WriteFirst, AllOps, Columns, Inserting, FieldsOf, Program, Level, Reading
<1>1. CASE op = "note_post"
  BY <1>1 DEF NotePost
<1>2. CASE op = "note_patch"
  BY <1>2 DEF NotePatch
<1>3. CASE op = "checklist_post"
  BY <1>3 DEF ChecklistPost
<1>4. CASE op = "checklist_patch"
  BY <1>4 DEF ChecklistPatch
<1>5. CASE op = "item_patch"
  BY <1>5 DEF ItemPatch
<1> QED
  BY <1>1, <1>2, <1>3, <1>4, <1>5

-----------------------------------------------------------------------------
(* What a step does to a request and to the rows.                          *)

(* A request goes past a step only by taking it, and not by failing.       *)
LEMMA StepDone ==
    ASSUME Types, AtStep, [Next]_vars, NEW r \in Reqs, NEW s \in StepNames,
           Done(r, s)', ~ Done(r, s)
    PROVE  /\ At(r, {s}) /\ Serve(r)
           /\ job'[r] = job[r] /\ job[r].op \in AllOps
           /\ pc'[r] = pc[r] + 1
<1>1. PICK k \in DOMAIN Program(job'[r].op) : k < pc'[r] /\ Program(job'[r].op)[k] = s
  BY DEF Done
<1>2. ASSUME NEW q \in Reqs, Receive(q)
      PROVE  FALSE
  <2>1. CASE q = r
    <3>1. pc'[r] = 1
      BY <1>2, <2>1 DEF Receive, Types
    <3>2. job'[r].op \in AllOps
      BY <1>2, <2>1, OpsAssumption DEF Receive, Types
    <3>3. DOMAIN Program(job'[r].op) = 1 .. Len(Program(job'[r].op))
      BY <3>2, ProgramFacts
    <3> QED
      BY <1>1, <3>1, <3>3
  <2>2. CASE q # r
    BY <1>2, <2>2 DEF Receive, Types, Done
  <2> QED
    BY <2>1, <2>2
<1>3. ASSUME job'[r] = job[r], pc'[r] = pc[r]
      PROVE  FALSE
  BY <1>1, <1>3 DEF Done
<1>4. ASSUME NEW q \in Reqs, Serve(q) \/ Throw(q)
      PROVE  q = r /\ Serve(r) /\ job'[r] = job[r] /\ pc'[r] = pc[r] + 1
  <2>1. job' = job /\ Running(q) /\ (\/ Advance(q) \/ \E code \in Codes : Answer(q, code)
                                     \/ UNCHANGED <<pc, answer>>)
    BY <1>4, ServeMoves
  <2>2. pc' # pc
    BY <1>3, <2>1
  <2>3. Advance(q)
    BY <2>1, <2>2 DEF Answer
  <2>4. q = r
    BY <1>3, <2>1, <2>3 DEF Advance, Types
  <2>5. pc'[r] = pc[r] + 1
    BY <2>3, <2>4 DEF Advance, Types
  <2>6. ~ Throw(q)
    BY <2>2 DEF Throw, Answer
  <2> QED
    BY <1>4, <2>1, <2>4, <2>5, <2>6
<1>5. ASSUME NEW q \in Reqs, RunTask(q)
      PROVE  FALSE
  BY <1>3, <1>5 DEF RunTask, Deliver, CallFails
<1>6. CASE Restart \/ UNCHANGED vars
  BY <1>3, <1>6 DEF Restart, vars
<1>7. Serve(r) /\ job'[r] = job[r] /\ pc'[r] = pc[r] + 1
  BY <1>2, <1>4, <1>5, <1>6 DEF Next, Rest
<1>8. Running(r)
  BY <1>7, ServeMoves
<1>9. job[r].op \in AllOps /\ pc[r] \in DOMAIN Program(job[r].op)
  BY <1>8 DEF Running, AtStep, Types
<1>10. k = pc[r]
  <2>1. k \in DOMAIN Program(job[r].op) /\ k < pc[r] + 1 /\ ~ (k < pc[r])
    BY <1>1, <1>7 DEF Done
  <2>2. DOMAIN Program(job[r].op) \subseteq Nat
    BY <1>9, ProgramFacts
  <2> QED
    BY <1>9, <2>1, <2>2
<1> QED
  BY <1>1, <1>7, <1>8, <1>9, <1>10 DEF At, Step

(* A request that has been received stays past the steps it has taken.    *)
LEMMA DoneKept ==
    ASSUME Types, AtStep, [Next]_vars, NEW r \in Reqs, job[r].op # "none", NEW s, Done(r, s)
    PROVE  Done(r, s)' /\ job'[r] = job[r]
<1>1. job'[r] = job[r]
  BY JobsKept
<1>2. pc[r] \in Nat /\ pc'[r] \in Nat
  <2>1. pc \in [Reqs -> 0 .. 9]
    BY DEF Types
  <2>2. pc' \in [Reqs -> 0 .. 9]
    BY AtStepInvariant
  <2> QED
    BY <2>1, <2>2
<1>3. job[r].op \in AllOps
  BY DEF Types
<1>4. DOMAIN Program(job[r].op) \subseteq Nat
  BY <1>3, ProgramFacts
<1>5. pc'[r] >= pc[r]
  <2>1. ASSUME NEW q \in Reqs, Receive(q)
        PROVE  pc'[r] = pc[r]
    <3>1. q # r
      BY <2>1 DEF AtStep, Receive
    <3> QED
      BY <2>1, <3>1 DEF Receive, Types
  <2>2. ASSUME NEW q \in Reqs, Serve(q) \/ Throw(q)
        PROVE  pc'[r] >= pc[r]
    <3>1. CASE UNCHANGED <<pc, answer>>
      BY <1>2, <3>1
    <3> QED
      BY <2>2, <3>1, ServeMoves, Moves
  <2>3. ASSUME NEW q \in Reqs, RunTask(q)
        PROVE  pc' = pc
    BY <2>3 DEF RunTask, Deliver, CallFails
  <2>4. Restart \/ UNCHANGED vars => pc' = pc
    BY DEF Restart, vars
  <2> QED
    BY <1>2, <2>1, <2>2, <2>3, <2>4 DEF Next, Rest
<1> QED
  BY <1>1, <1>2, <1>4, <1>5 DEF Done

(* A row never loses what was written to it.                               *)
LEMMA WritesGrow ==
    ASSUME Types, AtStep, NotInsertedYet, [Next]_vars,
           NEW x \in Ids, status[x] # "free"
    PROVE  writes[x] \subseteq writes'[x]
<1> USE DEF dbVars, textVars, syncVars
<1>1. ASSUME NEW r \in Reqs, Insert(r)
      PROVE  writes'[x] = writes[x]
  <2>1. x # r
    BY <1>1, InsertIsFresh DEF Insert
  <2> QED
    BY <1>1, <2>1 DEF Insert, Types
<1>2. ASSUME NEW r \in Reqs, Update(r)
      PROVE  writes[x] \subseteq writes'[x]
  BY <1>2 DEF Update, Types
<1>3. ASSUME NEW r \in Reqs, Serve(r), ~ Insert(r), ~ Update(r)
      PROVE  writes' = writes
  BY <1>3 DEF Serve, Find, ListFiles, GetNoteId, Delete, ReadHead, ReadLists, ReadItems, Send
<1>4. CASE \E r \in Reqs : Receive(r) \/ Throw(r) \/ RunTask(r)
  BY <1>4 DEF Receive, Throw, RunTask, Deliver, CallFails
<1>5. CASE Restart \/ UNCHANGED vars
  BY <1>5 DEF Restart, vars
<1> QED
  BY <1>1, <1>2, <1>3, <1>4, <1>5 DEF Next, Rest

-----------------------------------------------------------------------------
(* What a handler has written.                                             *)

LEMMA FieldsInvariant ==
    ASSUME Types, AtStep, Fields, [Next]_vars
    PROVE  Fields'
<1>1. SUFFICES ASSUME NEW r \in Reqs, job'[r].op # "none"
               PROVE  job'[r].fields \in FieldsOf(job'[r].op)
  BY DEF Fields
<1>2. CASE Receive(r)
  <2>1. PICK op \in Ops, x \in Ids \cup {None} : \E f \in FieldsOf(op) :
          job' = [job EXCEPT ![r] = [op |-> op, target |-> x, fields |-> f,
                         after |-> Answered, ended |-> Ended]]
    BY <1>2 DEF Receive, Known
  <2>2. PICK f \in FieldsOf(op) :
          job' = [job EXCEPT ![r] = [op |-> op, target |-> x, fields |-> f,
                         after |-> Answered, ended |-> Ended]]
    BY <2>1
  <2> QED
    BY <2>2 DEF Types
<1>3. CASE job'[r] = job[r]
  BY <1>1, <1>3 DEF Fields
<1>4. ASSUME NEW q \in Reqs, Receive(q), q # r
      PROVE  job'[r] = job[r]
  BY <1>4 DEF Receive, Types
<1> QED
  BY <1>2, <1>3, <1>4, JobsFrame

(* An early answer is one of failure.                                      *)
LEMMA ServeAnswers ==
    ASSUME NEW r \in Reqs, Serve(r) \/ Throw(r)
    PROVE  \/ Advance(r)
           \/ \E code \in {"404", "500"} : Answer(r, code)
           \/ UNCHANGED <<pc, answer>>
<1> USE DEF AdvanceOrThrow
<1>1. CASE Find(r) \/ ListFiles(r) \/ GetNoteId(r) \/ Insert(r)
  BY <1>1 DEF Find, ListFiles, GetNoteId, Insert
<1>2. CASE Update(r) \/ Delete(r) \/ ReadHead(r) \/ ReadLists(r)
  BY <1>2 DEF Update, Delete, ReadHead, ReadLists
<1>3. CASE ReadItems(r) \/ Send(r) \/ Throw(r)
  BY <1>3 DEF ReadItems, Send, Throw
<1> QED
  BY <1>1, <1>2, <1>3 DEF Serve

LEMMA OkAtEndInvariant ==
    ASSUME Types, AtStep, OkAtEnd, [Next]_vars
    PROVE  OkAtEnd'
<1>1. SUFFICES ASSUME NEW r \in Reqs, answer'[r] = "ok"
               PROVE  job'[r].op # "none" /\ pc'[r] = Len(Program(job'[r].op)) + 1
  BY DEF OkAtEnd
<1>2. CASE answer[r] = "ok" /\ pc'[r] = pc[r]
  BY <1>2, JobsKept DEF OkAtEnd
<1>3. ASSUME NEW q \in Reqs, Receive(q)
      PROVE  answer[r] = "ok" /\ pc'[r] = pc[r]
  <2>1. answer[r] = "ok" /\ q # r
    BY <1>1, <1>3 DEF Receive
  <2> QED
    BY <1>3, <2>1 DEF Receive, Types
<1>4. ASSUME NEW q \in Reqs, Serve(q) \/ Throw(q)
      PROVE  \/ answer[r] = "ok" /\ pc'[r] = pc[r]
             \/ /\ q = r /\ job'[r] = job[r] /\ Running(r)
                /\ pc[r] = Len(Program(job[r].op)) /\ pc'[r] = pc[r] + 1
  <2>1. job' = job /\ Running(q) /\ (\/ Advance(q)
                                     \/ \E code \in {"404", "500"} : Answer(q, code)
                                     \/ UNCHANGED <<pc, answer>>)
    BY <1>4, ServeMoves, ServeAnswers
  <2>2. CASE UNCHANGED <<pc, answer>>
    BY <1>1, <2>2
  <2>3. CASE q # r
    <3>1. answer'[r] = answer[r] /\ pc'[r] = pc[r]
      BY <2>1, <2>3 DEF Advance, Answer, Types
    <3> QED
      BY <1>1, <3>1
  <2>4. CASE q = r /\ Advance(r)
    <3>1. pc[r] = Len(Program(job[r].op))
      <4>1. answer[r] = "none"
        BY <2>1, <2>4 DEF Running
      <4> QED
        BY <1>1, <2>4, <4>1 DEF Advance
    <3> QED
      BY <2>1, <2>4, <3>1 DEF Advance, Types
  <2>5. ASSUME q = r, NEW code \in {"404", "500"}, Answer(r, code)
        PROVE  FALSE
    BY <1>1, <2>5 DEF Answer, Types
  <2> QED
    BY <2>1, <2>2, <2>3, <2>4, <2>5
<1>5. ASSUME NEW q \in Reqs, RunTask(q)
      PROVE  answer' = answer /\ pc' = pc
  BY <1>5 DEF RunTask, Deliver, CallFails
<1>6. CASE Restart
  <2>1. pc' = pc /\ answer[r] = "ok"
    BY <1>1, <1>6 DEF Restart
  <2> QED
    BY <1>2, <2>1
<1>7. CASE UNCHANGED vars
  BY <1>1, <1>2, <1>7 DEF vars
<1>8. ASSUME Running(r), job'[r] = job[r], pc[r] = Len(Program(job[r].op)), pc'[r] = pc[r] + 1
      PROVE  job'[r].op # "none" /\ pc'[r] = Len(Program(job'[r].op)) + 1
  BY <1>8 DEF Running, AtStep
<1> QED
  BY <1>1, <1>2, <1>3, <1>4, <1>5, <1>6, <1>7, <1>8 DEF Next, Rest

LEMMA NothingDone ==
    ASSUME Types, AtStep, [Next]_vars, NEW r \in Reqs,
           job[r].op = "none", job'[r].op # "none", NEW s
    PROVE  ~ Done(r, s)'
<1>1. Receive(r)
  <2>1. ASSUME NEW q \in Reqs, Receive(q), q # r
        PROVE  job'[r] = job[r]
    BY <2>1 DEF Receive, Types
  <2> QED
    BY <2>1, JobsFrame
<1>2. pc'[r] = 1
  BY <1>1 DEF Receive, Types
<1>3. job'[r].op \in AllOps
  BY <1>1, OpsAssumption DEF Receive, Types
<1>4. DOMAIN Program(job'[r].op) = 1 .. Len(Program(job'[r].op))
  BY <1>3, ProgramFacts
<1> QED
  BY <1>2, <1>4 DEF Done

(* Only a PATCH has columns, and its target is a row.                      *)
LEMMA Patched ==
    ASSUME Types, Targets, Fields, NEW r \in Reqs, job[r].op # "none", NEW c \in job[r].fields
    PROVE  /\ c \in Columns /\ c \in StepNames
           /\ job[r].op \in {"note_patch", "checklist_patch", "item_patch"}
           /\ OwnRow(r) = job[r].target
           /\ job[r].target \in Ids /\ job[r].target # None
           /\ status[job[r].target] \in {"live", "gone"}
<1>1. job[r].op \in {"note_patch", "checklist_patch", "item_patch"} /\ c \in Columns
  BY DEF Fields, FieldsOf, Columns
<1>2. job[r].target \in Ids /\ job[r].target # None /\ status[job[r].target] # "free"
  BY <1>1, TargetKnown
<1>3. status[job[r].target] \in {"live", "gone"}
  BY <1>2 DEF Types
<1> QED
  BY <1>1, <1>2, <1>3 DEF OwnRow, Inserting, StepNames

(* The step that rules out that an UPDATE found its row gone.             *)
Confirmed(r) == Done(r, "noteid") \/ (job[r].op = "note_patch" /\ Done(r, "head"))

LEMMA InsertWrites ==
    ASSUME IndInv, Written, [Next]_vars, NEW r \in Reqs, job'[r].op # "none", Done(r, "insert")'
    PROVE  status'[r] # "free" /\ <<r, "insert">> \in writes'[r]
<1> USE DEF IndInv
<1>1. r \in Ids
  BY DEF Ids
<1>2. CASE job[r].op # "none" /\ Done(r, "insert")
  BY <1>1, <1>2, RowsKept, WritesGrow DEF Written
<1>3. CASE ~ Done(r, "insert")
  <2>1. At(r, {"insert"}) /\ Serve(r) /\ pc'[r] = pc[r] + 1
    BY <1>3, StepDone DEF StepNames
  <2>2. Insert(r)
    BY <2>1 DEF Serve, At, Columns, Find, ListFiles, GetNoteId, Update, Delete,
                ReadHead, ReadLists, ReadItems, Send
  <2>3. pc'[r] # pc[r]
    <3>1. pc[r] \in 0 .. 9
      BY DEF Types
    <3> QED
      BY <2>1, <3>1
  <2>4. ForeignKeyHolds(job[r].target)
    BY <2>2, <2>3 DEF Insert, Answer
  <2> QED
    BY <1>1, <2>2, <2>4 DEF Insert, Types
<1> QED
  BY <1>2, <1>3, NothingDone

LEMMA UpdateWrites ==
    ASSUME IndInv, Fields, Written, [Next]_vars, NEW r \in Reqs, job[r].op # "none",
           NEW c \in job[r].fields, Done(r, c)'
    PROVE  status'[job[r].target] = "gone" \/ <<r, c>> \in writes'[job[r].target]
<1> USE DEF IndInv
<1> DEFINE t == job[r].target
<1>1. /\ c \in Columns /\ c \in StepNames
      /\ t \in Ids /\ t # None /\ status[t] \in {"live", "gone"}
  BY Patched
<1>2. CASE Done(r, c)
  BY <1>1, <1>2, RowsKept, WritesGrow DEF Written
<1>3. CASE ~ Done(r, c)
  <2>1. At(r, {c}) /\ Serve(r) /\ pc'[r] = pc[r] + 1
    BY <1>1, <1>3, StepDone
  <2>2. Update(r) /\ Step(r) = c
    BY <1>1, <2>1 DEF Serve, At, Columns, Find, ListFiles, GetNoteId, Insert, Delete,
                ReadHead, ReadLists, ReadItems, Send
  <2>3. /\ writes' = IF Live(t) THEN [writes EXCEPT ![t] = @ \cup {<<r, c>>}] ELSE writes
        /\ status' = status
    BY <2>2 DEF Update
  <2> QED
    BY <1>1, <2>3 DEF Live, Types
<1> QED
  BY <1>2, <1>3

LEMMA ConfirmedWrites ==
    ASSUME IndInv, Fields, Written, [Next]_vars, NEW r \in Reqs, job[r].op # "none",
           NEW c \in job[r].fields, Confirmed(r)'
    PROVE  <<r, c>> \in writes'[job[r].target]
<1> USE DEF IndInv
<1> DEFINE t == job[r].target
           op == job[r].op
           P == Program(op)
<1>1. /\ c \in Columns /\ c \in StepNames /\ op \in AllOps
      /\ t \in Ids /\ t # None /\ status[t] \in {"live", "gone"}
  BY Patched DEF AllOps
<1>2. job'[r] = job[r]
  BY JobsKept
<1>3. CASE Confirmed(r)
  BY <1>1, <1>3, WritesGrow DEF Written, Confirmed
<1>4. CASE ~ Confirmed(r)
  <2>1. PICK s \in {"noteid", "head"} :
          /\ s = "noteid" \/ op = "note_patch"
          /\ At(r, {s}) /\ Serve(r) /\ pc'[r] = pc[r] + 1
    BY <1>2, <1>4, StepDone DEF Confirmed, StepNames
  <2>2. pc'[r] # pc[r]
    BY <2>1, PcType
  <2>3. Live(t) /\ writes' = writes
    <3>1. CASE s = "noteid"
      <4>1. GetNoteId(r)
        BY <2>1, <3>1 DEF Serve, At, Columns, Find, ListFiles, Insert, Update, Delete,
                          ReadHead, ReadLists, ReadItems, Send
      <4> QED
        BY <2>2, <4>1 DEF GetNoteId, NoteIdFound, Answer, dbVars
    <3>2. CASE s = "head"
      <4>1. ReadHead(r)
        BY <2>1, <3>2 DEF Serve, At, Columns, Find, ListFiles, GetNoteId, Insert, Update, Delete,
                          ReadLists, ReadItems, Send
      <4>2. note[r] = t
        BY <2>1, <3>2 DEF NoteIds, NoteKnownAtStart
      <4> QED
        BY <2>2, <4>1, <4>2 DEF ReadHead, Answer, dbVars
    <3> QED
      BY <3>1, <3>2
  <2>4. pc[r] \in DOMAIN P /\ P[pc[r]] = s
    BY <2>1 DEF At, Step, Running, AtStep
  <2>5. job[r].fields \in FieldsOf(op)
    BY DEF Fields
  <2>6. \E j \in DOMAIN P : j < pc[r] /\ P[j] = c
    BY <1>1, <2>1, <2>4, <2>5, OrderFacts
  <2>7. Done(r, c)
    BY <2>6 DEF Done
  <2> QED
    BY <2>3, <2>7 DEF Written, Live
<1> QED
  BY <1>3, <1>4

LEMMA WrittenInvariant ==
    ASSUME IndInv, Fields, Written, [Next]_vars
    PROVE  Written'
<1>1. ASSUME NEW r \in Reqs, job'[r].op # "none", Done(r, "insert")'
      PROVE  status'[r] # "free" /\ <<r, "insert">> \in writes'[r]
  BY <1>1, InsertWrites
<1>2. ASSUME NEW r \in Reqs, job'[r].op # "none", NEW c \in job'[r].fields
      PROVE  /\ Done(r, c)' => \/ status'[job'[r].target] = "gone"
                               \/ <<r, c>> \in writes'[job'[r].target]
             /\ Confirmed(r)' => <<r, c>> \in writes'[job'[r].target]
  <2>1. CASE job[r].op = "none"
    BY <1>2, <2>1, NothingDone DEF IndInv, Confirmed
  <2>2. CASE job[r].op # "none"
    <3>1. job'[r] = job[r]
      BY <2>2, JobsKept DEF IndInv
    <3> QED
      BY <1>2, <2>2, <3>1, UpdateWrites, ConfirmedWrites
  <2> QED
    BY <2>1, <2>2
<1> QED
  BY <1>1, <1>2 DEF Written, Confirmed

(* At its end a handler has taken all its steps.                           *)
LEMMA AllDone ==
    ASSUME Types, OkAtEnd, NEW r \in Reqs, answer[r] = "ok"
    PROVE  /\ job[r].op \in AllOps
           /\ \A k \in DOMAIN Program(job[r].op) :
                 k \in 1 .. pc[r] - 1 /\ Done(r, Program(job[r].op)[k])
<1>1. job[r].op \in AllOps /\ pc[r] = Len(Program(job[r].op)) + 1
  BY DEF OkAtEnd, Types
<1>2. /\ Len(Program(job[r].op)) \in 4 .. 8
      /\ DOMAIN Program(job[r].op) = 1 .. Len(Program(job[r].op))
  BY <1>1, ProgramFacts
<1> QED
  BY <1>1, <1>2 DEF Done

LEMMA OkIsCommitted == IndInv /\ Fields /\ OkAtEnd /\ Written => OkMeansCommitted
<1> SUFFICES ASSUME IndInv, Fields, OkAtEnd, Written,
                    NEW r \in Reqs, answer[r] = "ok"
             PROVE  /\ OwnWrites(r) \subseteq writes[OwnRow(r)]
                    /\ job[r].op \in Deleting => status[job[r].target] = "gone"
  BY DEF OkMeansCommitted
<1> USE DEF IndInv
<1> DEFINE op == job[r].op
           P == Program(op)
<1>1. op \in AllOps /\ op # "none"
  BY AllDone DEF AllOps
<1>2. CASE op \in Inserting
  <2>1. Done(r, "insert")
    BY <1>1, <1>2, AllDone, OrderFacts
  <2>2. op \notin Deleting
    BY <1>2 DEF Inserting, Deleting
  <2> QED
    BY <1>1, <1>2, <2>1, <2>2 DEF Written, OwnWrites, OwnRow
<1>3. CASE op \in Deleting
  <2>1. PICK k \in DOMAIN P : P[k] = "delete"
    BY <1>1, <1>3, OrderFacts
  <2>2. k \in 1 .. pc[r] - 1
    BY <2>1, AllDone
  <2>3. status[job[r].target] = "gone"
    BY <1>1, <2>1, <2>2 DEF Deletes
  <2>4. OwnWrites(r) = {}
    BY <1>1, <1>3 DEF Fields, FieldsOf, Deleting, Inserting, OwnWrites
  <2> QED
    BY <2>3, <2>4
<1>4. CASE op \in {"note_patch", "checklist_patch", "item_patch"}
  <2>1. Confirmed(r)
    BY <1>1, <1>4, AllDone, OrderFacts DEF Confirmed
  <2>2. OwnWrites(r) = {r} \X job[r].fields /\ OwnRow(r) = job[r].target /\ op \notin Deleting
    BY <1>4 DEF OwnWrites, OwnRow, Inserting, Deleting
  <2>3. \A c \in job[r].fields : <<r, c>> \in writes[job[r].target]
    BY <1>1, <2>1 DEF Written, Confirmed
  <2> QED
    BY <2>2, <2>3
<1> QED
  BY <1>1, <1>2, <1>3, <1>4 DEF AllOps, Inserting, Deleting

-----------------------------------------------------------------------------
(* What FormatNote has read.                                               *)

LEMMA TaskOwnedInvariant ==
    ASSUME Types, AtStep, TaskOwned, [Next]_vars
    PROVE  TaskOwned'
<1> USE DEF dbVars, textVars, syncVars
<1>1. SUFFICES ASSUME NEW r \in Reqs, task'[r].state # "none"
               PROVE  job'[r].op # "none"
  BY DEF TaskOwned
<1>2. CASE task[r].state # "none"
  <2>1. job[r].op # "none"
    BY <1>2 DEF TaskOwned
  <2> QED
    BY <2>1, JobsKept
<1>3. ASSUME NEW q \in Reqs, Receive(q) \/ Throw(q)
      PROVE  task' = task
  BY <1>3 DEF Receive, Throw
<1>4. ASSUME NEW q \in Reqs, Serve(q), ~ Send(q)
      PROVE  task' = task
  BY <1>4 DEF Serve, Find, ListFiles, GetNoteId, Insert, Update, Delete,
              ReadHead, ReadLists, ReadItems
<1>5. ASSUME NEW q \in Reqs, Send(q)
      PROVE  task'[r].state = task[r].state \/ job'[r].op # "none"
  <2>1. CASE q = r
    BY <1>5, <2>1 DEF Send, At, Running, AtStep
  <2>2. CASE q # r
    BY <1>5, <2>2 DEF Send, Types
  <2> QED
    BY <2>1, <2>2
<1>6. ASSUME NEW q \in Reqs, RunTask(q)
      PROVE  task[r].state # "none"
  <2>1. task[q].state = "pending"
    BY <1>6 DEF RunTask, Deliver, CallFails
  <2>2. CASE q = r
    BY <2>1, <2>2
  <2>3. CASE q # r
    <3>1. task'[r] = task[r]
      BY <1>6, <2>3 DEF RunTask, Deliver, CallFails, Types
    <3> QED
      BY <1>1, <3>1
  <2> QED
    BY <2>2, <2>3
<1>7. CASE Restart
  <2>1. CASE task[r].state = "pending"
    BY <1>2, <2>1
  <2>2. CASE task[r].state # "pending"
    <3>1. task'[r] = task[r]
      BY <1>7, <2>2 DEF Restart
    <3> QED
      BY <1>1, <1>2, <3>1
  <2> QED
    BY <2>1, <2>2
<1>8. CASE UNCHANGED vars
  BY <1>1, <1>2, <1>8 DEF vars
<1> QED
  BY <1>1, <1>2, <1>3, <1>4, <1>5, <1>6, <1>7, <1>8 DEF Next, Rest

(* The rows of the handlers that write first: what a handler inserts, or  *)
(* the target of its path.                                                 *)
LEMMA Handler ==
    ASSUME Types, AtStep, NEW r \in Reqs, NEW s, At(r, {s})
    PROVE  /\ Running(r)
           /\ job[r].op \in AllOps /\ job[r].op # "none"
           /\ pc[r] \in DOMAIN Program(job[r].op)
           /\ Program(job[r].op)[pc[r]] = s
           /\ \A q : (\E j \in DOMAIN Program(job[r].op) :
                          j < pc[r] /\ Program(job[r].op)[j] = q) => Done(r, q)
BY DEF At, Step, Running, AtStep, Types, AllOps, Done

(* What a handler has written is in its row when it reads the row again.  *)
LEMMA OwnRowWritten ==
    ASSUME IndInv, Fields, Written, NEW r \in Reqs,
           job[r].op \in WriteFirst, NEW s \in Reading, At(r, {s})
    PROVE  /\ OwnRow(r) \in Ids /\ OwnRow(r) # None
           /\ status[OwnRow(r)] \in {"live", "gone"}
           /\ status[OwnRow(r)] = "live" => OwnWrites(r) \subseteq writes[OwnRow(r)]
<1> USE DEF IndInv
<1> DEFINE op == job[r].op
<1>1. op \in AllOps /\ op # "none"
  BY Handler
<1>2. /\ op \in Inserting => Done(r, "insert")
      /\ \A c \in job[r].fields : Done(r, c)
  <2> DEFINE P == Program(op)
  <2>1. pc[r] \in DOMAIN P /\ P[pc[r]] \in Reading \cup {"send"}
    BY Handler
  <2>2. job[r].fields \in FieldsOf(op)
    BY <1>1 DEF Fields
  <2>3. /\ op \in Inserting => \E j \in DOMAIN P : j < pc[r] /\ P[j] = "insert"
        /\ \A c \in job[r].fields : \E j \in DOMAIN P : j < pc[r] /\ P[j] = c
    <3> HIDE DEF P
    <3>1. \A k \in DOMAIN P : P[k] \in Reading \cup {"send"} =>
             /\ op \in Inserting => \E j \in DOMAIN P : j < k /\ P[j] = "insert"
             /\ \A f \in FieldsOf(op) : \A c \in f : \E j \in DOMAIN P : j < k /\ P[j] = c
      BY WriteFirstFacts DEF P
    <3> QED
      BY <2>1, <2>2, <3>1
  <2> QED
    BY <2>3 DEF Done
<1>3. CASE op \in Inserting
  <2>1. status[r] # "free" /\ <<r, "insert">> \in writes[r]
    BY <1>1, <1>2, <1>3 DEF Written
  <2>2. r \in Ids /\ r # None
    BY IdsAssumption DEF Ids
  <2>3. status[r] \in {"live", "gone"}
    BY <2>1, <2>2 DEF Types
  <2> QED
    BY <1>3, <2>1, <2>2, <2>3 DEF OwnRow, OwnWrites
<1>4. CASE op \notin Inserting
  <2>1. job[r].target \in Ids /\ job[r].target # None /\ status[job[r].target] # "free"
    BY <1>1, <1>4, TargetKnown DEF Inserting
  <2>2. status[job[r].target] \in {"live", "gone"}
    BY <2>1 DEF Types
  <2>3. \A c \in job[r].fields :
           status[job[r].target] = "live" => <<r, c>> \in writes[job[r].target]
    BY <1>1, <1>2 DEF Written
  <2> QED
    BY <1>4, <2>1, <2>2, <2>3 DEF OwnRow, OwnWrites
<1> QED
  BY <1>3, <1>4

(* A handler that writes first learns its note_id once.                    *)
LEMMA NoteKept ==
    ASSUME IndInv, [Next]_vars, NEW r \in Reqs, job[r].op \in WriteFirst,
           NEW s \in {"noteid", "insert"}, Done(r, s)
    PROVE  note'[r] = note[r]
<1> USE DEF IndInv
<1>1. job[r].op \in AllOps /\ job[r].op # "none"
  BY DEF WriteFirst, AllOps
<1>2. ~ At(r, {"noteid"}) /\ ~ At(r, {"insert"})
  <2>1. ASSUME NEW u \in {"noteid", "insert"}, At(r, {u})
        PROVE  FALSE
    <3>1. pc[r] \in DOMAIN Program(job[r].op) /\ Program(job[r].op)[pc[r]] = u
      BY <2>1, Handler
    <3>2. PICK k \in DOMAIN Program(job[r].op) : k < pc[r] /\ Program(job[r].op)[k] = s
      BY DEF Done
    <3>3. k = pc[r]
      BY <3>1, <3>2, WriteFirstFacts
    <3>4. pc[r] \in 0 .. 9
      BY DEF Types
    <3> QED
      BY <3>2, <3>3, <3>4
  <2> QED
    BY <2>1
<1>3. ASSUME NEW q \in Reqs, Receive(q)
      PROVE  note'[r] = note[r]
  <2>1. q # r
    BY <1>1, <1>3 DEF Receive, AtStep
  <2> QED
    BY <1>3, <2>1 DEF Receive, Types
<1>4. ASSUME NEW q \in Reqs, Serve(q) \/ Throw(q)
      PROVE  note'[r] = note[r]
  <2>1. CASE note' = note
    BY <2>1
  <2>2. CASE GetNoteId(q)
    <3>1. q # r
      BY <1>2, <2>2 DEF GetNoteId
    <3> QED
      BY <2>2, <3>1 DEF GetNoteId, Types
  <2>3. CASE Insert(q)
    <3>1. q # r
      BY <1>2, <2>3 DEF Insert
    <3> QED
      BY <2>3, <3>1 DEF Insert, Types
  <2> QED
    BY <1>4, <2>1, <2>2, <2>3, NoteIdChanges
<1>5. ASSUME NEW q \in Reqs, RunTask(q)
      PROVE  note' = note
  BY <1>5 DEF RunTask, Deliver, CallFails
<1>6. CASE Restart \/ UNCHANGED vars
  BY <1>6 DEF Restart, vars
<1> QED
  BY <1>3, <1>4, <1>5, <1>6 DEF Next, Rest

(* The note of the target of an item's or a checklist's handler.           *)
LEMMA Ancestors ==
    ASSUME IndInv, NEW r \in Reqs, job[r].op \in {"checklist_patch", "item_patch"}
    PROVE  LET t == job[r].target
           IN  /\ t \in Ids /\ t # None /\ status[t] # "free"
               /\ parent[t] \in Ids /\ parent[t] # None /\ status[parent[t]] # "free"
               /\ job[r].op = "item_patch" => parent[parent[t]] # None
<1> USE DEF IndInv
<1> DEFINE t == job[r].target
<1>1. t \in Ids /\ t # None /\ status[t] # "free" /\ t \in Known(TargetTable(job[r].op))
  BY TargetKnown
<1>2. TableOf(t) = IF job[r].op = "item_patch" THEN "checklist_items" ELSE "checklists"
  BY <1>1 DEF Known, TargetTable
<1>3. parent[t] \in Known(IF job[r].op = "item_patch" THEN "checklists" ELSE "notes")
  BY <1>1, <1>2 DEF Trees
<1>4. parent[t] \in Ids /\ parent[t] # None /\ status[parent[t]] # "free"
  BY <1>3, IdsAssumption DEF Known
<1>5. ASSUME job[r].op = "item_patch"
      PROVE  parent[parent[t]] # None
  <2>1. TableOf(parent[t]) = "checklists"
    BY <1>3, <1>5 DEF Known
  <2>2. parent[parent[t]] \in Known("notes")
    BY <1>4, <2>1 DEF Trees
  <2> QED
    BY <2>2, IdsAssumption DEF Known
<1> QED
  BY <1>1, <1>4, <1>5

LEMMA NoteIsRootInvariant ==
    ASSUME IndInv, Written, NoteIsRoot, [Next]_vars
    PROVE  NoteIsRoot'
<1> USE DEF IndInv
<1>1. SUFFICES ASSUME NEW r \in Reqs, job'[r].op \in WriteFirst,
                      NEW s \in {"noteid", "insert"}, Done(r, s)'
               PROVE  /\ job'[r].op = "note_post" /\ s = "insert" => note'[r] = r
                      /\ job'[r].op = "checklist_post" /\ s = "insert" =>
                            parent'[r] = job'[r].target
                      /\ job'[r].op = "checklist_patch" /\ s = "noteid" =>
                            note'[r] = parent'[job'[r].target]
                      /\ job'[r].op = "item_patch" /\ s = "noteid" =>
                            note'[r] = parent'[parent'[job'[r].target]]
  BY DEF NoteIsRoot, WriteFirst
<1> DEFINE op == job[r].op
           t == job[r].target
<1>2. op # "none"
  <2>1. job'[r].op # "none"
    BY <1>1 DEF WriteFirst
  <2> QED
    BY <1>1, <2>1, NothingDone
<1>3. job'[r] = job[r] /\ op \in AllOps /\ op \in WriteFirst
  BY <1>1, <1>2, JobsKept DEF Types
<1>4. r \in Ids
  BY DEF Ids
<1>5. op \in {"checklist_patch", "item_patch"} =>
         parent'[t] = parent[t] /\ parent'[parent[t]] = parent[parent[t]]
  BY Ancestors, RowsKept
<1>6. CASE Done(r, s)
  <2>1. note'[r] = note[r]
    BY <1>3, <1>6, NoteKept
  <2>2. s = "insert" => parent'[r] = parent[r]
    BY <1>2, <1>4, <1>6, RowsKept DEF Written
  <2> QED
    BY <1>3, <1>5, <1>6, <2>1, <2>2 DEF NoteIsRoot
<1>7. CASE ~ Done(r, s)
  <2>1. At(r, {s}) /\ Serve(r) /\ pc'[r] = pc[r] + 1
    BY <1>1, <1>7, StepDone DEF StepNames
  <2>2. pc'[r] # pc[r]
    <3>1. pc[r] \in 0 .. 9
      BY DEF Types
    <3> QED
      BY <2>1, <3>1
  <2>3. CASE s = "insert"
    <3>1. Insert(r)
      BY <2>1, <2>3 DEF Serve, At, Columns, Find, ListFiles, GetNoteId, Update, Delete,
                        ReadHead, ReadLists, ReadItems, Send
    <3>2. ForeignKeyHolds(t)
      BY <2>2, <3>1 DEF Insert, Answer
    <3> QED
      BY <1>3, <1>4, <2>3, <3>1, <3>2 DEF Insert, Types
  <2>4. CASE s = "noteid"
    <3>1. GetNoteId(r)
      BY <2>1, <2>4 DEF Serve, At, Columns, Find, ListFiles, Insert, Update, Delete,
                        ReadHead, ReadLists, ReadItems, Send
    <3>2. note'[r] = IF TargetTable(op) = "checklists" THEN parent[t] ELSE parent[parent[t]]
      BY <2>2, <3>1 DEF GetNoteId, Answer, Types
    <3>3. op = "checklist_patch" => TargetTable(op) = "checklists"
      BY DEF TargetTable
    <3>4. op = "item_patch" => TargetTable(op) = "checklist_items"
      BY DEF TargetTable
    <3> QED
      BY <1>3, <1>5, <2>4, <3>2, <3>3, <3>4
  <2> QED
    BY <2>3, <2>4
<1> QED
  BY <1>6, <1>7

LEMMA QuoteShows ==
    ASSUME NEW r, NEW S, OwnRow(r) \in S, OwnWrites(r) \subseteq writes[OwnRow(r)]
    PROVE  Shows(Quote(S), r)
<1>1. [row |-> OwnRow(r), holds |-> writes[OwnRow(r)]] \in Quote(S)
  BY DEF Quote
<1> QED
  BY <1>1 DEF Shows

(* FormatNote's queries come in this order.                                *)
LEMMA ReadingOrder ==
    ASSUME IndInv, NEW r \in Reqs, job[r].op \in WriteFirst
    PROVE  /\ At(r, {"head"}) => ~ Done(r, "head") /\ ~ Done(r, "lists") /\ ~ Done(r, "items")
           /\ At(r, {"lists"}) => ~ Done(r, "lists") /\ ~ Done(r, "items")
           /\ At(r, {"items"}) => ~ Done(r, "items") /\ Done(r, "lists")
           /\ At(r, {"send"}) => Done(r, Level(job[r].op)) /\ pc[r] = Len(Program(job[r].op))
<1> USE DEF IndInv
<1> DEFINE op == job[r].op
           P == Program(op)
<1>1. /\ \A j, k \in DOMAIN P : P[j] = P[k] => j = k
      /\ \A j, k \in DOMAIN P : P[j] = "head" /\ P[k] \in {"lists", "items"} => j < k
      /\ \A j, k \in DOMAIN P : P[j] = "lists" /\ P[k] = "items" => j < k
      /\ \A k \in DOMAIN P : P[k] = "send" => k = Len(P)
      /\ \A k \in DOMAIN P : P[k] = "send" => \E j \in DOMAIN P : j < k /\ P[j] = Level(op)
      /\ \A k \in DOMAIN P : P[k] = "items" => \E j \in DOMAIN P : j < k /\ P[j] = "lists"
      /\ op \in AllOps
  BY WriteFirstFacts, OrderFacts
<1>2. DOMAIN P \subseteq Nat /\ pc[r] \in Nat
  <2>1. Len(P) \in 4 .. 8 /\ DOMAIN P = 1 .. Len(P)
    BY <1>1, ProgramFacts
  <2> HIDE DEF P
  <2> QED
    BY <2>1, PcType
<1>3. ASSUME NEW u, At(r, {u})
      PROVE  pc[r] \in DOMAIN P /\ P[pc[r]] = u
  BY <1>3, Handler
<1> HIDE DEF P
<1>4. ASSUME NEW u, At(r, {u}), NEW v, Done(r, v)
      PROVE  \E j, k \in DOMAIN P : j < k /\ P[j] = v /\ P[k] = u
  BY <1>3, <1>4 DEF Done, P
<1>5. ASSUME NEW u, At(r, {u}), NEW v, \E j \in DOMAIN P : j < pc[r] /\ P[j] = v
      PROVE  Done(r, v)
  BY <1>5 DEF Done, P
<1>6. ASSUME At(r, {"head"}), NEW v \in {"head", "lists", "items"}, Done(r, v)
      PROVE  FALSE
  <2>1. PICK j, k \in DOMAIN P : j < k /\ P[j] = v /\ P[k] = "head"
    BY <1>4, <1>6
  <2>2. j \in Nat /\ k \in Nat
    BY <1>2, <2>1
  <2>3. j = k \/ k < j
    BY <1>1, <1>6, <2>1
  <2> QED
    BY <2>1, <2>2, <2>3
<1>7. ASSUME At(r, {"lists"}), NEW v \in {"lists", "items"}, Done(r, v)
      PROVE  FALSE
  <2>1. PICK j, k \in DOMAIN P : j < k /\ P[j] = v /\ P[k] = "lists"
    BY <1>4, <1>7
  <2>2. j \in Nat /\ k \in Nat
    BY <1>2, <2>1
  <2>3. j = k \/ k < j
    BY <1>1, <1>7, <2>1
  <2> QED
    BY <2>1, <2>2, <2>3
<1>8. ASSUME At(r, {"items"}), NEW v \in {"items"}, Done(r, v)
      PROVE  FALSE
  <2>1. PICK j, k \in DOMAIN P : j < k /\ P[j] = v /\ P[k] = "items"
    BY <1>4, <1>8
  <2>2. j \in Nat /\ k \in Nat
    BY <1>2, <2>1
  <2>3. j = k \/ k < j
    BY <1>1, <1>8, <2>1
  <2> QED
    BY <2>1, <2>2, <2>3
<1>9. At(r, {"items"}) => Done(r, "lists")
  BY <1>1, <1>3, <1>5
<1>10. At(r, {"send"}) => Done(r, Level(op)) /\ pc[r] = Len(P)
  BY <1>1, <1>3, <1>5
<1> QED
  BY <1>6, <1>7, <1>8, <1>9, <1>10 DEF P

(* The row of the handler is where FormatNote looks for it.                *)
LEMMA OwnRowOnThePath ==
    ASSUME IndInv, NoteIsRoot, NEW r \in Reqs, job[r].op \in WriteFirst,
           NEW s \in Reading, At(r, {s})
    PROVE  LET x == OwnRow(r)
               op == job[r].op
           IN  /\ op \in {"note_post", "note_patch"} => x = note[r]
               /\ op \in {"checklist_post", "checklist_patch"} /\ status[x] = "live" =>
                     x \in Children(note[r])
               /\ op = "item_patch" /\ status[x] = "live" =>
                     /\ x = job[r].target
                     /\ x \in Children(parent[x])
                     /\ parent[x] \in Children(note[r])
<1> USE DEF IndInv
<1> DEFINE op == job[r].op
           t == job[r].target
           P == Program(op)
<1>1. op \in AllOps /\ op # "none"
  BY Handler
<1>2. /\ op \in Inserting => Done(r, "insert")
      /\ op \in {"checklist_patch", "item_patch"} => Done(r, "noteid")
  <2>1. pc[r] \in DOMAIN P /\ P[pc[r]] \in Reading \cup {"send"}
    BY Handler
  <2>2. \A k \in DOMAIN P : P[k] \in Reading \cup {"send"} =>
           /\ op \in Inserting => \E j \in DOMAIN P : j < k /\ P[j] = "insert"
           /\ op \in {"checklist_patch", "item_patch"} =>
                 \E j \in DOMAIN P : j < k /\ P[j] = "noteid"
    BY WriteFirstFacts
  <2> HIDE DEF P
  <2>3. /\ op \in Inserting => \E j \in DOMAIN P : j < pc[r] /\ P[j] = "insert"
        /\ op \in {"checklist_patch", "item_patch"} =>
              \E j \in DOMAIN P : j < pc[r] /\ P[j] = "noteid"
    BY <2>1, <2>2
  <2> QED
    BY <2>3 DEF Done, P
<1>3. op \in {"note_patch", "checklist_post"} => note[r] = t
  BY <1>1 DEF NoteIds, NoteKnownAtStart
<1>4. r \in Ids
  BY DEF Ids
<1>5. CASE op = "note_post" \/ op = "note_patch"
  BY <1>2, <1>3, <1>5 DEF NoteIsRoot, OwnRow, Inserting
<1>6. CASE op = "checklist_post"
  BY <1>2, <1>3, <1>4, <1>6 DEF NoteIsRoot, OwnRow, Inserting, Children
<1>7. CASE op = "checklist_patch"
  BY <1>2, <1>7, Ancestors DEF NoteIsRoot, OwnRow, Inserting, Children
<1>8. CASE op = "item_patch"
  <2>1. OwnRow(r) = t
    BY <1>8 DEF OwnRow, Inserting
  <2>2. t \in Ids /\ parent[t] \in Ids /\ parent[t] # None
    BY <1>8, Ancestors
  <2>3. note[r] = parent[parent[t]]
    BY <1>2, <1>8 DEF NoteIsRoot
  <2>4. ASSUME status[t] = "live"
        PROVE  t \in Children(parent[t]) /\ parent[t] \in Children(note[r])
    BY <2>2, <2>3, <2>4 DEF NoOrphanRow, Children
  <2> QED
    BY <1>8, <2>1, <2>4
<1> QED
  BY <1>5, <1>6, <1>7, <1>8 DEF WriteFirst

(* A request that goes on is served, or nothing of it changes.             *)
LEMMA GoesOn ==
    ASSUME Types, AtStep, [Next]_vars, NEW r \in Reqs, job[r].op # "none", Running(r)'
    PROVE  /\ Running(r) /\ job'[r] = job[r]
           /\ Serve(r) \/ (/\ pc'[r] = pc[r]
                           /\ text'[r] = text[r] /\ todo'[r] = todo[r])
<1> USE DEF dbVars, textVars, syncVars
<1>1. job'[r] = job[r]
  BY JobsKept
<1>2. ASSUME NEW q \in Reqs, Receive(q)
      PROVE  /\ pc'[r] = pc[r] /\ answer'[r] = answer[r]
             /\ text'[r] = text[r] /\ todo'[r] = todo[r]
  <2>1. q # r
    BY <1>2 DEF Receive, AtStep
  <2> QED
    BY <1>2, <2>1 DEF Receive, Types
<1>3. ASSUME NEW q \in Reqs, Serve(q) \/ Throw(q), q # r
      PROVE  /\ pc'[r] = pc[r] /\ answer'[r] = answer[r]
             /\ text'[r] = text[r] /\ todo'[r] = todo[r]
  <2>1. pc'[r] = pc[r] /\ answer'[r] = answer[r]
    BY <1>3, ServeMoves DEF Advance, Answer, Types
  <2>2. text'[r] = text[r] /\ todo'[r] = todo[r]
    <3>1. CASE Find(q) \/ ListFiles(q) \/ GetNoteId(q) \/ Insert(q)
      BY <3>1 DEF Find, ListFiles, GetNoteId, Insert
    <3>2. CASE Update(q) \/ Delete(q) \/ Throw(q)
      BY <3>2 DEF Update, Delete, Throw
    <3>3. CASE ReadHead(q) \/ ReadLists(q)
      BY <1>3, <3>3 DEF ReadHead, ReadLists, Types
    <3>4. CASE ReadItems(q) \/ Send(q)
      BY <1>3, <3>4 DEF ReadItems, Send, Types
    <3> QED
      BY <1>3, <3>1, <3>2, <3>3, <3>4 DEF Serve
  <2> QED
    BY <2>1, <2>2
<1>4. ASSUME Throw(r)
      PROVE  FALSE
  <2>1. answer'[r] = "500"
    BY <1>4 DEF Throw, Answer, Types
  <2> QED
    BY <2>1 DEF Running
<1>5. ASSUME NEW q \in Reqs, RunTask(q)
      PROVE  UNCHANGED <<pc, answer, text, todo>>
  BY <1>5 DEF RunTask, Deliver, CallFails
<1>6. CASE Restart
  <2>1. pc' = pc /\ answer'[r] = (IF Running(r) THEN "lost" ELSE answer[r])
    BY <1>6 DEF Restart
  <2> QED
    BY <2>1 DEF Running
<1>7. CASE UNCHANGED vars
  BY <1>1, <1>7 DEF vars, Running
<1>8. CASE Serve(r)
  BY <1>1, <1>8, ServeMoves
<1>9. CASE /\ pc'[r] = pc[r] /\ answer'[r] = answer[r]
            /\ text'[r] = text[r] /\ todo'[r] = todo[r]
  BY <1>1, <1>9 DEF Running
<1> QED
  BY <1>2, <1>3, <1>4, <1>5, <1>6, <1>7, <1>8, <1>9 DEF Next, Rest

LEMMA ShownLater ==
    ASSUME NEW r, NEW S, NEW T, S \subseteq T, Shows(S, r)
    PROVE  Shows(T, r)
BY DEF Shows

(* A query of FormatNote shows the row, when it is the one that reads it. *)
LEMMA ReadShows ==
    ASSUME IndInv, Fields, Written, NoteIsRoot, TextShows, [Next]_vars,
           NEW r \in Reqs, job[r].op \in WriteFirst,
           ReadHead(r) \/ ReadLists(r) \/ ReadItems(r),
           Running(r)', job'[r] = job[r], OwnRow(r)' = OwnRow(r), OwnWrites(r)' = OwnWrites(r),
           status[OwnRow(r)] # "gone", NEW lv, lv = Level(job[r].op)
    PROVE  /\ Done(r, lv)' => Shows(text'[r], r)
           /\ job[r].op = "item_patch" /\ Done(r, "lists")' =>
                 Shows(text'[r], r) \/ parent[job[r].target] \in todo'[r]
<1> USE DEF IndInv
<1> DEFINE op == job[r].op
           x == OwnRow(r)
<1>1. PICK s \in Reading : At(r, {s}) /\ (s = "head" <=> ReadHead(r))
                          /\ (s = "lists" <=> ReadLists(r)) /\ (s = "items" <=> ReadItems(r))
  BY DEF ReadHead, ReadLists, ReadItems, At, Reading
<1>2. /\ op \in AllOps /\ lv \in Reading /\ pc[r] \in 0 .. 9
      /\ op \in {"note_post", "note_patch"} => lv = "head"
      /\ op \in {"checklist_post", "checklist_patch"} => lv = "lists"
      /\ op = "item_patch" => lv = "items"
  BY WriteFirstFacts DEF Types, Level
<1>3. /\ x \in Ids /\ status[x] = "live"
      /\ OwnWrites(r) \subseteq writes[x]
  BY <1>1, OwnRowWritten
<1>4. /\ Done(r, lv) => Shows(text[r], r)
      /\ op = "item_patch" /\ Done(r, "lists") =>
            Shows(text[r], r) \/ parent[job[r].target] \in todo[r]
  BY <1>1 DEF TextShows, Shown, At
<1>5. ASSUME NEW v \in Reading, Done(r, v)', ~ Done(r, v)
      PROVE  v = s /\ pc'[r] = pc[r] + 1
  BY <1>1, <1>5, StepDone DEF At, Reading, StepNames
<1>6. CASE ReadHead(r)
  <2>1. text'[r] = Quote({note[r]})
    BY <1>6 DEF ReadHead, Answer, Types, Running
  <2>2. s = "head" /\ \A v \in Reading : ~ Done(r, v)
    BY <1>1, <1>6, ReadingOrder DEF Reading
  <2>3. ASSUME lv = "head"
        PROVE  Shows(text'[r], r)
    BY <1>1, <1>2, <1>3, <2>1, <2>3, OwnRowOnThePath, QuoteShows DEF Level, WriteFirst
  <2> QED
    BY <1>2, <1>5, <2>2, <2>3 DEF Reading
<1>7. CASE ReadLists(r)
  <2>1. /\ text'[r] = text[r] \cup Quote(Children(note[r]))
        /\ todo'[r] = Children(note[r])
    BY <1>7 DEF ReadLists, Types
  <2>2. ASSUME Done(r, lv)
        PROVE  Shows(text'[r], r)
    BY <1>4, <2>1, <2>2, ShownLater
  <2>3. ASSUME lv = "lists"
        PROVE  Shows(text'[r], r)
    <3>1. Shows(Quote(Children(note[r])), r)
      BY <1>1, <1>2, <1>3, <2>3, OwnRowOnThePath, QuoteShows DEF WriteFirst
    <3> QED
      BY <2>1, <3>1, ShownLater
  <2>4. ASSUME op = "item_patch"
        PROVE  parent[job[r].target] \in todo'[r]
    BY <1>1, <1>3, <2>1, <2>4, OwnRowOnThePath
  <2> QED
    BY <1>1, <1>2, <1>5, <1>7, <2>2, <2>3, <2>4
<1>8. CASE ReadItems(r)
  <2>1. s = "items" /\ Done(r, "lists")
    BY <1>1, <1>8, ReadingOrder
  <2>2. CASE pc' = pc
    <3>1. PICK c \in todo[r] : /\ text'[r] = text[r] \cup Quote(Children(c))
                              /\ todo'[r] = todo[r] \ {c}
      <4>1. ~ Advance(r)
        BY <1>2, <2>2 DEF Advance, Types
      <4> QED
        BY <1>8, <4>1 DEF ReadItems, Visited, Types
    <3>2. \A v : Done(r, v)' => Done(r, v)
      BY <2>2 DEF Done
    <3>3. ASSUME Shows(text[r], r)
          PROVE  Shows(text'[r], r)
      BY <3>1, <3>3, ShownLater
    <3>4. ASSUME op = "item_patch", c = parent[job[r].target]
          PROVE  Shows(text'[r], r)
      <4>1. Shows(Quote(Children(c)), r)
        BY <1>1, <1>3, <3>4, OwnRowOnThePath, QuoteShows
      <4> QED
        BY <3>1, <4>1, ShownLater
    <3>5. Done(r, lv)' => Shows(text'[r], r)
      BY <1>4, <3>2, <3>3
    <3>6. op = "item_patch" => Shows(text'[r], r) \/ parent[job[r].target] \in todo'[r]
      BY <1>4, <2>1, <3>1, <3>3, <3>4
    <3> QED
      BY <3>5, <3>6
  <2>3. CASE pc' # pc
    <3>1. todo[r] = {} /\ text' = text /\ todo' = todo
      BY <1>8, <2>3 DEF ReadItems, textVars
    <3>2. ASSUME op = "item_patch"
          PROVE  Shows(text[r], r)
      BY <1>4, <2>1, <3>1, <3>2
    <3>3. ASSUME lv = "items"
          PROVE  Shows(text[r], r)
      BY <1>2, <3>2, <3>3 DEF Level, WriteFirst
    <3>4. ASSUME lv # "items", Done(r, lv)'
          PROVE  Done(r, lv)
      BY <1>2, <1>5, <2>1, <3>4
    <3>5. Done(r, lv)' => Shows(text'[r], r)
      BY <1>4, <3>1, <3>3, <3>4
    <3>6. op = "item_patch" => Shows(text'[r], r)
      BY <3>1, <3>2
    <3> QED
      BY <3>5, <3>6
  <2> QED
    BY <2>2, <2>3
<1> QED
  BY <1>6, <1>7, <1>8

LEMMA TextShowsInvariant ==
    ASSUME IndInv, Fields, Written, NoteIsRoot, TextShows, [Next]_vars
    PROVE  TextShows'
<1> USE DEF IndInv
<1>1. SUFFICES ASSUME NEW r \in Reqs, job'[r].op \in WriteFirst, Running(r)',
                      NEW lv, lv = Level(job'[r].op)
               PROVE  /\ Done(r, lv)' => status'[OwnRow(r)'] = "gone" \/ Shown(r)'
                      /\ job'[r].op = "item_patch" /\ Done(r, "lists")' =>
                            \/ status'[OwnRow(r)'] = "gone"
                            \/ Shown(r)'
                            \/ parent'[job'[r].target] \in todo'[r]
  BY DEF TextShows
<1> DEFINE op == job[r].op
<1>2. CASE op = "none"
  <2>1. job'[r].op # "none"
    BY <1>1 DEF WriteFirst
  <2> QED
    BY <1>2, <2>1, NothingDone
<1>3. CASE op # "none"
  <2>1. /\ Running(r) /\ job'[r] = job[r] /\ op \in WriteFirst /\ op \in AllOps
        /\ lv = Level(op)
    BY <1>1, <1>3, GoesOn DEF WriteFirst, AllOps
  <2>2. OwnRow(r)' = OwnRow(r) /\ OwnWrites(r)' = OwnWrites(r)
    BY <2>1 DEF OwnRow, OwnWrites
  <2>3. OwnRow(r) \in Ids
    BY <1>3, TargetKnown DEF OwnRow, Inserting, Ids
  <2>4. status[OwnRow(r)] = "gone" => status'[OwnRow(r)] = "gone"
    BY <2>3, RowsKept
  <2>5. op = "item_patch" => parent'[job[r].target] = parent[job[r].target]
    BY Ancestors, RowsKept
  <2>6. Shown(r)' <=> Shows(text'[r], r)
    BY <2>2 DEF Shown, Shows
  <2>7. SUFFICES ASSUME status[OwnRow(r)] # "gone"
                 PROVE  /\ Done(r, lv)' => Shows(text'[r], r)
                        /\ op = "item_patch" /\ Done(r, "lists")' =>
                              Shows(text'[r], r) \/ parent[job[r].target] \in todo'[r]
    BY <2>1, <2>2, <2>4, <2>5, <2>6
  <2>8. /\ Done(r, lv) => Shows(text[r], r)
        /\ op = "item_patch" /\ Done(r, "lists") =>
              Shows(text[r], r) \/ parent[job[r].target] \in todo[r]
    BY <2>1, <2>7 DEF TextShows, Shown
  <2>9. CASE pc'[r] = pc[r] /\ text'[r] = text[r] /\ todo'[r] = todo[r]
    <3>1. \A s : Done(r, s)' <=> Done(r, s)
      BY <2>1, <2>9 DEF Done
    <3> QED
      BY <2>8, <2>9, <3>1
  <2>10. CASE ReadHead(r) \/ ReadLists(r) \/ ReadItems(r)
    BY <1>1, <2>1, <2>2, <2>7, <2>10, ReadShows
  <2>11. CASE Send(r)
    <3>1. At(r, {"send"}) /\ Advance(r)
      BY <2>11 DEF Send
    <3>2. pc[r] = Len(Program(op))
      BY <2>1, <3>1, ReadingOrder
    <3>3. answer'[r] = "ok"
      BY <3>1, <3>2 DEF Advance, Types
    <3> QED
      BY <1>1, <3>3 DEF Running
  <2>12. CASE Find(r) \/ ListFiles(r) \/ GetNoteId(r) \/ Insert(r) \/ Update(r) \/ Delete(r)
    <3>1. text' = text /\ todo' = todo
      BY <2>12 DEF Find, ListFiles, GetNoteId, Insert, Update, Delete, textVars
    <3>2. \A s \in Reading : ~ At(r, {s})
      BY <2>12 DEF Find, ListFiles, GetNoteId, Insert, Update, Delete, At, Reading, Columns
    <3>3. \A s \in Reading : Done(r, s)' => Done(r, s)
      BY <3>2, StepDone DEF Reading, StepNames
    <3>4. lv \in Reading /\ "lists" \in Reading
      BY <2>1, WriteFirstFacts DEF Reading
    <3> QED
      BY <2>8, <3>1, <3>3, <3>4
  <2> QED
    BY <1>1, <1>3, <2>9, <2>10, <2>11, <2>12, GoesOn DEF Serve
<1> QED
  BY <1>2, <1>3

-----------------------------------------------------------------------------
(* What is sent.                                                           *)

(* Of a task only the state changes, once it is there.                     *)
LEMMA TaskTextKept ==
    ASSUME Types, [Next]_vars, NEW r \in Reqs, ~ Send(r)
    PROVE  /\ task'[r].text = task[r].text
           /\ task'[r].state # "none" => task[r].state # "none"
<1>1. task \in [Reqs -> [kind : {"none", "add", "update", "delete"},
                         note : Ids \cup {None}, text : SUBSET Quotes,
                         state : {"none", "pending", "delivered", "failed", "lost"}]]
  BY DEF Types
<1>2. ASSUME NEW q \in Reqs, Receive(q) \/ Throw(q)
      PROVE  task' = task
  BY <1>2 DEF Receive, Throw, syncVars
<1>3. ASSUME NEW q \in Reqs, Serve(q)
      PROVE  task' = task \/ Send(q)
  BY <1>3 DEF Serve, Find, ListFiles, GetNoteId, Insert, Update, Delete,
              ReadHead, ReadLists, ReadItems, syncVars
<1>4. ASSUME NEW q \in Reqs, Send(q)
      PROVE  task'[r] = task[r]
  <2>1. q # r
    BY <1>4
  <2> QED
    BY <1>1, <1>4, <2>1 DEF Send
<1>5. ASSUME NEW q \in Reqs, RunTask(q)
      PROVE  /\ task'[r].text = task[r].text
             /\ task'[r].state # "none" => task[r].state # "none"
  <2>1. /\ task[q].state = "pending"
        /\ \/ task' = [task EXCEPT ![q].state = "delivered"]
           \/ task' = [task EXCEPT ![q].state = "failed"]
    BY <1>5 DEF RunTask, Deliver, CallFails
  <2> QED
    BY <1>1, <2>1
<1>6. CASE Restart
  <2>1. task' = [q \in Reqs |-> IF task[q].state = "pending"
                                THEN [task[q] EXCEPT !.state = "lost"] ELSE task[q]]
    BY <1>6 DEF Restart
  <2> QED
    BY <1>1, <2>1
<1>7. CASE UNCHANGED vars
  BY <1>7 DEF vars
<1> QED
  BY <1>2, <1>3, <1>4, <1>5, <1>6, <1>7 DEF Next, Rest

LEMMA OwnWriteSentInvariant ==
    ASSUME IndInv, TextShows, TaskOwned, OwnWriteSent, [Next]_vars
    PROVE  OwnWriteSent'
<1> USE DEF IndInv
<1>1. SUFFICES ASSUME NEW r \in Reqs, job'[r].op \in WriteFirst, task'[r].state # "none"
               PROVE  status'[OwnRow(r)'] = "gone" \/ Shows(task[r].text, r)'
  BY DEF OwnWriteSent, Shows
<1>2. task[r].state # "none" \/ Send(r)
  BY <1>1, TaskTextKept
<1>3. job[r].op # "none"
  <2>1. Send(r) => job[r].op # "none"
    BY DEF Send, At, Running, AtStep
  <2> QED
    BY <1>2, <2>1 DEF TaskOwned
<1>4. job'[r] = job[r]
  BY <1>3, JobsKept
<1>5. OwnRow(r)' = OwnRow(r) /\ OwnWrites(r)' = OwnWrites(r) /\ OwnRow(r) \in Ids
  <2>1. OwnRow(r) \in Ids
    BY <1>3, TargetKnown DEF OwnRow, Inserting, Ids
  <2> QED
    BY <1>4, <2>1 DEF OwnRow, OwnWrites
<1>6. SUFFICES status[OwnRow(r)] = "gone" \/ Shows(task'[r].text, r)
  BY <1>5, RowsKept DEF Shows
<1>7. CASE Send(r)
  <2>1. task'[r].text = text[r]
    BY <1>7 DEF Send, Types
  <2>2. At(r, {"send"}) /\ Running(r)
    BY <1>7 DEF Send, At
  <2>3. Done(r, Level(job[r].op))
    BY <1>1, <1>4, <2>2, ReadingOrder
  <2> QED
    BY <1>1, <1>4, <2>1, <2>2, <2>3 DEF TextShows, Shown
<1>8. CASE ~ Send(r)
  BY <1>1, <1>2, <1>4, <1>8, TaskTextKept DEF OwnWriteSent, Shows
<1> QED
  BY <1>7, <1>8

-----------------------------------------------------------------------------
(* The invariant holds.                                                    *)

LEMMA InitTextInv == Init => TextInv
<1> SUFFICES ASSUME Init PROVE TextInv
  OBVIOUS
<1>1. /\ \A r \in Reqs : job[r].op = "none" /\ answer[r] = "none" /\ task[r].state = "none"
      /\ \A r \in Reqs : ~ Running(r)
  BY DEF Init, NoJob, NoTask, Running
<1>2. "none" \notin WriteFirst
  BY DEF WriteFirst
<1>3. Fields /\ OkAtEnd /\ Written /\ NoteIsRoot
  BY <1>1 DEF Fields, OkAtEnd, Written, NoteIsRoot
<1>4. TextShows /\ TaskOwned /\ OwnWriteSent
  BY <1>1, <1>2 DEF TextShows, TaskOwned, OwnWriteSent
<1> QED
  BY <1>3, <1>4, InitIndInv DEF TextInv

LEMMA NextTextInv == TextInv /\ [Next]_vars => TextInv'
<1> SUFFICES ASSUME TextInv, [Next]_vars PROVE TextInv'
  OBVIOUS
<1> USE DEF TextInv
<1>1. Types /\ AtStep
  BY DEF IndInv
<1> QED
  BY <1>1, NextIndInv, FieldsInvariant, OkAtEndInvariant, WrittenInvariant,
     NoteIsRootInvariant, TextShowsInvariant, TaskOwnedInvariant, OwnWriteSentInvariant

(* Every reachable state satisfies the extended invariant.                 *)
THEOREM TextsInductive == Spec => []TextInv
BY InitTextInv, NextTextInv, PTL DEF Spec

(* An answer 200 or 201 means that the whole change is committed, although *)
(* no handler looks at the number of rows that its UPDATE changed.         *)
THEOREM OkIsOk == Spec => []OkMeansCommitted
<1>1. TextInv => OkMeansCommitted
  BY OkIsCommitted DEF TextInv
<1> QED
  BY <1>1, TextsInductive, PTL

(* A text that is sent by a handler that writes first shows what it wrote, *)
(* or the row is gone.                                                     *)
THEOREM OwnWritesAreSent == Spec => []OwnWriteSent
<1>1. TextInv => OwnWriteSent
  BY DEF TextInv
<1> QED
  BY <1>1, TextsInductive, PTL

-----------------------------------------------------------------------------
(* A note and the requests about it.                                       *)

(* Request r is about note n and past its first statement: it has found   *)
(* the row of its path, or inserted its note.                              *)
Concerned(r, n) == job[r].op # "none" /\ pc[r] >= 2 /\ Root(r) = n

IsNote(n) == Live(n) /\ TableOf(n) = "notes"

Writers(n) == {r \in Reqs : Concerned(r, n) /\ job[r].op \in WriteFirst}

(* No request has failed, and none was lost.                               *)
NoFault == \A r \in Reqs : answer[r] \notin {"500", "lost"}

(* A request is concerned with n that sends a text without its own change. *)
FormatsFirst(n) == \E r \in Reqs : Concerned(r, n) /\ job[r].op \in FormatFirst

-----------------------------------------------------------------------------
(* The parts of the inductive invariant, in addition to TextInv.           *)

(* 404 is the answer of the first statement.                               *)
NotFoundAtStart == \A r \in Reqs : answer[r] = "404" => pc[r] = 1

(* What was not received has no answer, and what was not sent no note.     *)
Unsent ==
    \A r \in Reqs : /\ pc[r] = 0 => answer[r] = "none"
                    /\ task[r].state = "none" => task[r].note = None

(* The note_id that a handler has found is the note it is about.          *)
OwnNote ==
    \A r \in Reqs : job[r].op # "none" =>
        /\ Done(r, "noteid") => note[r] = Root(r)
        /\ job[r].op = "note_post" /\ Done(r, "insert") => note[r] = Root(r)

(* A task is there once its request has sent it, and is about its note.   *)
Sent ==
    \A r \in Reqs : job[r].op # "none" =>
        /\ task[r].state # "none" <=> Done(r, "send")
        /\ Done(r, "send") => task[r].note = Root(r)

(* A handler that writes first has sent its text only if it answers 200. *)
SendsLast ==
    \A r \in Reqs : job[r].op \in WriteFirst /\ task[r].state # "none" => answer[r] = "ok"

(* What had ended when a request came is over.                             *)
Over ==
    \A r \in Reqs : \A q \in job[r].ended :
        q \in Reqs /\ answer[q] # "none" /\ task[q].state # "pending"

(* The rows of note n that request r has read by now.                      *)
Seen(r, n) ==
    IF Done(r, "lists")
    THEN {n} \cup Children(n) \cup UNION {Children(c) : c \in Children(n) \ todo[r]}
    ELSE {n}

(* What request r has read of note n, or sent, is what it would find now. *)
UpToDate(r, n) ==
    /\ Done(r, "lists") => todo[r] \subseteq Children(n)
    /\ Done(r, "items") => todo[r] = {}
    /\ Done(r, "head") /\ ~ Done(r, "send") => text[r] = Quote(Seen(r, n))
    /\ Done(r, "send") => task[r].text = Quote(Cascade(n))

(* Of the requests that have changed a note one has missed nothing: the   *)
(* one that changed it last, and every one that came to know it later.     *)
FreshWitness ==
    NoFault => \A n \in Ids : IsNote(n) /\ ~ FormatsFirst(n) /\ Writers(n) # {} =>
        \E r \in Writers(n) : UpToDate(r, n)

(* All other requests that touch n had ended when r came, and r, which     *)
(* writes before it reads, has not failed so far.                          *)
Alone(r, n) ==
    /\ Touches(r, n) /\ job[r].op \in WriteFirst /\ answer[r] # "500"
    /\ \A q \in Reqs \ {r} : Touches(q, n) => q \in job[r].ended

(* Such a request misses nothing, whatever went wrong before it came, and *)
(* nothing replaces the text that it brings to the AI service.             *)
AloneIsFresh ==
    \A r \in Reqs : \A n \in Ids : IsNote(n) /\ Alone(r, n) =>
        /\ UpToDate(r, n)
        /\ task[r].state = "delivered" => index[n] = Quote(Cascade(n))

(* As long as no request touches a note, the AI service has the text that *)
(* it had at the start.                                                    *)
Untouched ==
    \A n \in Ids : IsNote(n) /\ (\A r \in Reqs : ~ Touches(r, n)) =>
        index[n] = Quote(Cascade(n))

FreshInv ==
    /\ TextInv
    /\ NotFoundAtStart /\ Unsent /\ OwnNote /\ Sent /\ SendsLast /\ Over
    /\ FreshWitness /\ AloneIsFresh /\ Untouched

-----------------------------------------------------------------------------
(* Lemmas about the programs of the handlers.                              *)

(* A handler looks its row up first, knows its note before it reads, and  *)
(* sends once.                                                             *)
LEMMA HandlerFacts ==
    ASSUME NEW op \in AllOps
    PROVE  LET P == Program(op)
           IN  /\ 1 \in DOMAIN P
               /\ P[1] = IF op = "note_post" THEN "insert" ELSE "find"
               /\ \E k \in DOMAIN P : P[k] = "send"
               /\ \A k \in DOMAIN P : P[k] = "find" => k = 1
               /\ \A k \in DOMAIN P : P[k] \in Reading \cup {"send"} =>
                     \/ op \in NoteKnownAtStart
                     \/ \E j \in DOMAIN P :
                           /\ j < k
                           /\ P[j] = "noteid" \/ (op = "note_post" /\ P[j] = "insert")
<1> USE DEF AllOps, Program, NoteKnownAtStart, Reading
<1>1. CASE op = "note_post"
  BY <1>1 DEF NotePost
<1>2. CASE op = "note_patch"
  BY <1>2 DEF NotePatch
<1>3. CASE op = "note_delete"
  BY <1>3 DEF NoteDelete
<1>4. CASE op = "checklist_post"
  BY <1>4 DEF ChecklistPost
<1>5. CASE op = "checklist_patch"
  BY <1>5 DEF ChecklistPatch
<1>6. CASE op = "checklist_delete"
  BY <1>6 DEF ChecklistDelete
<1>7. CASE op = "item_post"
  BY <1>7 DEF ItemPost
<1>8. CASE op = "item_patch"
  BY <1>8 DEF ItemPatch
<1>9. CASE op = "item_delete"
  BY <1>9 DEF ItemDelete
<1> QED
  BY <1>1, <1>2, <1>3, <1>4, <1>5, <1>6, <1>7, <1>8, <1>9

(* The last four steps of a handler that writes first read and send, and  *)
(* no other does.                                                          *)
LEMMA LastFour ==
    ASSUME NEW op \in WriteFirst
    PROVE  LET P == Program(op)
               h == Len(P) - 3
           IN  /\ op \in AllOps /\ op # "none"
               /\ h \in 2 .. 5 /\ DOMAIN P = 1 .. h + 3
               /\ P[h] = "head" /\ P[h + 1] = "lists" /\ P[h + 2] = "items" /\ P[h + 3] = "send"
               /\ \A k \in 1 .. h - 1 :
                     P[k] \in {"find", "insert", "noteid"} \cup Columns
<1> USE DEF WriteFirst, AllOps, Columns, Program
<1>1. CASE op = "note_post"
  BY <1>1 DEF NotePost
<1>2. CASE op = "note_patch"
  BY <1>2 DEF NotePatch
<1>3. CASE op = "checklist_post"
  BY <1>3 DEF ChecklistPost
<1>4. CASE op = "checklist_patch"
  BY <1>4 DEF ChecklistPatch
<1>5. CASE op = "item_patch"
  BY <1>5 DEF ItemPatch
<1> QED
  BY <1>1, <1>2, <1>3, <1>4, <1>5

(* How far a handler that writes first has read, by its program counter.  *)
LEMMA Stage ==
    ASSUME NEW op \in WriteFirst, NEW c \in Nat
    PROVE  LET P == Program(op)
               h == Len(P) - 3
               Past(s) == \E k \in DOMAIN P : k < c /\ P[k] = s
           IN  /\ Past("head") <=> c > h
               /\ Past("lists") <=> c > h + 1
               /\ Past("items") <=> c > h + 2
               /\ Past("send") <=> c > h + 3
               /\ c \in DOMAIN P =>
                     /\ P[c] = "head" <=> c = h
                     /\ P[c] = "lists" <=> c = h + 1
                     /\ P[c] = "items" <=> c = h + 2
                     /\ P[c] = "send" <=> c = h + 3
                     /\ c < h <=> P[c] \in {"find", "insert", "noteid"} \cup Columns
<1> DEFINE P == Program(op)
           h == Len(P) - 3
<1>1. /\ h \in 2 .. 5 /\ DOMAIN P = 1 .. h + 3
      /\ P[h] = "head" /\ P[h + 1] = "lists" /\ P[h + 2] = "items" /\ P[h + 3] = "send"
      /\ \A k \in 1 .. h - 1 : P[k] \notin {"head", "lists", "items", "send"}
      /\ \A k \in 1 .. h - 1 : P[k] \in {"find", "insert", "noteid"} \cup Columns
  BY LastFour DEF Columns
<1> HIDE DEF P, h
<1>2. /\ h \in Nat /\ h + 1 \in DOMAIN P /\ h + 2 \in DOMAIN P /\ h + 3 \in DOMAIN P
      /\ h \in DOMAIN P
  BY <1>1
<1>3. \A k \in DOMAIN P : /\ P[k] = "head" <=> k = h
                          /\ P[k] = "lists" <=> k = h + 1
                          /\ P[k] = "items" <=> k = h + 2
                          /\ P[k] = "send" <=> k = h + 3
                          /\ k < h <=> P[k] \in {"find", "insert", "noteid"} \cup Columns
  <2> TAKE k \in DOMAIN P
  <2>1. k \in 1 .. h - 1 \/ k = h \/ k = h + 1 \/ k = h + 2 \/ k = h + 3
    BY <1>1
  <2>2. k \in 1 .. h - 1 => k # h /\ k # h + 1 /\ k # h + 2 /\ k # h + 3 /\ k < h
    BY <1>1
  <2>3. h # h + 1 /\ h # h + 2 /\ h # h + 3 /\ h + 1 # h + 2 /\ h + 1 # h + 3 /\ h + 2 # h + 3
    BY <1>1
  <2>4. ~ (h < h) /\ ~ (h + 1 < h) /\ ~ (h + 2 < h) /\ ~ (h + 3 < h)
    BY <1>1
  <2>5. \A s \in {"head", "lists", "items", "send"} :
           s \notin {"find", "insert", "noteid"} \cup Columns
    BY DEF Columns
  <2> QED
    BY <1>1, <2>1, <2>2, <2>3, <2>4, <2>5
<1>4. /\ (\E k \in DOMAIN P : k < c /\ P[k] = "head") <=> c > h
      /\ (\E k \in DOMAIN P : k < c /\ P[k] = "lists") <=> c > h + 1
      /\ (\E k \in DOMAIN P : k < c /\ P[k] = "items") <=> c > h + 2
      /\ (\E k \in DOMAIN P : k < c /\ P[k] = "send") <=> c > h + 3
  BY <1>2, <1>3
<1> QED
  BY <1>3, <1>4 DEF P, h

-----------------------------------------------------------------------------
(* Trees.                                                                  *)

(* A row and its parent are of the same note.                              *)
LEMMA NoteOfParent ==
    ASSUME Types, Trees, NEW x \in Ids, status[x] # "free", parent[x] # None
    PROVE  /\ parent[x] \in Ids /\ status[parent[x]] # "free"
           /\ NoteOf(parent[x]) = NoteOf(x)
BY DEF Trees, Known, NoteOf

(* The rows that a DELETE of t takes are all of the note of t.             *)
LEMMA InTree ==
    ASSUME Types, Trees, NEW t \in Ids, status[t] # "free", NEW x \in Cascade(t)
    PROVE  x \in Ids /\ status[x] # "free" /\ NoteOf(x) = NoteOf(t)
<1>1. ASSUME NEW y \in Ids, NEW z \in Children(y)
      PROVE  z \in Ids /\ status[z] # "free" /\ NoteOf(z) = NoteOf(y)
  <2>1. z \in Ids /\ status[z] = "live" /\ parent[z] = y /\ y # None
    BY <1>1, IdsAssumption DEF Children
  <2> QED
    BY <2>1, NoteOfParent
<1> QED
  BY <1>1 DEF Cascade

(* A row stays with its note.                                              *)
LEMMA NoteOfKept ==
    ASSUME Types, AtStep, NotInsertedYet, Trees, [Next]_vars,
           NEW x \in Ids, status[x] # "free"
    PROVE  NoteOf(x)' = NoteOf(x)
<1>1. parent'[x] = parent[x] /\ TableOf(x)' = TableOf(x)
  BY RowsKept
<1>2. TableOf(x) = "checklist_items" => parent'[parent[x]] = parent[parent[x]]
  <2>1. ASSUME TableOf(x) = "checklist_items"
        PROVE  parent[x] \in Ids /\ status[parent[x]] # "free"
    BY <2>1 DEF Trees, Known
  <2> QED
    BY <2>1, RowsKept
<1>3. TableOf(x) \in Tables
  BY DEF Trees, Tables
<1> QED
  BY <1>1, <1>2, <1>3 DEF NoteOf, Tables

(* The note that a request is about is that of its target.                 *)
LEMMA RootKept ==
    ASSUME IndInv, [Next]_vars, NEW r \in Reqs, job[r].op # "none"
    PROVE  Root(r)' = Root(r)
<1> USE DEF IndInv
<1>1. job'[r] = job[r]
  BY JobsKept
<1>2. CASE job[r].op = "note_post"
  BY <1>1, <1>2 DEF Root
<1>3. CASE job[r].op # "note_post"
  <2>1. job[r].target \in Ids /\ status[job[r].target] # "free"
    BY <1>3, TargetKnown
  <2> SUFFICES ASSUME NEW t \in Ids, t = job[r].target
               PROVE  NoteOf(t)' = NoteOf(t)
    BY <1>1, <1>3, <2>1 DEF Root
  <2> QED
    BY <2>1, NoteOfKept
<1> QED
  BY <1>2, <1>3

-----------------------------------------------------------------------------
(* What a step does to a request and to the tree of a note.                *)

(* A request is changed only by serving it, or by its failure.            *)
LEMMA OwnStep ==
    ASSUME Types, AtStep, [Next]_vars, NEW r \in Reqs, job[r].op # "none"
    PROVE  /\ job'[r] = job[r] /\ pc[r] \in Nat /\ pc'[r] \in Nat
           /\ \/ Serve(r) /\ pc'[r] \in {pc[r], pc[r] + 1}
              \/ /\ pc'[r] = pc[r] /\ note'[r] = note[r]
                 /\ text'[r] = text[r] /\ todo'[r] = todo[r]
<1> USE DEF dbVars, textVars, syncVars
<1> DEFINE Same == /\ pc'[r] = pc[r] /\ note'[r] = note[r]
                   /\ text'[r] = text[r] /\ todo'[r] = todo[r]
<1>1. job'[r] = job[r]
  BY JobsKept
<1>2. pc[r] \in Nat
  BY PcType
<1>3. ASSUME NEW q \in Reqs, Receive(q)
      PROVE  Same
  <2>1. q # r
    BY <1>3 DEF Receive, AtStep
  <2> QED
    BY <1>3, <2>1 DEF Receive, Types
<1>4. ASSUME Serve(r)
      PROVE  pc'[r] \in {pc[r], pc[r] + 1}
  <2>1. CASE UNCHANGED <<pc, answer>>
    BY <2>1
  <2> QED
    BY <1>4, <2>1, ServeMoves, Moves
<1>5. ASSUME NEW q \in Reqs, Serve(q), q # r
      PROVE  Same
  <2>1. pc'[r] = pc[r]
    BY <1>5, ServeMoves DEF Advance, Answer, Types
  <2>2. CASE Find(q) \/ ListFiles(q) \/ GetNoteId(q) \/ Insert(q)
    BY <1>5, <2>1, <2>2 DEF Find, ListFiles, GetNoteId, Insert, Types
  <2>3. CASE Update(q) \/ Delete(q)
    BY <2>1, <2>3 DEF Update, Delete
  <2>4. CASE ReadHead(q) \/ ReadLists(q) \/ ReadItems(q) \/ Send(q)
    BY <1>5, <2>1, <2>4 DEF ReadHead, ReadLists, ReadItems, Send, Types
  <2> QED
    BY <1>5, <2>2, <2>3, <2>4 DEF Serve
<1>6. ASSUME NEW q \in Reqs, Throw(q) \/ RunTask(q)
      PROVE  Same
  BY <1>6 DEF Throw, Answer, RunTask, Deliver, CallFails
<1>7. Restart \/ UNCHANGED vars => Same
  BY DEF Restart, vars
<1>8. Same \/ Serve(r)
  BY <1>3, <1>5, <1>6, <1>7 DEF Next, Rest
<1> QED
  BY <1>1, <1>2, <1>4, <1>8

(* A request stays concerned with its note.                                *)
LEMMA ConcernedKept ==
    ASSUME IndInv, [Next]_vars, NEW r \in Reqs, NEW n, Concerned(r, n)
    PROVE  Concerned(r, n)' /\ job'[r] = job[r]
<1>1. job[r].op # "none" /\ pc[r] >= 2 /\ Root(r) = n
  BY DEF Concerned
<1>2. job'[r] = job[r] /\ Root(r)' = Root(r)
  BY <1>1, RootKept, OwnStep DEF IndInv
<1>3. pc'[r] >= 2
  BY <1>1, OwnStep DEF IndInv
<1> QED
  BY <1>1, <1>2, <1>3 DEF Concerned

(* It becomes so by its first statement.                                   *)
LEMMA FirstStep ==
    ASSUME IndInv, [Next]_vars, NEW r \in Reqs, NEW n, Concerned(r, n)', ~ Concerned(r, n)
    PROVE  /\ Serve(r) /\ Running(r) /\ pc[r] = 1 /\ pc'[r] = 2
           /\ job'[r] = job[r] /\ job[r].op \in AllOps /\ Root(r) = n
<1> USE DEF IndInv
<1>1. job'[r].op # "none" /\ pc'[r] >= 2 /\ Root(r)' = n
  BY DEF Concerned
<1>2. job[r].op # "none"
  <2>1. SUFFICES ASSUME job[r].op = "none" PROVE FALSE
    OBVIOUS
  <2>2. PICK q \in Reqs : Receive(q)
    BY <1>1, <2>1, JobsFrame
  <2>3. q = r
    BY <1>1, <2>1, <2>2 DEF Receive, Types
  <2>4. pc'[r] = 1
    BY <2>2, <2>3 DEF Receive, Types
  <2> QED
    BY <1>1, <2>4
<1>3. job'[r] = job[r] /\ Root(r)' = Root(r) /\ job[r].op \in AllOps
  BY <1>2, OwnStep, RootKept DEF Types
<1>4. ~ (pc[r] >= 2)
  BY <1>1, <1>2, <1>3 DEF Concerned
<1>5. pc[r] # 0
  BY <1>2 DEF AtStep
<1>6. Serve(r) /\ pc[r] = 1 /\ pc'[r] = 2
  BY <1>1, <1>2, <1>4, <1>5, OwnStep
<1> QED
  BY <1>1, <1>3, <1>6, ServeMoves

LEMMA DbFrame ==
    ASSUME [Next]_vars
    PROVE  \/ \E r \in Reqs : Insert(r) \/ Update(r) \/ Delete(r)
           \/ UNCHANGED dbVars
<1> USE DEF dbVars, textVars, syncVars
<1>1. CASE \E r \in Reqs : Receive(r) \/ Throw(r) \/ RunTask(r)
  BY <1>1 DEF Receive, Throw, RunTask, Deliver, CallFails
<1>2. ASSUME NEW r \in Reqs, Serve(r)
      PROVE  Insert(r) \/ Update(r) \/ Delete(r) \/ UNCHANGED dbVars
  BY <1>2 DEF Serve, Find, ListFiles, GetNoteId, ReadHead, ReadLists, ReadItems, Send
<1>3. CASE Restart \/ UNCHANGED vars
  BY <1>3 DEF Restart, vars
<1> QED
  BY <1>1, <1>2, <1>3 DEF Next, Rest

(* The rows of a live note and what they hold stay as they are, unless a   *)
(* request that is about the note inserts, updates or deletes.            *)
LEMMA TreeStays ==
    ASSUME IndInv, [Next]_vars, NEW n \in Ids, IsNote(n),
           \A q \in Reqs : Insert(q) \/ Update(q) \/ Delete(q) => Root(q) # n
    PROVE  /\ IsNote(n)'
           /\ Children(n)' = Children(n)
           /\ \A x \in Children(n) : Children(x)' = Children(x)
           /\ Cascade(n)' = Cascade(n)
           /\ \A S \in SUBSET Cascade(n) : Quote(S)' = Quote(S)
<1> USE DEF IndInv
<1>1. status[n] = "live" /\ n # None /\ TableOf(n) = "notes" /\ NoteOf(n) = n
  BY DEF IsNote, Live, NoteOf
<1>2. \A x \in Cascade(n) : x \in Ids /\ status[x] = "live" /\ NoteOf(x) = n /\ x # None
  <2>1. \A x \in Cascade(n) : x \in Ids /\ NoteOf(x) = n
    BY <1>1, InTree
  <2>2. \A x \in Cascade(n) : status[x] = "live"
    BY <1>1 DEF Cascade, Children
  <2> QED
    BY <2>1, <2>2, IdsAssumption
<1>3. \A y \in Ids : status[y] = "live" /\ parent[y] \in {n} \cup Children(n) => y \in Cascade(n)
  BY DEF Cascade, Children
<1> DEFINE Kept == \A x \in Cascade(n) : /\ status'[x] = "live" /\ parent'[x] = parent[x]
                                         /\ writes'[x] = writes[x]
           NoneNew == \A y \in Ids : /\ status'[y] = "live"
                                     /\ parent'[y] \in {n} \cup Children(n)
                                     => y \in Cascade(n)
<1>4. ASSUME NEW q \in Reqs, Insert(q)
      PROVE  Kept /\ NoneNew
  <2> DEFINE t == job[q].target
  <2>1. q \in Ids /\ status[q] = "free" /\ Root(q) # n /\ job[q].op \in Inserting
    BY <1>4, InsertIsFresh DEF Insert, Ids
  <2>2. CASE UNCHANGED dbVars
    BY <1>2, <1>3, <2>2 DEF dbVars
  <2>3. CASE ~ UNCHANGED dbVars
    <3>1. /\ status' = [status EXCEPT ![q] = "live"]
          /\ parent' = [parent EXCEPT ![q] = t]
          /\ writes' = [writes EXCEPT ![q] = {<<q, "insert">>}]
      BY <1>4, <2>3 DEF Insert
    <3>2. t \notin {n} \cup Children(n)
      <4>1. SUFFICES ASSUME t \in Cascade(n) PROVE FALSE
        BY DEF Cascade
      <4>2. t # None /\ NoteOf(t) = n
        BY <1>2, <4>1
      <4>3. job[q].op # "note_post"
        BY <2>1, <4>2 DEF Targets, Inserting
      <4> QED
        BY <2>1, <4>2, <4>3 DEF Root
    <3>3. Kept
      BY <1>2, <2>1, <3>1 DEF Types
    <3>4. NoneNew
      BY <1>3, <2>1, <3>1, <3>2 DEF Types
    <3> QED
      BY <3>3, <3>4
  <2> QED
    BY <2>2, <2>3
<1>5. ASSUME NEW q \in Reqs, Update(q)
      PROVE  Kept /\ NoneNew
  <2> DEFINE t == job[q].target
  <2>1. Root(q) # n /\ UNCHANGED <<status, parent>>
    BY <1>5 DEF Update
  <2>2. \/ writes' = writes
        \/ Live(t) /\ writes' = [writes EXCEPT ![t] = @ \cup {<<q, Step(q)>>}]
    BY <1>5 DEF Update
  <2>3. job[q].op # "none"
    BY <1>5 DEF Update, At, Running, AtStep
  <2>4. Live(t) => t \notin Cascade(n)
    <3>1. Live(t) => job[q].op # "note_post"
      BY <2>3 DEF Live, Targets
    <3> QED
      BY <1>2, <2>1, <3>1 DEF Root
  <2>5. \A x \in Cascade(n) : writes'[x] = writes[x]
    BY <1>2, <2>2, <2>4 DEF Types
  <2> QED
    BY <1>2, <1>3, <2>1, <2>5
<1>6. ASSUME NEW q \in Reqs, Delete(q)
      PROVE  Kept /\ NoneNew
  <2> DEFINE t == job[q].target
  <2>1. /\ Root(q) # n /\ UNCHANGED <<parent, writes>>
        /\ status' = [x \in Ids |-> IF status[x] = "live" /\ x \in Cascade(t)
                                    THEN "gone" ELSE status[x]]
    BY <1>6 DEF Delete
  <2>2. t \in Ids /\ status[t] # "free" /\ Root(q) = NoteOf(t)
    <3>1. job[q].op \in AllOps /\ pc[q] \in DOMAIN Program(job[q].op)
          /\ Program(job[q].op)[pc[q]] = "delete"
      BY <1>6 DEF Delete, At, Running, Step, AtStep, Types
    <3>2. job[q].op # "note_post" /\ job[q].op # "none"
      BY <3>1, ProgramFacts DEF Deleting
    <3> QED
      BY <3>2, TargetKnown DEF Root
  <2>3. \A x \in Cascade(n) : x \notin Cascade(t)
    BY <1>2, <2>1, <2>2, InTree
  <2> QED
    BY <1>2, <1>3, <2>1, <2>3
<1>7. UNCHANGED dbVars => Kept /\ NoneNew
  BY <1>2, <1>3 DEF dbVars
<1>8. Kept /\ NoneNew
  BY <1>4, <1>5, <1>6, <1>7, DbFrame
<1>9. n \in Cascade(n) /\ Children(n) \subseteq Cascade(n)
      /\ \A x \in Children(n) : Children(x) \subseteq Cascade(n)
  BY DEF Cascade
<1>10. \A x \in {n} \cup Children(n) : Children(x)' = Children(x)
  BY <1>8, <1>9, <1>2 DEF Children
<1>11. Cascade(n)' = Cascade(n)
  BY <1>10 DEF Cascade
<1>12. \A S \in SUBSET Cascade(n) : Quote(S)' = Quote(S)
  BY <1>8 DEF Quote
<1>13. IsNote(n)'
  BY <1>1, <1>8, <1>9, RowsKept DEF IsNote, Live
<1> QED
  BY <1>10, <1>11, <1>12, <1>13

-----------------------------------------------------------------------------
(* What the requests know and leave behind.                                *)

(* A handler takes a step once.                                            *)
LEMMA NotYet ==
    ASSUME Types, AtStep, NEW r \in Reqs, NEW s, At(r, {s})
    PROVE  ~ Done(r, s)
<1>1. /\ job[r].op \in AllOps /\ pc[r] \in DOMAIN Program(job[r].op)
      /\ Program(job[r].op)[pc[r]] = s
  BY Handler
<1>2. DOMAIN Program(job[r].op) \subseteq Nat
  BY <1>1, ProgramFacts
<1>3. \A k \in DOMAIN Program(job[r].op) : Program(job[r].op)[k] = s => k = pc[r]
  BY <1>1, OrderFacts
<1> QED
  BY <1>1, <1>2, <1>3 DEF Done

LEMMA NotFoundInvariant ==
    ASSUME IndInv, NotFoundAtStart, [Next]_vars
    PROVE  NotFoundAtStart'
<1> USE DEF IndInv
<1>1. SUFFICES ASSUME NEW r \in Reqs, answer'[r] = "404"
               PROVE  pc'[r] = 1
  BY DEF NotFoundAtStart
<1>2. answer[r] = "404" => pc[r] = 1
  BY DEF NotFoundAtStart
<1>3. ASSUME NEW q \in Reqs, Receive(q)
      PROVE  pc'[r] = 1
  <2>1. answer[r] = "404" /\ q # r
    BY <1>1, <1>3 DEF Receive
  <2> QED
    BY <1>2, <1>3, <2>1 DEF Receive, Types
<1>4. ASSUME NEW q \in Reqs, Serve(q), q # r
      PROVE  pc'[r] = 1
  <2>1. pc'[r] = pc[r] /\ answer'[r] = answer[r]
    BY <1>4, ServeMoves DEF Advance, Answer, Types
  <2> QED
    BY <1>1, <1>2, <2>1
<1>5. ASSUME Find(r)
      PROVE  pc'[r] = 1
  <2>1. answer[r] = "none" /\ At(r, {"find"})
    BY <1>5 DEF Find, At, Running
  <2>2. pc[r] = 1
    <3>1. /\ job[r].op \in AllOps /\ pc[r] \in DOMAIN Program(job[r].op)
          /\ Program(job[r].op)[pc[r]] = "find"
      BY <2>1, Handler
    <3> QED
      BY <3>1, HandlerFacts
  <2>3. pc' = pc
    BY <1>1, <1>5, <2>1 DEF Find, Advance, Answer, Types
  <2> QED
    BY <2>2, <2>3
<1>6. ASSUME Serve(r), ~ Find(r)
      PROVE  FALSE
  <2>1. answer[r] = "none"
    BY <1>6, ServeMoves DEF Running
  <2>2. Advance(r) \/ Answer(r, "500") \/ answer' = answer
    <3>1. CASE ListFiles(r) \/ GetNoteId(r) \/ Insert(r) \/ Update(r) \/ Delete(r)
      BY <3>1 DEF ListFiles, GetNoteId, Insert, Update, Delete, AdvanceOrThrow
    <3>2. CASE ReadHead(r) \/ ReadLists(r) \/ ReadItems(r) \/ Send(r)
      BY <3>2 DEF ReadHead, ReadLists, ReadItems, Send
    <3> QED
      BY <1>6, <3>1, <3>2 DEF Serve
  <2> QED
    BY <1>1, <2>1, <2>2 DEF Advance, Answer, Types
<1>7. ASSUME NEW q \in Reqs, Throw(q)
      PROVE  pc'[r] = 1
  BY <1>1, <1>2, <1>7 DEF Throw, Answer, Types
<1>8. ASSUME NEW q \in Reqs, RunTask(q)
      PROVE  pc'[r] = 1
  BY <1>1, <1>2, <1>8 DEF RunTask, Deliver, CallFails
<1>9. CASE Restart
  BY <1>1, <1>2, <1>9 DEF Restart
<1>10. CASE UNCHANGED vars
  BY <1>1, <1>2, <1>10 DEF vars
<1> QED
  BY <1>3, <1>4, <1>5, <1>6, <1>7, <1>8, <1>9, <1>10 DEF Next, Rest

(* Whatever a handler finds for its note_id is the note it is about.       *)
LEMMA NoteFound ==
    ASSUME IndInv, [Next]_vars, NEW r \in Reqs, job[r].op # "none"
    PROVE  /\ note'[r] \in {note[r], Root(r)}
           /\ Serve(r) /\ pc' # pc /\ At(r, {"noteid"}) => note'[r] = Root(r)
           /\ Serve(r) /\ pc' # pc /\ At(r, {"insert"}) /\ job[r].op = "note_post" =>
                 note'[r] = Root(r)
<1> USE DEF IndInv
<1>1. CASE GetNoteId(r) /\ NoteIdFound(job[r].target)
  <2> DEFINE t == job[r].target
             op == job[r].op
  <2>1. /\ At(r, {"noteid"}) /\ op \in AllOps
        /\ pc[r] \in DOMAIN Program(op) /\ Program(op)[pc[r]] = "noteid"
    BY <1>1, Handler DEF GetNoteId
  <2>2. TargetTable(op) \in {"checklists", "checklist_items"}
    BY <2>1, ProgramFacts
  <2>3. op # "note_post" /\ t \in Known(TargetTable(op))
    BY <1>1, TargetKnown DEF NoteIdFound, Live, Targets
  <2>4. Root(r) = IF TargetTable(op) = "checklists" THEN parent[t] ELSE parent[parent[t]]
    BY <2>2, <2>3 DEF Root, NoteOf, Known
  <2>5. note'[r] = Root(r)
    BY <1>1, <2>4 DEF GetNoteId, Types
  <2> QED
    BY <2>1, <2>5 DEF At
<1>2. CASE Insert(r) /\ ForeignKeyHolds(job[r].target)
  BY <1>2 DEF Insert, Root, Types, At
<1>3. CASE Serve(r) /\ note' = note /\ (At(r, {"noteid", "insert"}) => pc' = pc)
  BY <1>3 DEF At
<1>4. CASE ~ Serve(r)
  BY <1>4, OwnStep
<1> QED
  BY <1>1, <1>2, <1>3, <1>4, NoteIdChanges

LEMMA OwnNoteInvariant ==
    ASSUME IndInv, OwnNote, [Next]_vars
    PROVE  OwnNote'
<1> USE DEF IndInv
<1>1. SUFFICES ASSUME NEW r \in Reqs, job'[r].op # "none", NEW s \in {"noteid", "insert"},
                      Done(r, s)', s = "insert" => job'[r].op = "note_post"
               PROVE  note'[r] = Root(r)'
  BY DEF OwnNote
<1>2. job[r].op # "none"
  BY <1>1, NothingDone
<1>3. job'[r] = job[r] /\ Root(r)' = Root(r) /\ note'[r] \in {note[r], Root(r)}
  BY <1>2, JobsKept, RootKept, NoteFound
<1>4. CASE Done(r, s)
  BY <1>1, <1>2, <1>3, <1>4 DEF OwnNote
<1>5. CASE ~ Done(r, s)
  <2>1. At(r, {s}) /\ Serve(r) /\ pc'[r] = pc[r] + 1
    BY <1>1, <1>5, StepDone DEF StepNames
  <2>2. pc' # pc
    BY <2>1 DEF Types
  <2> QED
    BY <1>1, <1>2, <1>3, <2>1, <2>2, NoteFound
<1> QED
  BY <1>4, <1>5

(* When it reads or sends, a handler has the note_id of its note.          *)
LEMMA NoteAt ==
    ASSUME IndInv, OwnNote, NEW r \in Reqs, NEW s \in Reading \cup {"send"}, At(r, {s})
    PROVE  note[r] = Root(r)
<1> USE DEF IndInv
<1> DEFINE op == job[r].op
           P == Program(op)
<1>1. /\ op \in AllOps /\ op # "none" /\ pc[r] \in DOMAIN P /\ P[pc[r]] = s
      /\ \A q : (\E j \in DOMAIN P : j < pc[r] /\ P[j] = q) => Done(r, q)
  BY Handler
<1>2. CASE op \in NoteKnownAtStart
  <2>1. note[r] = job[r].target /\ op # "note_post"
    BY <1>1, <1>2 DEF NoteIds, NoteKnownAtStart
  <2>2. job[r].target \in Known("notes")
    BY <1>1, <1>2, TargetKnown DEF TargetTable, NoteKnownAtStart
  <2> QED
    BY <2>1, <2>2 DEF Root, NoteOf, Known
<1>3. CASE op \notin NoteKnownAtStart
  <2>1. \E j \in DOMAIN P : /\ j < pc[r]
                            /\ P[j] = "noteid" \/ (op = "note_post" /\ P[j] = "insert")
    BY <1>1, <1>3, HandlerFacts
  <2>2. Done(r, "noteid") \/ (op = "note_post" /\ Done(r, "insert"))
    BY <1>1, <2>1
  <2> QED
    BY <1>1, <2>2 DEF OwnNote
<1> QED
  BY <1>2, <1>3

(* Of a task only the state changes, and only while it is pending.        *)
LEMMA TaskMoves ==
    ASSUME Types, [Next]_vars, NEW r \in Reqs, ~ Send(r)
    PROVE  \/ task'[r] = task[r]
           \/ /\ task[r].state = "pending"
              /\ task'[r].state \in {"delivered", "failed", "lost"}
              /\ task'[r].note = task[r].note /\ task'[r].text = task[r].text
              /\ task'[r].state = "delivered" => Deliver(r)
<1>1. task \in [Reqs -> [kind : {"none", "add", "update", "delete"},
                         note : Ids \cup {None}, text : SUBSET Quotes,
                         state : {"none", "pending", "delivered", "failed", "lost"}]]
  BY DEF Types
<1>2. ASSUME NEW q \in Reqs, Receive(q) \/ Throw(q)
      PROVE  task' = task
  BY <1>2 DEF Receive, Throw, syncVars
<1>3. ASSUME NEW q \in Reqs, Serve(q)
      PROVE  task' = task \/ Send(q)
  BY <1>3 DEF Serve, Find, ListFiles, GetNoteId, Insert, Update, Delete,
              ReadHead, ReadLists, ReadItems, syncVars
<1>4. ASSUME NEW q \in Reqs, Send(q)
      PROVE  task'[r] = task[r]
  <2>1. q # r
    BY <1>4
  <2> QED
    BY <1>1, <1>4, <2>1 DEF Send
<1>5. ASSUME NEW q \in Reqs, Deliver(q) \/ CallFails(q), q # r
      PROVE  task'[r] = task[r]
  BY <1>1, <1>5 DEF Deliver, CallFails
<1>6. ASSUME Deliver(r) \/ CallFails(r)
      PROVE  /\ task[r].state = "pending"
             /\ task'[r].state \in {"delivered", "failed"}
             /\ task'[r].note = task[r].note /\ task'[r].text = task[r].text
             /\ task'[r].state = "delivered" => Deliver(r)
  BY <1>1, <1>6 DEF Deliver, CallFails
<1>7. ASSUME Restart
      PROVE  \/ task'[r] = task[r]
             \/ /\ task[r].state = "pending" /\ task'[r].state = "lost"
                /\ task'[r].note = task[r].note /\ task'[r].text = task[r].text
  <2>1. task' = [q \in Reqs |-> IF task[q].state = "pending"
                                THEN [task[q] EXCEPT !.state = "lost"] ELSE task[q]]
    BY <1>7 DEF Restart
  <2> QED
    BY <1>1, <2>1
<1>8. CASE UNCHANGED vars
  BY <1>8 DEF vars
<1> QED
  BY <1>2, <1>3, <1>4, <1>5, <1>6, <1>7, <1>8 DEF Next, Rest, RunTask

LEMMA SentInvariant ==
    ASSUME IndInv, TaskOwned, OwnNote, Sent, [Next]_vars
    PROVE  Sent'
<1> USE DEF IndInv
<1>1. SUFFICES ASSUME NEW r \in Reqs, job'[r].op # "none"
               PROVE  /\ task'[r].state # "none" <=> Done(r, "send")'
                      /\ Done(r, "send")' => task'[r].note = Root(r)'
  BY DEF Sent
<1>2. CASE job[r].op = "none"
  <2>1. task[r].state = "none" /\ ~ Send(r)
    BY <1>2 DEF TaskOwned, Send, At, Running, AtStep
  <2> QED
    BY <1>1, <1>2, <2>1, NothingDone, TaskMoves
<1>3. CASE job[r].op # "none" /\ Send(r)
  <2>1. /\ task'[r].state = "pending" /\ task'[r].note = note[r]
        /\ At(r, {"send"}) /\ pc'[r] = pc[r] + 1 /\ job'[r] = job[r]
    BY <1>3 DEF Send, Advance, Types
  <2>2. note[r] = Root(r) /\ Root(r)' = Root(r)
    BY <1>3, <2>1, NoteAt, RootKept
  <2>3. Done(r, "send")'
    <3>1. pc[r] \in DOMAIN Program(job[r].op) /\ Program(job[r].op)[pc[r]] = "send"
      BY <2>1, Handler
    <3>2. pc[r] < pc'[r]
      <4>1. pc[r] \in 0 .. 9
        BY DEF Types
      <4> QED
        BY <2>1, <4>1
    <3> QED
      BY <2>1, <3>1, <3>2 DEF Done
  <2> QED
    BY <2>1, <2>2, <2>3
<1>4. CASE job[r].op # "none" /\ ~ Send(r)
  <2>1. Done(r, "send")' <=> Done(r, "send")
    <3>1. At(r, {"send"}) /\ Serve(r) => Send(r)
      BY DEF Serve, At, Columns, Find, ListFiles, GetNoteId, Insert, Update, Delete,
             ReadHead, ReadLists, ReadItems
    <3> QED
      BY <1>4, <3>1, StepDone, DoneKept DEF StepNames
  <2>2. /\ task'[r].state # "none" <=> task[r].state # "none"
        /\ task[r].state # "none" => task'[r].note = task[r].note
    BY <1>4, TaskMoves
  <2>3. Root(r)' = Root(r)
    BY <1>4, RootKept
  <2> QED
    BY <1>4, <2>1, <2>2, <2>3 DEF Sent
<1> QED
  BY <1>2, <1>3, <1>4

(* A task that is there is not sent again.                                 *)
LEMMA SentOnce ==
    ASSUME IndInv, Sent, NEW r \in Reqs, Send(r)
    PROVE  task[r].state = "none"
<1>1. At(r, {"send"}) /\ job[r].op # "none"
  BY DEF Send, At, Running, AtStep, IndInv
<1>2. ~ Done(r, "send")
  BY <1>1, NotYet DEF IndInv
<1> QED
  BY <1>1, <1>2 DEF Sent

LEMMA IndexFrame ==
    ASSUME [Next]_vars
    PROVE  index' = index \/ \E r \in Reqs : Deliver(r)
<1>1. ASSUME NEW r \in Reqs, Serve(r)
      PROVE  index' = index
  BY <1>1 DEF Serve, Find, ListFiles, GetNoteId, Insert, Update, Delete,
              ReadHead, ReadLists, ReadItems, Send, syncVars
<1>2. ASSUME NEW r \in Reqs, Receive(r) \/ Throw(r) \/ CallFails(r)
      PROVE  index' = index
  BY <1>2 DEF Receive, Throw, CallFails, syncVars
<1>3. CASE Restart \/ UNCHANGED vars
  BY <1>3 DEF Restart, vars
<1> QED
  BY <1>1, <1>2, <1>3 DEF Next, Rest, RunTask

-----------------------------------------------------------------------------
(* A request that has missed nothing of its note.                          *)

(* Before it reads there is nothing that it could have missed.             *)
LEMMA NotReadYet ==
    ASSUME NEW r \in Reqs, NEW n, job'[r].op \in WriteFirst, pc'[r] \in Nat,
           pc'[r] <= Len(Program(job'[r].op)) - 3
    PROVE  UpToDate(r, n)'
<1>1. Len(Program(job'[r].op)) - 3 \in 2 .. 5
  BY LastFour
<1>2. \A s \in {"head", "lists", "items", "send"} : ~ Done(r, s)'
  <2> DEFINE P == Program(job'[r].op)
             h == Len(P) - 3
  <2>1. /\ (\E k \in DOMAIN P : k < pc'[r] /\ P[k] = "head") <=> pc'[r] > h
        /\ (\E k \in DOMAIN P : k < pc'[r] /\ P[k] = "lists") <=> pc'[r] > h + 1
        /\ (\E k \in DOMAIN P : k < pc'[r] /\ P[k] = "items") <=> pc'[r] > h + 2
        /\ (\E k \in DOMAIN P : k < pc'[r] /\ P[k] = "send") <=> pc'[r] > h + 3
    BY Stage
  <2>2. ~ (pc'[r] > h) /\ ~ (pc'[r] > h + 1) /\ ~ (pc'[r] > h + 2) /\ ~ (pc'[r] > h + 3)
    BY <1>1
  <2> QED
    BY <2>1, <2>2 DEF Done
<1> QED
  BY <1>2 DEF UpToDate

LEMMA QuoteUnion ==
    ASSUME NEW A, NEW B
    PROVE  Quote(A \cup B) = Quote(A) \cup Quote(B)
BY DEF Quote

(* One that has missed nothing misses nothing in a step that leaves the   *)
(* tree of the note alone, its own queries among them.                     *)
LEMMA UpToDateKept ==
    ASSUME IndInv, OwnNote, [Next]_vars, NEW n \in Ids,
           Children(n)' = Children(n),
           \A x \in Children(n) : Children(x)' = Children(x),
           Cascade(n)' = Cascade(n),
           \A S \in SUBSET Cascade(n) : Quote(S)' = Quote(S),
           NEW r \in Reqs, job[r].op \in WriteFirst, Root(r) = n,
           UpToDate(r, n), answer'[r] # "500"
    PROVE  UpToDate(r, n)'
<1> USE DEF IndInv
<1> DEFINE op == job[r].op
           P == Program(op)
           h == Len(P) - 3
           c == pc[r]
<1>1. /\ r \in Reqs /\ op \in WriteFirst /\ op \in AllOps /\ op # "none" /\ Root(r) = n
      /\ job'[r] = job[r] /\ c \in Nat /\ pc'[r] \in Nat /\ h \in 2 .. 5 /\ DOMAIN P = 1 .. h + 3
  BY LastFour, OwnStep
<1> DEFINE Past(k, s) == \E j \in DOMAIN P : j < k /\ P[j] = s
<1>2. \A k \in Nat : /\ Past(k, "head") <=> k > h
                     /\ Past(k, "lists") <=> k > h + 1
                     /\ Past(k, "items") <=> k > h + 2
                     /\ Past(k, "send") <=> k > h + 3
  BY <1>1, Stage
<1>3. \A s : /\ Done(r, s) <=> Past(c, s)
             /\ Done(r, s)' <=> Past(pc'[r], s)
  BY <1>1 DEF Done
<1> HIDE DEF Past
<1>4. /\ Done(r, "head") <=> c > h
      /\ Done(r, "lists") <=> c > h + 1
      /\ Done(r, "items") <=> c > h + 2
      /\ Done(r, "send") <=> c > h + 3
  BY <1>1, <1>2, <1>3
<1>5. /\ Done(r, "head")' <=> pc'[r] > h
      /\ Done(r, "lists")' <=> pc'[r] > h + 1
      /\ Done(r, "items")' <=> pc'[r] > h + 2
      /\ Done(r, "send")' <=> pc'[r] > h + 3
  BY <1>1, <1>2, <1>3
<1>6. c \in DOMAIN P => /\ P[c] = "head" <=> c = h
                        /\ P[c] = "lists" <=> c = h + 1
                        /\ P[c] = "items" <=> c = h + 2
                        /\ P[c] = "send" <=> c = h + 3
                        /\ c < h <=> P[c] \in {"find", "insert", "noteid"} \cup Columns
  BY <1>1, Stage
<1>7. \A s : At(r, {s}) => Running(r) /\ c \in DOMAIN P /\ P[c] = s
  BY <1>1, Handler
<1> DEFINE All(D) == {n} \cup Children(n) \cup UNION {Children(x) : x \in Children(n) \ D}
           T == IF pc'[r] > h + 1 THEN All(todo'[r]) ELSE {n}
<1>8. Seen(r, n)' = T /\ T \subseteq Cascade(n)
  <2>1. UNION {Children(x) : x \in Children(n) \ todo[r]}' =
           UNION {Children(x) : x \in Children(n) \ todo'[r]}
    <3>1. ASSUME NEW y
          PROVE  y \in UNION {Children(x) : x \in Children(n) \ todo[r]}' <=>
                    \E x \in Children(n) \ todo'[r] : y \in Children(x)
      <4>1. y \in UNION {Children(x) : x \in Children(n) \ todo[r]}' <=>
               \E x \in Children(n)' \ todo'[r] : y \in Children(x)'
        OBVIOUS
      <4> QED
        BY <4>1
    <3> QED
      BY <3>1
  <2>2. Seen(r, n)' = IF Done(r, "lists")' THEN All(todo[r])' ELSE {n}
    BY DEF Seen
  <2>3. All(todo[r])' = All(todo'[r])
    BY <2>1
  <2>4. \A D : All(D) \subseteq Cascade(n)
    BY DEF Cascade
  <2>5. {n} \subseteq Cascade(n)
    BY DEF Cascade
  <2> HIDE DEF All
  <2> QED
    BY <1>5, <2>2, <2>3, <2>4, <2>5
<1>9. Quote(Seen(r, n))' = Quote(T)
  <2>1. PICK S \in SUBSET Cascade(n) : S = T
    BY <1>8
  <2>2. Quote(Seen(r, n))' = Quote(S)'
    BY <1>8, <2>1 DEF Quote
  <2> QED
    BY <2>1, <2>2
<1>10. Quote(Cascade(n))' = Quote(Cascade(n))
  <2>1. PICK S \in SUBSET Cascade(n) : S = Cascade(n)
    OBVIOUS
  <2>2. Quote(Cascade(n))' = Quote(S)'
    BY <2>1 DEF Quote
  <2> QED
    BY <2>1, <2>2
<1> DEFINE Fine == /\ pc'[r] > h + 1 => todo'[r] \subseteq Children(n)
                   /\ pc'[r] > h + 2 => todo'[r] = {}
                   /\ pc'[r] > h /\ ~ (pc'[r] > h + 3) => text'[r] = Quote(T)
                   /\ pc'[r] > h + 3 => task'[r].text = Quote(Cascade(n))
<1>11. SUFFICES Fine
  BY <1>5, <1>9, <1>10 DEF UpToDate
<1>12. Seen(r, n) = IF c > h + 1 THEN All(todo[r]) ELSE {n}
  BY <1>4 DEF Seen
<1>13. /\ c > h + 1 => todo[r] \subseteq Children(n)
       /\ c > h + 2 => todo[r] = {}
       /\ c > h /\ ~ (c > h + 3) => text[r] = Quote(IF c > h + 1 THEN All(todo[r]) ELSE {n})
       /\ c > h + 3 => task[r].text = Quote(Cascade(n))
  BY <1>4, <1>12 DEF UpToDate
<1> HIDE DEF h, P, op
<1>14. answer'[r] # "500"
  OBVIOUS
<1>15. ASSUME NEW s \in Reading \cup {"send"}, At(r, {s})
       PROVE  note[r] = n
  BY <1>1, <1>15, NoteAt
<1>16. ASSUME Advance(r) \/ Answer(r, "500")
       PROVE  pc'[r] = c + 1
  BY <1>1, <1>14, <1>16 DEF Advance, Answer, Types
<1>17. ~ Send(r) => task'[r].text = task[r].text
  BY <1>1, TaskTextKept
<1>18. ASSUME pc'[r] = c, text'[r] = text[r], todo'[r] = todo[r], ~ Send(r)
       PROVE  Fine
  BY <1>13, <1>17, <1>18
<1>19. CASE Find(r) \/ ListFiles(r) \/ GetNoteId(r) \/ Insert(r) \/ Update(r) \/ Delete(r)
  <2>1. PICK s \in {"find", "files", "noteid", "insert", "delete"} \cup Columns : At(r, {s})
    BY <1>19 DEF Find, ListFiles, GetNoteId, Insert, Update, Delete, At
  <2>2. c \in 1 .. h + 3 /\ P[c] = s
    BY <1>1, <1>7, <2>1 DEF P, h, op
  <2>3. c < h
    BY <1>1, <1>6, <2>1, <2>2 DEF Columns
  <2>4. pc'[r] \in {c, c + 1}
    BY <1>1, <1>7, <2>1, OwnStep DEF op
  <2>5. ~ (pc'[r] > h) /\ ~ (pc'[r] > h + 1) /\ ~ (pc'[r] > h + 2) /\ ~ (pc'[r] > h + 3)
    BY <1>1, <2>2, <2>3, <2>4
  <2> QED
    BY <2>5
<1>20. CASE ReadHead(r)
  <2>1. At(r, {"head"}) /\ c = h
    BY <1>6, <1>7, <1>20 DEF ReadHead
  <2>2. pc'[r] = c + 1
    BY <1>16, <1>20 DEF ReadHead
  <2>3. text'[r] = Quote({n})
    BY <1>1, <1>14, <1>15, <1>20, <2>1 DEF ReadHead, Answer, Types, Reading
  <2>4. T = {n}
    BY <1>1, <2>1, <2>2
  <2> QED
    BY <1>1, <2>1, <2>2, <2>3, <2>4
<1>21. CASE ReadLists(r)
  <2>1. At(r, {"lists"}) /\ c = h + 1
    BY <1>6, <1>7, <1>21 DEF ReadLists
  <2>2. pc'[r] = c + 1
    BY <1>16, <1>21 DEF ReadLists
  <2>3. text[r] = Quote({n})
    BY <1>1, <1>13, <2>1
  <2>4. text'[r] = Quote({n}) \cup Quote(Children(n)) /\ todo'[r] = Children(n)
    BY <1>1, <1>15, <1>21, <2>1, <2>3 DEF ReadLists, Types, Reading
  <2>5. T = {n} \cup Children(n)
    BY <1>1, <2>1, <2>2, <2>4
  <2> QED
    BY <1>1, <2>1, <2>2, <2>4, <2>5, QuoteUnion
<1>22. CASE ReadItems(r)
  <2>1. At(r, {"items"}) /\ c = h + 2
    BY <1>6, <1>7, <1>22 DEF ReadItems
  <2>2. text[r] = Quote(All(todo[r])) /\ todo[r] \subseteq Children(n)
    BY <1>1, <1>13, <2>1
  <2>3. CASE todo[r] = {} /\ Advance(r) /\ UNCHANGED textVars
    <3>1. pc'[r] = c + 1 /\ text'[r] = text[r] /\ todo'[r] = todo[r]
      BY <1>16, <2>3 DEF textVars
    <3>2. T = All(todo[r])
      BY <1>1, <2>1, <3>1
    <3>3. ~ (pc'[r] > h + 3)
      BY <1>1, <2>1, <3>1
    <3> QED
      BY <2>2, <2>3, <3>1, <3>2, <3>3
  <2>4. ASSUME NEW x \in todo[r],
               text' = [text EXCEPT ![r] = @ \cup Quote(Children(x))],
               todo' = [todo EXCEPT ![r] = Visited(@, x)], UNCHANGED pc
        PROVE  Fine
    <3>1. /\ text'[r] = text[r] \cup Quote(Children(x))
          /\ todo'[r] = todo[r] \ {x} /\ pc'[r] = c
      BY <1>1, <2>4 DEF Types, Visited
    <3>2. All(todo'[r]) = All(todo[r]) \cup Children(x)
      <4>1. Children(n) \ todo'[r] = (Children(n) \ todo[r]) \cup {x}
        BY <2>2, <2>4, <3>1
      <4>2. UNION {Children(y) : y \in Children(n) \ todo'[r]} =
               (UNION {Children(y) : y \in Children(n) \ todo[r]}) \cup Children(x)
        BY <4>1
      <4> QED
        BY <4>2
    <3>3. T = All(todo[r]) \cup Children(x)
      BY <1>1, <2>1, <3>1, <3>2
    <3>4. text'[r] = Quote(T)
      BY <2>2, <3>1, <3>3, QuoteUnion
    <3>5. ~ (pc'[r] > h + 2) /\ ~ (pc'[r] > h + 3)
      BY <1>1, <2>1, <3>1
    <3> QED
      BY <2>2, <3>1, <3>4, <3>5
  <2> QED
    BY <1>22, <2>3, <2>4 DEF ReadItems
<1>23. CASE Send(r)
  <2>1. At(r, {"send"}) /\ c = h + 3
    BY <1>6, <1>7, <1>23 DEF Send
  <2>2. pc'[r] = c + 1 /\ todo'[r] = todo[r]
    BY <1>16, <1>23 DEF Send
  <2>3. todo[r] = {} /\ text[r] = Quote(All(todo[r]))
    BY <1>1, <1>13, <2>1
  <2>4. All({}) = Cascade(n)
    BY DEF Cascade
  <2>5. task'[r].text = text[r]
    BY <1>1, <1>23 DEF Send, Types
  <2>6. pc'[r] > h + 3
    BY <1>1, <2>1, <2>2
  <2> QED
    BY <2>2, <2>3, <2>4, <2>5, <2>6
<1>24. CASE ~ Serve(r)
  <2>1. pc'[r] = c /\ text'[r] = text[r] /\ todo'[r] = todo[r] /\ ~ Send(r)
    BY <1>1, <1>24, OwnStep DEF Serve, op
  <2> QED
    BY <1>18, <2>1
<1> QED
  BY <1>19, <1>20, <1>21, <1>22, <1>23, <1>24 DEF Serve

-----------------------------------------------------------------------------
(* One request that has missed nothing remains.                            *)

(* An answer is final.                                                     *)
LEMMA AnswerKept ==
    ASSUME Types, AtStep, [Next]_vars, NEW q \in Reqs, answer[q] # "none"
    PROVE  answer'[q] = answer[q]
<1>1. ASSUME NEW r \in Reqs, Serve(r) \/ Throw(r)
      PROVE  answer'[q] = answer[q]
  <2>1. q # r
    BY <1>1, ServeMoves DEF Running
  <2> QED
    BY <1>1, <2>1, ServeMoves DEF Advance, Answer, Types
<1>2. ASSUME NEW r \in Reqs, Receive(r) \/ RunTask(r)
      PROVE  answer'[q] = answer[q]
  BY <1>2 DEF Receive, RunTask, Deliver, CallFails
<1>3. CASE Restart
  BY <1>3 DEF Restart, Running
<1>4. CASE UNCHANGED vars
  BY <1>4 DEF vars
<1> QED
  BY <1>1, <1>2, <1>3, <1>4 DEF Next, Rest

LEMMA FaultsStay ==
    ASSUME Types, AtStep, [Next]_vars, NoFault'
    PROVE  NoFault
BY AnswerKept DEF NoFault

(* A note that is there is changed by a handler only that formats it too  *)
(* early, or has yet to read it.                                           *)
LEMMA ChangedByWriter ==
    ASSUME IndInv, [Next]_vars, NEW n \in Ids, IsNote(n)',
           NEW q \in Reqs, Insert(q) \/ Update(q) \/ Delete(q), Root(q) = n,
           answer'[q] # "500"
    PROVE  /\ job'[q] = job[q] /\ Concerned(q, n)'
           /\ job[q].op \notin FormatFirst => job[q].op \in WriteFirst /\ UpToDate(q, n)'
<1> USE DEF IndInv
<1> DEFINE op == job[q].op
           P == Program(op)
           c == pc[q]
<1>1. PICK s \in {"insert", "delete"} \cup Columns : At(q, {s}) /\ (s = "delete" => Delete(q))
  BY DEF Insert, Update, Delete, At, Columns
<1>2. op \in AllOps /\ op # "none" /\ c \in DOMAIN P /\ P[c] = s
  BY <1>1, Handler
<1>3. DOMAIN P = 1 .. Len(P) /\ Len(P) \in Nat
  BY <1>2, ProgramFacts
<1>4. c \in Nat /\ c >= 1
  BY <1>2, <1>3
<1>5. pc'[q] = c + 1 /\ job'[q] = job[q] /\ Root(q)' = n
  <2>1. job'[q] = job[q] /\ Root(q)' = n
    BY <1>2, OwnStep, RootKept
  <2>3. Advance(q) \/ Answer(q, "500")
    BY DEF Insert, Update, Delete, AdvanceOrThrow
  <2>4. Advance(q)
    BY <2>3 DEF Answer, Types
  <2> QED
    BY <2>1, <2>4 DEF Advance, Types
<1>6. Concerned(q, n)'
  BY <1>2, <1>4, <1>5 DEF Concerned
<1>7. SUFFICES ASSUME op \notin FormatFirst
               PROVE  op \in WriteFirst /\ UpToDate(q, n)'
  BY <1>5, <1>6
<1>8. op # "note_delete"
  <2>1. SUFFICES ASSUME op = "note_delete" PROVE FALSE
    OBVIOUS
  <2>2. s \notin {"insert"} \cup Columns
    BY <1>2, <2>1 DEF Program, NoteDelete, Columns
  <2>3. Delete(q)
    BY <1>1, <2>2
  <2>4. job[q].target = n
    <3>1. job[q].target \in Known("notes")
      BY <2>1, TargetKnown DEF TargetTable
    <3> QED
      BY <2>1, <3>1 DEF Root, NoteOf, Known
  <2>5. status'[n] # "live"
    BY <2>3, <2>4 DEF Delete, Cascade
  <2> QED
    BY <2>5 DEF IsNote, Live
<1>9. op \in WriteFirst
  BY <1>2, <1>7, <1>8 DEF AllOps, FormatFirst, WriteFirst
<1>10. c < Len(P) - 3
  <2>1. c < Len(P) - 3 <=> P[c] \in {"find", "insert", "noteid"} \cup Columns
    BY <1>2, <1>4, <1>9, Stage
  <2>2. s # "delete"
    <3>1. s = "delete" => op \in Deleting
      BY <1>2, ProgramFacts
    <3> QED
      BY <1>9, <3>1 DEF WriteFirst, Deleting
  <2> QED
    BY <1>2, <2>1, <2>2
<1>11. pc'[q] \in Nat /\ pc'[q] <= Len(Program(job'[q].op)) - 3
  BY <1>3, <1>4, <1>5, <1>10
<1>12. UpToDate(q, n)'
  BY <1>5, <1>9, <1>11, NotReadYet
<1> QED
  BY <1>9, <1>12

(* A note that is there was there before, or has just been inserted by a  *)
(* request that is about it.                                               *)
LEMMA NoteWasThere ==
    ASSUME IndInv, [Next]_vars, NEW n \in Ids, IsNote(n)',
           \A q \in Reqs : Insert(q) \/ Update(q) \/ Delete(q) => Root(q) # n
    PROVE  IsNote(n)
<1> USE DEF IndInv
<1>1. status'[n] = "live" /\ n # None /\ TableOf(n)' = "notes"
  BY DEF IsNote, Live
<1>2. CASE status[n] = "live"
  BY <1>1, <1>2, RowsKept DEF IsNote, Live
<1>3. CASE status[n] # "live"
  <2>1. status[n] = "free"
    BY <1>1, <1>3, RowsKept DEF Types
  <2>2. PICK q \in Reqs : Insert(q)
    BY <1>1, <2>1, RowsFrame DEF Delete
  <2>3. n = q /\ job' = job /\ job[q].op \in Inserting
    BY <1>1, <2>1, <2>2, InsertIsFresh DEF Insert, Types, dbVars
  <2>4. n \notin Stored
    BY <2>3, IdsAssumption
  <2>5. InsertTable(job[q].op) = "notes"
    BY <1>1, <2>3, <2>4 DEF TableOf
  <2>6. job[q].op = "note_post"
    BY <2>3, <2>5 DEF InsertTable, Inserting
  <2> QED
    BY <2>2, <2>3, <2>6 DEF Root
<1> QED
  BY <1>2, <1>3

LEMMA NobodyNew ==
    ASSUME IndInv, [Next]_vars, NEW n, ~ FormatsFirst(n)'
    PROVE  /\ ~ FormatsFirst(n)
           /\ Writers(n) \subseteq Writers(n)'
<1>1. \A r \in Reqs : Concerned(r, n) => Concerned(r, n)' /\ job'[r] = job[r]
  BY ConcernedKept
<1> QED
  BY <1>1 DEF FormatsFirst, Writers

LEMMA FreshWitnessInvariant ==
    ASSUME IndInv, OwnNote, FreshWitness, [Next]_vars
    PROVE  FreshWitness'
<1> USE DEF IndInv
<1>1. SUFFICES ASSUME NoFault', NEW n \in Ids, IsNote(n)', ~ FormatsFirst(n)',
                      NEW r \in Writers(n)'
               PROVE  \E q \in Writers(n)' : UpToDate(q, n)'
  BY DEF FreshWitness
<1>2. CASE \E q \in Reqs : (Insert(q) \/ Update(q) \/ Delete(q)) /\ Root(q) = n
  <2>1. PICK q \in Reqs : (Insert(q) \/ Update(q) \/ Delete(q)) /\ Root(q) = n
    BY <1>2
  <2>2. answer'[q] # "500"
    BY <1>1 DEF NoFault
  <2>3. job'[q] = job[q] /\ Concerned(q, n)' /\ job[q].op \notin FormatFirst
    BY <1>1, <2>1, <2>2, ChangedByWriter DEF FormatsFirst
  <2> QED
    BY <1>1, <2>1, <2>2, <2>3, ChangedByWriter DEF Writers
<1>3. CASE \A q \in Reqs : Insert(q) \/ Update(q) \/ Delete(q) => Root(q) # n
  <2>1. NoFault /\ IsNote(n) /\ ~ FormatsFirst(n) /\ Writers(n) \subseteq Writers(n)'
    BY <1>1, <1>3, FaultsStay, NoteWasThere, NobodyNew
  <2>2. CASE Writers(n) # {}
    <3>1. PICK q \in Writers(n) : UpToDate(q, n)
      BY <2>1, <2>2 DEF FreshWitness
    <3>2. q \in Reqs /\ job[q].op \in WriteFirst /\ Root(q) = n /\ answer'[q] # "500"
      BY <1>1, <3>1 DEF Writers, Concerned, NoFault
    <3>3. UpToDate(q, n)'
      BY <1>3, <2>1, <3>1, <3>2, TreeStays, UpToDateKept
    <3> QED
      BY <2>1, <3>1, <3>3
  <2>3. CASE Writers(n) = {}
    <3>1. r \in Reqs /\ Concerned(r, n)' /\ job'[r].op \in WriteFirst
      BY <1>1 DEF Writers
    <3>2. ~ Concerned(r, n)
      <4>1. Concerned(r, n) => job'[r] = job[r]
        BY <3>1, ConcernedKept
      <4> QED
        BY <2>3, <3>1, <4>1 DEF Writers
    <3>3. pc'[r] = 2
      BY <3>1, <3>2, FirstStep
    <3>4. Len(Program(job'[r].op)) - 3 \in 2 .. 5
      BY <3>1, LastFour
    <3>5. PICK h \in 2 .. 5 : h = Len(Program(job'[r].op)) - 3
      BY <3>4
    <3>6. pc'[r] \in Nat /\ pc'[r] <= h
      BY <3>3
    <3>7. UpToDate(r, n)'
      BY <3>1, <3>5, <3>6, NotReadYet
    <3> QED
      BY <1>1, <3>7
  <2> QED
    BY <2>2, <2>3
<1> QED
  BY <1>2, <1>3

(* Only a handler that is concerned with a live note has sent a task for   *)
(* it, and it is not the one that deletes it.                              *)
LEMMA Sender ==
    ASSUME IndInv, TaskOwned, Sent, NEW n \in Ids, status[n] = "live",
           NEW r \in Reqs, task[r].state # "none", task[r].note = n
    PROVE  Concerned(r, n) /\ job[r].op \in WriteFirst \cup FormatFirst
<1> USE DEF IndInv
<1> DEFINE op == job[r].op
           P == Program(op)
<1>1. op \in AllOps /\ op # "none"
  BY DEF TaskOwned, Types
<1>2. Done(r, "send") /\ Root(r) = n
  BY <1>1 DEF Sent
<1>3. PICK k \in DOMAIN P : k < pc[r] /\ P[k] = "send"
  BY <1>2 DEF Done
<1>4. DOMAIN P = 1 .. Len(P) /\ Len(P) \in Nat /\ pc[r] \in Nat
  <2>1. Len(P) \in 4 .. 8 /\ DOMAIN P = 1 .. Len(P)
    BY <1>1, ProgramFacts
  <2> HIDE DEF P
  <2> QED
    BY <2>1, PcType
<1>5. pc[r] >= 2
  BY <1>3, <1>4
<1>6. op # "note_delete"
  <2>1. SUFFICES ASSUME op = "note_delete" PROVE FALSE
    OBVIOUS
  <2>2. PICK j \in 1 .. k - 1 : P[j] = "delete"
    BY <1>1, <1>3, <2>1, ProgramFacts
  <2>3. j \in 1 .. pc[r] - 1 /\ j \in DOMAIN P
    BY <1>3, <1>4, <2>2
  <2>4. status[job[r].target] = "gone"
    BY <1>1, <2>2, <2>3 DEF Deletes
  <2>5. job[r].target \in Known("notes")
    BY <2>1, TargetKnown DEF TargetTable
  <2>6. job[r].target = n
    BY <1>2, <2>1, <2>5 DEF Root, NoteOf, Known
  <2> QED
    BY <2>4, <2>6
<1> QED
  BY <1>1, <1>2, <1>5, <1>6 DEF Concerned, AllOps, WriteFirst, FormatFirst

(* The text of a note whose rows nobody changes stays the same.            *)
LEMMA SameText ==
    ASSUME IndInv, [Next]_vars, NEW n \in Ids, IsNote(n),
           \A q \in Reqs : Insert(q) \/ Update(q) \/ Delete(q) => Root(q) # n
    PROVE  Quote(Cascade(n))' = Quote(Cascade(n))
<1>1. PICK S \in SUBSET Cascade(n) : S = Cascade(n)
  OBVIOUS
<1>2. Cascade(n)' = Cascade(n) /\ Quote(S)' = Quote(S)
  BY TreeStays
<1>3. Quote(Cascade(n))' = Quote(S)'
  BY <1>1, <1>2 DEF Quote
<1> QED
  BY <1>1, <1>2, <1>3

LEMMA SendsLastInvariant ==
    ASSUME IndInv, TaskOwned, SendsLast, [Next]_vars
    PROVE  SendsLast'
<1> USE DEF IndInv
<1>1. SUFFICES ASSUME NEW r \in Reqs, job'[r].op \in WriteFirst, task'[r].state # "none"
               PROVE  answer'[r] = "ok"
  BY DEF SendsLast
<1>2. CASE Send(r)
  <2>1. At(r, {"send"}) /\ job' = job /\ Advance(r)
    BY <1>2 DEF Send
  <2>2. job[r].op \in WriteFirst /\ pc[r] \in DOMAIN Program(job[r].op)
        /\ Program(job[r].op)[pc[r]] = "send"
    BY <1>1, <2>1, Handler
  <2>3. pc[r] = Len(Program(job[r].op))
    BY <2>2, WriteFirstFacts
  <2> QED
    BY <2>1, <2>3 DEF Advance, Types
<1>3. CASE ~ Send(r)
  <2>1. task[r].state # "none"
    BY <1>1, <1>3, TaskTextKept
  <2>2. job'[r] = job[r]
    BY <2>1, JobsKept DEF TaskOwned
  <2>3. answer[r] = "ok"
    BY <1>1, <2>1, <2>2 DEF SendsLast
  <2> QED
    BY <2>3, AnswerKept
<1> QED
  BY <1>2, <1>3

(* What has ended is over for good.                                        *)
LEMMA OverInvariant ==
    ASSUME IndInv, Over, [Next]_vars
    PROVE  Over'
<1> USE DEF IndInv
<1>1. ASSUME NEW q \in Reqs, answer[q] # "none", task[q].state # "pending"
      PROVE  answer'[q] # "none" /\ task'[q].state # "pending"
  <2>1. ~ Send(q)
    BY <1>1 DEF Send, At, Running
  <2> QED
    BY <1>1, <2>1, AnswerKept, TaskMoves
<1>2. SUFFICES ASSUME NEW r \in Reqs, NEW q \in job'[r].ended
               PROVE  q \in Reqs /\ answer'[q] # "none" /\ task'[q].state # "pending"
  BY DEF Over
<1>3. CASE job'[r] = job[r]
  BY <1>1, <1>2, <1>3 DEF Over
<1>4. CASE Receive(r)
  <2>1. job'[r].ended = Ended
    BY <1>4 DEF Receive, Types
  <2> QED
    BY <1>1, <1>2, <2>1 DEF Ended
<1>5. ASSUME NEW t \in Reqs, Receive(t), t # r
      PROVE  job'[r] = job[r]
  BY <1>5 DEF Receive, Types
<1> QED
  BY <1>3, <1>4, <1>5, JobsFrame

(* A request that touches a note goes on doing so.                         *)
LEMMA TouchesKept ==
    ASSUME IndInv, [Next]_vars, NEW r \in Reqs, NEW n, Touches(r, n)
    PROVE  Touches(r, n)' /\ job'[r] = job[r]
<1>1. job[r].op # "none" /\ Root(r) = n /\ (job[r].op = "note_post" \/ pc[r] > 1)
  BY DEF Touches
<1>2. Root(r)' = n /\ job'[r] = job[r] /\ pc[r] \in Nat /\ pc'[r] \in {pc[r], pc[r] + 1}
  BY <1>1, RootKept, OwnStep DEF IndInv
<1>3. pc[r] > 1 => pc'[r] > 1
  BY <1>2
<1> QED
  BY <1>1, <1>2, <1>3 DEF Touches

(* One that is concerned with it touches it.                               *)
LEMMA ConcernedTouches ==
    ASSUME Types, NEW r \in Reqs, NEW n, Concerned(r, n)
    PROVE  Touches(r, n)
<1>1. pc[r] \in Nat
  BY PcType
<1> QED
  BY <1>1 DEF Concerned, Touches

(* Rows are changed by requests that touch their note.                     *)
LEMMA ChangerTouches ==
    ASSUME IndInv, NEW q \in Reqs, Insert(q) \/ Update(q) \/ Delete(q)
    PROVE  Touches(q, Root(q)) /\ Running(q)
<1> USE DEF IndInv
<1>1. PICK s \in {"insert", "delete"} \cup Columns : At(q, {s})
  BY DEF Insert, Update, Delete, At
<1>2. /\ Running(q) /\ job[q].op \in AllOps /\ job[q].op # "none"
      /\ pc[q] \in DOMAIN Program(job[q].op) /\ Program(job[q].op)[pc[q]] = s
  BY <1>1, Handler
<1>3. job[q].op # "note_post" => pc[q] # 1
  BY <1>1, <1>2, HandlerFacts DEF Columns
<1>4. pc[q] \in Nat /\ pc[q] # 0
  BY <1>2, PcType DEF Running
<1>5. job[q].op # "note_post" => pc[q] > 1
  BY <1>3, <1>4
<1> QED
  BY <1>2, <1>5 DEF Touches

(* A request that is alone with a note was so before, if it touched it.   *)
LEMMA AloneBefore ==
    ASSUME IndInv, [Next]_vars, NEW r \in Reqs, NEW n, Alone(r, n)', Touches(r, n)
    PROVE  Alone(r, n) /\ job'[r] = job[r] /\ answer'[r] # "500"
<1> USE DEF IndInv
<1>1. job'[r] = job[r]
  BY TouchesKept
<1>2. answer'[r] # "500" /\ answer[r] # "500"
  BY AnswerKept DEF Alone
<1>3. ASSUME NEW q \in Reqs \ {r}, Touches(q, n)
      PROVE  q \in job[r].ended
  BY <1>1, <1>3, TouchesKept DEF Alone
<1> QED
  BY <1>1, <1>2, <1>3 DEF Alone

(* When it gets past the look-up it has not read anything yet, and no task *)
(* of its own can have been delivered.                                     *)
LEMMA AloneBegins ==
    ASSUME IndInv, TaskOwned, Sent, [Next]_vars, NEW r \in Reqs, NEW n \in Ids,
           IsNote(n)', Alone(r, n)', ~ Touches(r, n)
    PROVE  UpToDate(r, n)' /\ task'[r].state # "delivered"
<1> USE DEF IndInv
<1>1. job'[r].op # "none" /\ Root(r)' = n /\ job'[r].op \in WriteFirst
      /\ (job'[r].op = "note_post" \/ pc'[r] > 1)
  BY DEF Alone, Touches
<1>2. job[r].op # "none" => job'[r] = job[r] /\ Root(r) = n
  BY <1>1, JobsKept, RootKept
<1>3. task'[r].state # "delivered"
  <2>1. SUFFICES ASSUME task'[r].state = "delivered" PROVE FALSE
    OBVIOUS
  <2>2. ~ Send(r)
    BY <2>1 DEF Send, Types
  <2>3. task[r].state # "none"
    BY <2>1, <2>2, TaskMoves
  <2>4. job[r].op # "none" /\ Done(r, "send")
    BY <2>3 DEF TaskOwned, Sent
  <2>5. job[r].op \in AllOps /\ DOMAIN Program(job[r].op) = 1 .. Len(Program(job[r].op))
        /\ Len(Program(job[r].op)) \in 4 .. 8
    <3>1. job[r].op \in AllOps
      BY <2>4 DEF Types
    <3> QED
      BY <3>1, ProgramFacts
  <2>6. \E k \in DOMAIN Program(job[r].op) : k < pc[r]
    BY <2>4 DEF Done
  <2>7. pc[r] > 1
    <3> HIDE DEF IndInv
    <3> DEFINE L == Len(Program(job[r].op))
    <3>1. pc[r] \in Nat
      BY PcType DEF IndInv
    <3>2. \E k \in 1 .. L : k < pc[r]
      BY <2>5, <2>6
    <3> HIDE DEF L
    <3> QED
      BY <3>1, <3>2
  <2> QED
    BY <1>2, <2>4, <2>7 DEF Touches
<1>4. UpToDate(r, n)'
  <2>1. CASE job'[r].op = "note_post"
    <3>1. n = r
      BY <1>1, <2>1 DEF Root
    <3>2. job[r].op = "none"
      BY <1>2, <2>1 DEF Touches
    <3>3. Receive(r)
      BY <1>1, <3>2, JobsFrame DEF Receive, Types
    <3>4. status'[n] = "free"
      <4>1. status' = status /\ pc[r] = 0
        BY <3>3 DEF Receive, dbVars
      <4>2. ~ (status[r] # "free")
        BY <3>2 DEF NotInsertedYet, Inserting
      <4>3. n \in Ids
        OBVIOUS
      <4> QED
        BY <3>1, <4>1, <4>2
    <3> QED
      BY <3>4 DEF IsNote, Live
  <2>2. CASE job'[r].op # "note_post"
    <3>1. Concerned(r, n)'
      <4>1. pc'[r] \in Nat
        BY AtStepInvariant
      <4> QED
        BY <1>1, <2>2, <4>1 DEF Concerned
    <3>2. ~ Concerned(r, n)
      BY ConcernedTouches
    <3>3. pc'[r] = 2
      BY <3>1, <3>2, FirstStep
    <3>4. Len(Program(job'[r].op)) - 3 \in 2 .. 5
      BY <1>1, LastFour
    <3>5. PICK h \in 2 .. 5 : h = Len(Program(job'[r].op)) - 3
      BY <3>4
    <3>6. pc'[r] \in Nat /\ pc'[r] <= h
      BY <3>3
    <3> QED
      BY <1>1, <3>5, <3>6, NotReadYet
  <2> QED
    BY <2>1, <2>2
<1> QED
  BY <1>3, <1>4

LEMMA AloneIsFreshInvariant ==
    ASSUME IndInv, TaskOwned, OwnNote, Sent, Over, AloneIsFresh, [Next]_vars
    PROVE  AloneIsFresh'
<1> USE DEF IndInv
<1>1. SUFFICES ASSUME NEW r \in Reqs, NEW n \in Ids, IsNote(n)', Alone(r, n)'
               PROVE  /\ UpToDate(r, n)'
                      /\ task'[r].state = "delivered" => index'[n] = Quote(Cascade(n))'
  BY DEF AloneIsFresh
<1>2. CASE ~ Touches(r, n)
  BY <1>1, <1>2, AloneBegins
<1>3. CASE Touches(r, n)
  <2>1. /\ Alone(r, n) /\ job'[r] = job[r] /\ answer'[r] # "500"
        /\ job[r].op \in WriteFirst /\ job[r].op # "none" /\ Root(r) = n
    BY <1>1, <1>3, AloneBefore DEF Alone, Touches
  <2>2. ASSUME NEW q \in Reqs, q # r, Touches(q, n)
        PROVE  answer[q] # "none" /\ task[q].state # "pending"
    BY <2>1, <2>2 DEF Alone, Over
  <2>3. ASSUME NEW q \in Reqs, Insert(q) \/ Update(q) \/ Delete(q), Root(q) = n
        PROVE  q = r
    BY <2>2, <2>3, ChangerTouches DEF Running
  <2>4. CASE Insert(r) \/ Update(r) \/ Delete(r)
    <3>1. UpToDate(r, n)'
      BY <1>1, <2>1, <2>4, ChangedByWriter DEF WriteFirst, FormatFirst
    <3>2. task'[r].state # "delivered"
      <4>1. PICK s \in {"insert", "delete"} \cup Columns : At(r, {s})
        BY <2>4 DEF Insert, Update, Delete, At
      <4>2. pc[r] \in DOMAIN Program(job[r].op) /\ pc[r] \in Nat
        BY <4>1, Handler, PcType
      <4>3. ~ Done(r, "send")
        <5> DEFINE P == Program(job[r].op)
                   h == Len(P) - 3
        <5>1. (\E k \in DOMAIN P : k < pc[r] /\ P[k] = "send") <=> pc[r] > h + 3
          BY <2>1, <4>2, Stage
        <5>2. h \in 2 .. 5 /\ DOMAIN P = 1 .. h + 3
          BY <2>1, LastFour
        <5> HIDE DEF h, P
        <5>3. pc[r] \in 1 .. h + 3
          BY <4>2, <5>2 DEF P
        <5>4. ~ (pc[r] > h + 3)
          BY <5>2, <5>3
        <5> QED
          BY <5>1, <5>4 DEF Done, P
      <4>4. task[r].state = "none"
        BY <2>1, <4>3 DEF Sent
      <4>5. task' = task
        BY <2>4 DEF Insert, Update, Delete, syncVars
      <4> QED
        BY <4>4, <4>5
    <3> QED
      BY <3>1, <3>2
  <2>5. CASE ~ (Insert(r) \/ Update(r) \/ Delete(r))
    <3>1. \A q \in Reqs : Insert(q) \/ Update(q) \/ Delete(q) => Root(q) # n
      BY <2>3, <2>5
    <3>2. IsNote(n)
      BY <1>1, <3>1, NoteWasThere
    <3>3. UpToDate(r, n) /\ (task[r].state = "delivered" => index[n] = Quote(Cascade(n)))
      BY <2>1, <3>2 DEF AloneIsFresh
    <3>4. UpToDate(r, n)'
      BY <2>1, <3>1, <3>2, <3>3, TreeStays, UpToDateKept
    <3>5. Quote(Cascade(n))' = Quote(Cascade(n))
      BY <3>1, <3>2, SameText
    <3>6. CASE Deliver(r)
      <4>1. task[r].state = "pending" /\ index' = [index EXCEPT ![task[r].note] = task[r].text]
        BY <3>6 DEF Deliver
      <4>2. Done(r, "send") /\ task[r].note = n
        BY <2>1, <4>1 DEF Sent
      <4>3. index'[n] = task[r].text
        BY <4>1, <4>2 DEF Types
      <4> QED
        BY <3>3, <3>4, <3>5, <4>2, <4>3 DEF UpToDate
    <3>7. CASE ~ Deliver(r)
      <4>1. ASSUME NEW q \in Reqs, Deliver(q)
            PROVE  index'[n] = index[n]
        <5>1. task[q].note # n
          <6>1. SUFFICES ASSUME task[q].note = n PROVE FALSE
            OBVIOUS
          <6>2. task[q].state = "pending" /\ status[n] = "live" /\ q # r
            BY <3>2, <3>7, <4>1 DEF Deliver, IsNote, Live
          <6>3. Touches(q, n)
            BY <6>1, <6>2, Sender, ConcernedTouches
          <6> QED
            BY <2>2, <6>2, <6>3
        <5> QED
          BY <4>1, <5>1 DEF Deliver, Types
      <4>2. index'[n] = index[n]
        BY <4>1, IndexFrame
      <4>3. task'[r].state = "delivered" => task[r].state = "delivered"
        <5>1. Send(r) => task'[r].state = "pending"
          BY DEF Send, Types
        <5> QED
          BY <3>7, <5>1, TaskMoves
      <4> QED
        BY <3>3, <3>4, <3>5, <4>2, <4>3
    <3> QED
      BY <3>6, <3>7
  <2> QED
    BY <2>4, <2>5
<1> QED
  BY <1>2, <1>3

LEMMA UntouchedInvariant ==
    ASSUME IndInv, TaskOwned, Sent, Untouched, [Next]_vars
    PROVE  Untouched'
<1> USE DEF IndInv
<1>1. SUFFICES ASSUME NEW n \in Ids, IsNote(n)', \A r \in Reqs : ~ Touches(r, n)'
               PROVE  index'[n] = Quote(Cascade(n))'
  BY DEF Untouched
<1>2. \A r \in Reqs : ~ Touches(r, n)
  BY <1>1, TouchesKept
<1>3. \A q \in Reqs : Insert(q) \/ Update(q) \/ Delete(q) => Root(q) # n
  BY <1>2, ChangerTouches
<1>4. IsNote(n)
  BY <1>1, <1>3, NoteWasThere
<1>5. index[n] = Quote(Cascade(n)) /\ Quote(Cascade(n))' = Quote(Cascade(n))
  BY <1>2, <1>3, <1>4, SameText DEF Untouched
<1>6. ASSUME NEW q \in Reqs, Deliver(q)
      PROVE  index'[n] = index[n]
  <2>1. task[q].note # n
    <3>1. SUFFICES ASSUME task[q].note = n PROVE FALSE
      OBVIOUS
    <3>2. task[q].state # "none" /\ status[n] = "live"
      BY <1>4, <1>6 DEF Deliver, IsNote, Live
    <3>3. Touches(q, n)
      BY <3>1, <3>2, Sender, ConcernedTouches
    <3> QED
      BY <1>2, <3>3
  <2> QED
    BY <1>6, <2>1 DEF Deliver, Types
<1> QED
  BY <1>5, <1>6, IndexFrame

-----------------------------------------------------------------------------
(* The invariant holds.                                                    *)

LEMMA UnsentInvariant ==
    ASSUME IndInv, Unsent, [Next]_vars
    PROVE  Unsent'
<1> USE DEF IndInv
<1>1. SUFFICES ASSUME NEW r \in Reqs
               PROVE  /\ pc'[r] = 0 => answer'[r] = "none"
                      /\ task'[r].state = "none" => task'[r].note = None
  BY DEF Unsent
<1>2. /\ pc[r] = 0 => answer[r] = "none"
      /\ task[r].state = "none" => task[r].note = None
  BY DEF Unsent
<1>3. pc'[r] = 0 => answer'[r] = "none"
  <2>1. SUFFICES ASSUME pc'[r] = 0 PROVE answer'[r] = "none"
    OBVIOUS
  <2>2. pc[r] = 0 /\ ~ Running(r)
    <3>1. pc[r] # 0 => job[r].op # "none"
      BY DEF AtStep
    <3>2. pc[r] # 0 => pc'[r] \in {pc[r], pc[r] + 1} /\ pc[r] \in Nat
      BY <3>1, OwnStep
    <3>3. pc[r] # 0 => pc'[r] # 0
      BY <3>2
    <3> QED
      BY <2>1, <3>3 DEF Running
  <2>3. ASSUME NEW q \in Reqs, Serve(q) \/ Throw(q)
        PROVE  answer'[r] = answer[r]
    <3>1. Running(q) /\ (\/ Advance(q) \/ \E code \in Codes : Answer(q, code)
                         \/ UNCHANGED <<pc, answer>>)
      BY <2>3, ServeMoves
    <3>2. q # r
      BY <2>2, <3>1
    <3> QED
      BY <3>1, <3>2 DEF Advance, Answer, Types
  <2>4. ASSUME NEW q \in Reqs, Receive(q) \/ RunTask(q)
        PROVE  answer' = answer
    BY <2>4 DEF Receive, RunTask, Deliver, CallFails
  <2>5. CASE Restart
    BY <1>2, <2>2, <2>5 DEF Restart
  <2>6. CASE UNCHANGED vars
    BY <1>2, <2>2, <2>6 DEF vars
  <2> QED
    BY <1>2, <2>2, <2>3, <2>4, <2>5, <2>6 DEF Next, Rest
<1>4. task'[r].state = "none" => task'[r].note = None
  <2>1. Send(r) => task'[r].state = "pending"
    BY DEF Send, Types
  <2> QED
    BY <1>2, <2>1, TaskMoves
<1> QED
  BY <1>3, <1>4

LEMMA InitFreshInv == Init => FreshInv
<1> SUFFICES ASSUME Init PROVE FreshInv
  OBVIOUS
<1>1. \A r \in Reqs : /\ job[r].op = "none" /\ answer[r] = "none"
                      /\ task[r].state = "none" /\ task[r].note = None
  BY DEF Init, NoJob, NoTask
<1>2. NotFoundAtStart /\ Unsent /\ OwnNote /\ Sent
  BY <1>1 DEF NotFoundAtStart, Unsent, OwnNote, Sent
<1>3. SendsLast /\ Over /\ AloneIsFresh
  <2>1. \A r \in Reqs : job[r].ended = {}
    BY DEF Init, NoJob
  <2> QED
    BY <1>1, <2>1 DEF SendsLast, Over, AloneIsFresh, Alone, Touches
<1>4. FreshWitness
  BY <1>1 DEF FreshWitness, Writers, Concerned
<1>5. Untouched
  <2>1. SUFFICES ASSUME NEW n \in Ids, IsNote(n)
                 PROVE  index[n] = Quote(Cascade(n))
    BY DEF Untouched
  <2>2. n \in Stored /\ StoredTable[n] = "notes"
    BY <2>1 DEF Init, IsNote, Live, TableOf
  <2> QED
    BY <2>2 DEF Init
<1> QED
  BY <1>2, <1>3, <1>4, <1>5, InitTextInv DEF FreshInv

LEMMA NextFreshInv == FreshInv /\ [Next]_vars => FreshInv'
<1> SUFFICES ASSUME FreshInv, [Next]_vars PROVE FreshInv'
  OBVIOUS
<1>1. IndInv /\ TaskOwned
  BY DEF FreshInv, TextInv
<1> QED
  BY <1>1, NextTextInv, NotFoundInvariant, UnsentInvariant, OwnNoteInvariant, SentInvariant,
     SendsLastInvariant, OverInvariant, FreshWitnessInvariant, AloneIsFreshInvariant, UntouchedInvariant DEF FreshInv

(* In every reachable state in which no request has failed, a note that no *)
(* handler has formatted too early has a request that has missed none of   *)
(* its changes; and, whatever has failed, a request that came when all     *)
(* others about its note had ended misses nothing of it.                   *)
THEOREM FreshInductive == Spec => []FreshInv
BY InitFreshInv, NextFreshInv, PTL DEF Spec

-----------------------------------------------------------------------------
(* What it means once the requests are answered.                           *)

(* A request is about a note.                                              *)
LEMMA RootIsNote ==
    ASSUME IndInv, NEW r \in Reqs, job[r].op # "none", job[r].op = "note_post" => status[r] # "free"
    PROVE  Root(r) \in Known("notes")
<1> USE DEF IndInv
<1>1. CASE job[r].op = "note_post"
  <2>1. r \in Ids /\ TableOf(r) = "notes"
    BY <1>1, IdsAssumption DEF TableOf, InsertTable, Ids
  <2> QED
    BY <1>1, <2>1 DEF Root, Known
<1>2. CASE job[r].op # "note_post"
  <2>1. job[r].target \in Ids /\ status[job[r].target] # "free"
    BY <1>2, TargetKnown
  <2>2. ASSUME NEW t \in Ids, status[t] # "free"
        PROVE  NoteOf(t) \in Known("notes")
    <3>1. CASE TableOf(t) = "notes"
      BY <2>2, <3>1 DEF NoteOf, Known
    <3>2. CASE TableOf(t) = "checklists" /\ parent[t] \in Known("notes")
      BY <3>2 DEF NoteOf
    <3>3. CASE TableOf(t) = "checklist_items" /\ parent[t] \in Known("checklists")
      <4>1. parent[parent[t]] \in Known("notes")
        <5>1. /\ parent[t] \in Ids /\ status[parent[t]] # "free"
              /\ TableOf(parent[t]) = "checklists"
          BY <3>3 DEF Known
        <5> QED
          BY <5>1 DEF Trees
      <4> QED
        BY <3>3, <4>1 DEF NoteOf
    <3> QED
      BY <2>2, <3>1, <3>2, <3>3 DEF Trees
  <2> QED
    BY <1>2, <2>1, <2>2 DEF Root
<1> QED
  BY <1>1, <1>2

(* A handler that has answered 200 or 201 has left its task.               *)
LEMMA OkHasSent ==
    ASSUME FreshInv, NEW r \in Reqs, answer[r] = "ok"
    PROVE  /\ job[r].op \in AllOps /\ Done(r, "send")
           /\ task[r].state # "none" /\ task[r].note = Root(r)
<1> USE DEF FreshInv, TextInv, IndInv
<1>1. job[r].op \in AllOps /\ job[r].op # "none"
  BY AllDone DEF AllOps
<1>2. Done(r, "send")
  BY <1>1, AllDone, HandlerFacts
<1> QED
  BY <1>1, <1>2 DEF Sent

(* A request that is concerned with a note is past its 404.                *)
LEMMA ConcernedIsOk ==
    ASSUME FreshInv, NoFault, NEW r \in Reqs, NEW n, Concerned(r, n), answer[r] # "none"
    PROVE  Done(r, "send") /\ task[r].state # "none" /\ task[r].note = n
<1> USE DEF FreshInv, TextInv, IndInv
<1>1. pc[r] >= 2 /\ Root(r) = n
  BY DEF Concerned
<1>2. answer[r] # "404"
  BY <1>1 DEF NotFoundAtStart
<1>3. answer[r] = "ok"
  BY <1>2 DEF NoFault, Types, Codes
<1> QED
  BY <1>1, <1>3, OkHasSent

(* If all that were changed before they were read, and all were answered,  *)
(* the task of the one that has missed nothing has the text of the note.   *)
LEMMA WitnessSent ==
    ASSUME FreshInv, NoFault, NEW n \in Ids, IsNote(n), ~ FormatsFirst(n), Writers(n) # {},
           \A r \in Reqs : job[r].op # "none" => answer[r] # "none"
    PROVE  \E r \in Reqs : /\ task[r].state # "none" /\ task[r].note = n
                           /\ task[r].text = Quote(Cascade(n))
<1>1. PICK r \in Writers(n) : UpToDate(r, n)
  BY DEF FreshInv, FreshWitness
<1>2. r \in Reqs /\ Concerned(r, n) /\ answer[r] # "none"
  BY DEF Writers, Concerned
<1>3. Done(r, "send") /\ task[r].state # "none" /\ task[r].note = n
  BY <1>2, ConcernedIsOk
<1> QED
  BY <1>1, <1>2, <1>3 DEF UpToDate

LEMMA SomeTextIsFresh == FreshInv => FreshIfWrittenFirst
<1>1. SUFFICES ASSUME FreshInv,
                      \A r \in Reqs : job[r].op \in WriteFirst \cup {"note_delete", "none"},
                      \A r \in Reqs : pc[r] = 0 \/ answer[r] \in {"ok", "404"},
                      NEW s \in Reqs, Live(task[s].note)
               PROVE  \E r \in Reqs : /\ task[r].note = task[s].note
                                      /\ task[r].text = Quote(Cascade(task[s].note))
  BY DEF FreshIfWrittenFirst, FreshTextSent
<1> IndInv /\ Types /\ AtStep /\ TaskOwned /\ Unsent /\ Sent
  BY <1>1 DEF FreshInv, TextInv, IndInv
<1>2. NoFault
  BY <1>1 DEF NoFault, Unsent
<1>3. PICK n \in Ids : n = task[s].note
  BY <1>1 DEF Live, Types
<1>4. task[s].state # "none" /\ status[n] = "live" /\ task[s].note = n
  BY <1>1, <1>3 DEF Live, Unsent
<1>5. Concerned(s, n) /\ job[s].op \in WriteFirst \cup FormatFirst
  BY <1>4, Sender
<1>6. ~ FormatsFirst(n)
  BY <1>1 DEF FormatsFirst, FormatFirst, WriteFirst
<1>7. s \in Writers(n)
  BY <1>5, <1>6 DEF Writers, FormatsFirst
<1>8. IsNote(n)
  <2>1. Root(s) = n /\ job[s].op # "none"
    BY <1>5 DEF Concerned
  <2>2. job[s].op = "note_post" => Root(s) = s
    BY DEF Root
  <2>3. n \in Known("notes")
    BY <1>4, <2>1, <2>2, RootIsNote
  <2> QED
    BY <1>1, <1>3, <2>3 DEF IsNote, Known
<1>9. \A r \in Reqs : job[r].op # "none" => answer[r] # "none"
  BY <1>1 DEF AtStep
<1>10. \E r \in Reqs : /\ task[r].state # "none" /\ task[r].note = n
                       /\ task[r].text = Quote(Cascade(n))
  BY <1>1, <1>2, <1>6, <1>7, <1>8, <1>9, WitnessSent
<1> QED
  BY <1>3, <1>10

LEMMA StaleIsExcused == FreshInv => StaleHasCause
<1>1. SUFFICES ASSUME FreshInv, NEW n \in Ids, IsNote(n), ~ Excused(n)
               PROVE  index[n] = Quote(Cascade(n))
  BY DEF StaleHasCause, IsNote
<1>2. CASE \A r \in Reqs : ~ Touches(r, n)
  BY <1>1, <1>2 DEF FreshInv, Untouched
<1>3. CASE \E r \in Reqs : LastWord(r, n)
  <2>1. PICK r \in Reqs : LastWord(r, n)
    BY <1>3
  <2>2. answer[r] # "500"
    BY <1>1, <2>1 DEF LastWord, FreshInv, SendsLast
  <2>3. Alone(r, n)
    BY <2>1, <2>2 DEF LastWord, Alone
  <2> QED
    BY <1>1, <2>1, <2>3 DEF LastWord, FreshInv, AloneIsFresh
<1> QED
  BY <1>1, <1>2, <1>3 DEF Excused

(* When all requests are answered and none failed, and none was of a       *)
(* handler that formats the note before it changes it, the text that       *)
(* agrees with the database is among those sent for each note: whichever   *)
(* way the statements of the handlers interleave, the last to change the   *)
(* note has read all of it afterwards (note.cpp, checklist.cpp).           *)
THEOREM FreshTextIsSent == Spec => []FreshIfWrittenFirst
<1>1. FreshInv => FreshIfWrittenFirst
  BY SomeTextIsFresh
<1> QED
  BY <1>1, FreshInductive, PTL

(* At any time, the AI service has the text that the database has of a    *)
(* live note that no request has touched, or that a request touched when   *)
(* all others about it had ended, however they did, and whose handler      *)
(* writes before it reads and whose call got through (Detach() in the      *)
(* nine handlers).                                                         *)
THEOREM StaleIsCaused == Spec => []StaleHasCause
<1>1. FreshInv => StaleHasCause
  BY StaleIsExcused
<1> QED
  BY <1>1, FreshInductive, PTL

-----------------------------------------------------------------------------
(* Nothing but the rows of a note is told of it.                           *)

(* The rows of T are of note n, with contents that they have, or had.     *)
OfNote(n, T) ==
    \A q \in T : /\ q.row \in Ids /\ status[q.row] # "free" /\ NoteOf(q.row) = n
                 /\ q.holds \subseteq writes[q.row]

(* A handler reads its own note, and what it reads of it next is there.   *)
OwnReading ==
    \A r \in Reqs :
        IF job[r].op = "none"
        THEN text[r] = {} /\ todo[r] = {}
        ELSE /\ OfNote(Root(r), text[r])
             /\ \A c \in todo[r] : c \in Ids /\ status[c] # "free" /\ NoteOf(c) = Root(r)

(* So are the texts that wait for the AI service, and that it has.         *)
OwnTexts ==
    /\ \A r \in Reqs : OfNote(task[r].note, task[r].text)
    /\ \A n \in Ids : OfNote(n, index[n])

RowsInv == FreshInv /\ OwnReading /\ OwnTexts

(* What is of a note stays of it.                                          *)
LEMMA OfNoteKept ==
    ASSUME IndInv, [Next]_vars, NEW n, NEW T, OfNote(n, T)
    PROVE  OfNote(n, T)'
<1> USE DEF IndInv
<1> SUFFICES ASSUME NEW q \in T
             PROVE  /\ q.row \in Ids /\ status'[q.row] # "free" /\ NoteOf(q.row)' = n
                    /\ q.holds \subseteq writes'[q.row]
  BY DEF OfNote
<1>1. /\ q.row \in Ids /\ status[q.row] # "free" /\ NoteOf(q.row) = n
      /\ q.holds \subseteq writes[q.row]
  BY DEF OfNote
<1>2. PICK x \in Ids : x = q.row
  BY <1>1
<1>3. status'[x] # "free" /\ NoteOf(x)' = NoteOf(x) /\ writes[x] \subseteq writes'[x]
  BY <1>1, <1>2, RowsKept, NoteOfKept, WritesGrow
<1> QED
  BY <1>1, <1>2, <1>3

LEMMA QuoteIsOfNote ==
    ASSUME NEW n, NEW S, \A x \in S : x \in Ids /\ status[x] # "free" /\ NoteOf(x) = n
    PROVE  OfNote(n, Quote(S))
BY DEF OfNote, Quote

LEMMA OfNoteUnion ==
    ASSUME NEW n, NEW A, NEW B, OfNote(n, A), OfNote(n, B)
    PROVE  OfNote(n, A \cup B)
BY DEF OfNote

LEMMA ChildrenOfNote ==
    ASSUME Types, Trees, NEW x \in Ids, status[x] # "free", NEW y \in Children(x)
    PROVE  y \in Ids /\ status[y] # "free" /\ NoteOf(y) = NoteOf(x)
<1>1. y \in Ids /\ status[y] = "live" /\ parent[y] = x /\ x # None
  BY IdsAssumption DEF Children
<1> QED
  BY <1>1, NoteOfParent

(* When it reads, the note of a handler has been inserted.                 *)
LEMMA RootThere ==
    ASSUME IndInv, Written, OwnNote, NEW r \in Reqs, NEW s \in Reading, At(r, {s})
    PROVE  /\ note[r] = Root(r) /\ Root(r) \in Ids /\ status[Root(r)] # "free"
           /\ NoteOf(Root(r)) = Root(r)
<1> USE DEF IndInv
<1>1. /\ job[r].op \in AllOps /\ job[r].op # "none"
      /\ pc[r] \in DOMAIN Program(job[r].op) /\ Program(job[r].op)[pc[r]] = s
      /\ \A q : (\E j \in DOMAIN Program(job[r].op) :
                     j < pc[r] /\ Program(job[r].op)[j] = q) => Done(r, q)
  BY Handler
<1>2. note[r] = Root(r)
  BY NoteAt
<1>3. job[r].op = "note_post" => status[r] # "free"
  <2>1. SUFFICES ASSUME job[r].op = "note_post" PROVE status[r] # "free"
    OBVIOUS
  <2>2. \E j \in DOMAIN Program(job[r].op) : j < pc[r] /\ Program(job[r].op)[j] = "insert"
    <3>1. job[r].op \notin NoteKnownAtStart
      BY <2>1 DEF NoteKnownAtStart
    <3>2. \A k \in DOMAIN Program(job[r].op) : Program(job[r].op)[k] # "noteid"
      BY <2>1 DEF Program, NotePost
    <3> QED
      BY <1>1, <3>1, <3>2, HandlerFacts
  <2> QED
    BY <1>1, <2>2 DEF Written
<1>4. Root(r) \in Known("notes")
  BY <1>1, <1>3, RootIsNote
<1> QED
  BY <1>2, <1>4 DEF Known, NoteOf

(* What FormatNote has read changes only by its own queries.              *)
LEMMA TextFrame ==
    ASSUME Types, AtStep, [Next]_vars, NEW r \in Reqs, ~ Serve(r)
    PROVE  text'[r] = text[r] /\ todo'[r] = todo[r]
<1> USE DEF dbVars, textVars, syncVars
<1> DEFINE Same == text'[r] = text[r] /\ todo'[r] = todo[r]
<1>1. ASSUME NEW q \in Reqs, Serve(q)
      PROVE  Same
  <2>1. q # r
    BY <1>1
  <2>2. CASE ReadHead(q) \/ ReadLists(q) \/ ReadItems(q) \/ Send(q)
    BY <2>1, <2>2 DEF ReadHead, ReadLists, ReadItems, Send, Types
  <2>3. CASE ~ (ReadHead(q) \/ ReadLists(q) \/ ReadItems(q) \/ Send(q))
    BY <1>1, <2>3 DEF Serve, Find, ListFiles, GetNoteId, Insert, Update, Delete
  <2> QED
    BY <2>2, <2>3
<1>2. ASSUME NEW q \in Reqs, Receive(q) \/ Throw(q) \/ RunTask(q)
      PROVE  Same
  BY <1>2 DEF Receive, Throw, RunTask, Deliver, CallFails
<1>3. Restart \/ UNCHANGED vars => Same
  BY DEF Restart, vars
<1> QED
  BY <1>1, <1>2, <1>3 DEF Next, Rest

LEMMA OwnReadingInvariant ==
    ASSUME IndInv, Written, OwnNote, OwnReading, [Next]_vars
    PROVE  OwnReading'
<1> USE DEF IndInv
<1> DEFINE There(n, S) == \A c \in S : c \in Ids /\ status[c] # "free" /\ NoteOf(c) = n
<1>1. SUFFICES ASSUME NEW r \in Reqs
               PROVE  IF job'[r].op = "none"
                      THEN text'[r] = {} /\ todo'[r] = {}
                      ELSE OfNote(Root(r), text[r])' /\ There(Root(r), todo[r])'
  BY DEF OwnReading
<1>2. ASSUME NEW n, NEW S, There(n, S)
      PROVE  There(n, S)'
  BY <1>2, RowsKept, NoteOfKept
<1> HIDE DEF There
<1>3. ASSUME NEW n, NEW T, NEW S, OfNote(n, T), There(n, S), Root(r)' = n,
             text'[r] = T, todo'[r] = S
      PROVE  OfNote(Root(r), text[r])' /\ There(Root(r), todo[r])'
  <2>1. OfNote(n, T)' /\ There(n, S)'
    BY <1>2, <1>3, OfNoteKept
  <2> QED
    BY <1>3, <2>1 DEF OfNote, There
<1>4. CASE job[r].op = "none"
  <2>1. text[r] = {} /\ todo[r] = {} /\ ~ Serve(r)
    BY <1>4, ServeMoves DEF OwnReading, AtStep, Running
  <2>2. text'[r] = {} /\ todo'[r] = {}
    BY <2>1, TextFrame
  <2> QED
    BY <2>2 DEF OfNote, There
<1>5. CASE job[r].op # "none"
  <2> DEFINE n == Root(r)
  <2>1. Root(r)' = n /\ job'[r] = job[r]
    BY <1>5, RootKept, OwnStep
  <2>2. OfNote(n, text[r]) /\ There(n, todo[r])
    BY <1>5 DEF OwnReading, There
  <2>3. OfNote(n, {}) /\ There(n, {})
    BY DEF OfNote, There
  <2> HIDE DEF n
  <2>4. PICK T, S : /\ text'[r] = T /\ todo'[r] = S
                    /\ OfNote(n, T) /\ There(n, S)
    <3>1. CASE ReadHead(r)
      <4>1. CASE text'[r] = text[r] /\ todo'[r] = todo[r]
        BY <2>2, <4>1
      <4>2. CASE text'[r] = Quote({note[r]}) /\ todo'[r] = todo[r]
        <5>1. note[r] = n /\ There(n, {n})
          BY <3>1, RootThere DEF ReadHead, Reading, There, n
        <5>2. OfNote(n, Quote({n}))
          BY <5>1, QuoteIsOfNote DEF There
        <5> QED
          BY <2>2, <4>2, <5>1, <5>2
      <4> QED
        BY <3>1, <4>1, <4>2 DEF ReadHead, Types
    <3>2. CASE ReadLists(r)
      <4>1. /\ note[r] = n /\ n \in Ids /\ status[n] # "free" /\ NoteOf(n) = n
        BY <3>2, RootThere DEF ReadLists, Reading, n
      <4>2. There(n, Children(n))
        BY <4>1, ChildrenOfNote DEF There
      <4>3. OfNote(n, text[r] \cup Quote(Children(n)))
        BY <2>2, <4>2, QuoteIsOfNote, OfNoteUnion DEF There
      <4>4. text'[r] = text[r] \cup Quote(Children(n)) /\ todo'[r] = Children(n)
        BY <3>2, <4>1 DEF ReadLists, Types
      <4> QED
        BY <4>2, <4>3, <4>4
    <3>3. CASE ReadItems(r)
      <4>1. CASE UNCHANGED textVars
        BY <2>2, <4>1 DEF textVars
      <4>2. ASSUME NEW c \in todo[r],
                   text' = [text EXCEPT ![r] = @ \cup Quote(Children(c))],
                   todo' = [todo EXCEPT ![r] = Visited(@, c)]
            PROVE  \E T, S : text'[r] = T /\ todo'[r] = S /\ OfNote(n, T) /\ There(n, S)
        <5>1. There(n, Children(c))
          BY <2>2, ChildrenOfNote DEF There
        <5>2. OfNote(n, text[r] \cup Quote(Children(c)))
          BY <2>2, <5>1, QuoteIsOfNote, OfNoteUnion DEF There
        <5>3. There(n, todo[r] \ {c})
          BY <2>2 DEF There
        <5>4. text'[r] = text[r] \cup Quote(Children(c)) /\ todo'[r] = todo[r] \ {c}
          BY <4>2 DEF Types, Visited
        <5> QED
          BY <5>2, <5>3, <5>4
      <4> QED
        BY <3>3, <4>1, <4>2 DEF ReadItems
    <3>4. CASE Send(r)
      <4>1. text'[r] = {} /\ todo'[r] = todo[r]
        BY <3>4 DEF Send, Types
      <4> QED
        BY <2>2, <2>3, <4>1
    <3>5. CASE ~ (ReadHead(r) \/ ReadLists(r) \/ ReadItems(r) \/ Send(r))
      <4>1. text'[r] = text[r] /\ todo'[r] = todo[r]
        BY <3>5, TextFrame DEF Serve, Find, ListFiles, GetNoteId, Insert, Update, Delete, textVars
      <4> QED
        BY <2>2, <4>1
    <3> QED
      BY <3>1, <3>2, <3>3, <3>4, <3>5
  <2>5. OfNote(Root(r), text[r])' /\ There(Root(r), todo[r])'
    BY <1>3, <2>1, <2>4
  <2> QED
    BY <1>5, <2>1, <2>5
<1> QED
  BY <1>4, <1>5

LEMMA OwnTextsInvariant ==
    ASSUME IndInv, TaskOwned, OwnNote, OwnReading, OwnTexts, [Next]_vars
    PROVE  OwnTexts'
<1> USE DEF IndInv
<1>1. ASSUME NEW n, NEW T, OfNote(n, T), NEW m, NEW U, m = n, U = T
      PROVE  OfNote(m, U)'
  BY <1>1, OfNoteKept
<1>2. ASSUME NEW r \in Reqs
      PROVE  OfNote(task[r].note, task[r].text)'
  <2>1. PICK n, T : OfNote(n, T) /\ task'[r].note = n /\ task'[r].text = T
    <3>1. CASE Send(r)
      <4>1. note[r] = Root(r) /\ job[r].op # "none"
        BY <3>1, NoteAt, Handler DEF Send
      <4>2. OfNote(Root(r), text[r])
        BY <4>1 DEF OwnReading
      <4> QED
        BY <3>1, <4>1, <4>2 DEF Send, Types
    <3>2. CASE ~ Send(r)
      BY <3>2, TaskMoves DEF OwnTexts
    <3> QED
      BY <3>1, <3>2
  <2>2. OfNote(n, T)'
    BY <2>1, OfNoteKept
  <2> QED
    BY <2>1, <2>2 DEF OfNote
<1>3. ASSUME NEW n \in Ids
      PROVE  OfNote(n, index[n])'
  <2>1. PICK T : OfNote(n, T) /\ index'[n] = T
    <3>1. CASE index' = index
      BY <3>1 DEF OwnTexts
    <3>2. ASSUME NEW r \in Reqs, Deliver(r)
          PROVE  \E T : OfNote(n, T) /\ index'[n] = T
      BY <3>2 DEF Deliver, OwnTexts, Types
    <3> QED
      BY <3>1, <3>2, IndexFrame
  <2>2. OfNote(n, T)'
    BY <2>1, OfNoteKept
  <2> QED
    BY <2>1, <2>2 DEF OfNote
<1> QED
  BY <1>2, <1>3 DEF OwnTexts

LEMMA InitRowsInv == Init => RowsInv
<1> SUFFICES ASSUME Init PROVE RowsInv
  OBVIOUS
<1>1. IndInv /\ Types /\ Trees
  BY InitIndInv DEF IndInv
<1>2. OwnReading
  BY DEF Init, NoJob, OwnReading
<1>3. \A r \in Reqs : OfNote(task[r].note, task[r].text)
  BY DEF Init, NoTask, OfNote
<1>4. ASSUME NEW n \in Ids
      PROVE  OfNote(n, index[n])
  <2>1. CASE n \in Stored /\ StoredTable[n] = "notes"
    <3>1. status[n] # "free" /\ TableOf(n) = "notes" /\ index[n] = Quote(Cascade(n))
      BY <2>1 DEF Init, TableOf
    <3>2. NoteOf(n) = n
      BY <3>1 DEF NoteOf
    <3>3. \A x \in Cascade(n) : x \in Ids /\ status[x] # "free" /\ NoteOf(x) = n
      BY <1>1, <3>1, <3>2, InTree
    <3> QED
      BY <3>1, <3>3, QuoteIsOfNote
  <2>2. CASE ~ (n \in Stored /\ StoredTable[n] = "notes")
    BY <2>2 DEF Init, OfNote
  <2> QED
    BY <2>1, <2>2
<1> QED
  BY <1>2, <1>3, <1>4, InitFreshInv DEF RowsInv, OwnTexts

LEMMA NextRowsInv == RowsInv /\ [Next]_vars => RowsInv'
<1> SUFFICES ASSUME RowsInv, [Next]_vars PROVE RowsInv'
  OBVIOUS
<1>1. /\ FreshInv /\ OwnReading /\ OwnTexts
      /\ IndInv /\ TaskOwned /\ Written /\ OwnNote
  BY DEF RowsInv, FreshInv, TextInv
<1> QED
  BY <1>1, NextFreshInv, OwnReadingInvariant, OwnTextsInvariant DEF RowsInv

(* The AI service is told of a note nothing but what rows of that note    *)
(* hold or have held: the id that getNoteId finds is the one of the        *)
(* request's own note, and FormatNote descends from there, whatever is     *)
(* inserted or deleted between its queries.                                *)
THEOREM NothingForeign == Spec => []NoForeignRow
<1>1. RowsInv => NoForeignRow
  BY DEF RowsInv, OwnTexts, OfNote, NoForeignRow
<1>2. Spec => []RowsInv
  BY InitRowsInv, NextRowsInv, PTL DEF Spec
<1> QED
  BY <1>1, <1>2, PTL

-----------------------------------------------------------------------------
(* What had been answered before a request came is in its text.            *)

(* Requests that were answered 200 before this one came.                   *)
CameAfter ==
    \A r \in Reqs : /\ job[r].op = "none" => job[r].after = {}
                    /\ \A q \in job[r].after : q \in Reqs /\ answer[q] = "ok"

(* What a request has to say of its note: read so far, or sent.            *)
Said(r) == IF task[r].state = "none" THEN text[r] ELSE task[r].text

(* The query of FormatNote that reads the row of request q.                *)
ReadBy(q) ==
    CASE TableOf(OwnRow(q)) = "notes"           -> "head"
      [] TableOf(OwnRow(q)) = "checklists"      -> "lists"
      [] TableOf(OwnRow(q)) = "checklist_items" -> "items"

Without(T, x) == \A w \in T : x \notin {w.row, parent[w.row]}

(* Once the query has been made that reads the row of q, the text shows it *)
(* with what q wrote; before, r still has to visit the checklist of an     *)
(* item.  What q deleted is not read.                                      *)
EarlierShown ==
    \A r \in Reqs : \A q \in job[r].after :
        IF job[q].op \in Deleting
        THEN Without(Said(r), job[q].target)
        ELSE NoteOf(OwnRow(q)) = Root(r) =>
                \/ status[OwnRow(q)] = "gone"
                \/ /\ Done(r, ReadBy(q)) => Shows(Said(r), q)
                   /\ ReadBy(q) = "items" /\ Done(r, "lists") =>
                         Shows(Said(r), q) \/ parent[OwnRow(q)] \in todo[r]

EarlierInv == RowsInv /\ CameAfter /\ EarlierShown

(* The queries of FormatNote come in this order, all of them before the    *)
(* task is started.                                                        *)
LEMMA QueryFacts ==
    ASSUME NEW op \in AllOps
    PROVE  LET P == Program(op)
           IN  \A k \in DOMAIN P :
                  /\ P[k] = "head" =>
                        \A j \in DOMAIN P : P[j] \in {"lists", "items", "send"} => k < j
                  /\ P[k] = "lists" =>
                        \A j \in DOMAIN P : P[j] \in {"items", "send"} => k < j
                  /\ P[k] = "items" =>
                        /\ \A j \in DOMAIN P : P[j] = "send" => k < j
                        /\ \E j \in DOMAIN P : j < k /\ P[j] = "lists"
                  /\ P[k] = "send" /\ op # "note_delete" =>
                        \A s \in Reading : \E j \in DOMAIN P : j < k /\ P[j] = s
<1> USE DEF AllOps, Program, Reading
<1>1. CASE op = "note_post"
  BY <1>1 DEF NotePost
<1>2. CASE op = "note_patch"
  BY <1>2 DEF NotePatch
<1>3. CASE op = "note_delete"
  BY <1>3 DEF NoteDelete
<1>4. CASE op = "checklist_post"
  BY <1>4 DEF ChecklistPost
<1>5. CASE op = "checklist_patch"
  BY <1>5 DEF ChecklistPatch
<1>6. CASE op = "checklist_delete"
  BY <1>6 DEF ChecklistDelete
<1>7. CASE op = "item_post"
  BY <1>7 DEF ItemPost
<1>8. CASE op = "item_patch"
  BY <1>8 DEF ItemPatch
<1>9. CASE op = "item_delete"
  BY <1>9 DEF ItemDelete
<1> QED
  BY <1>1, <1>2, <1>3, <1>4, <1>5, <1>6, <1>7, <1>8, <1>9

LEMMA QueryOrder ==
    ASSUME IndInv, NEW r \in Reqs
    PROVE  /\ At(r, {"head"}) => \A s \in {"lists", "items", "send"} : ~ Done(r, s)
           /\ At(r, {"lists"}) => \A s \in {"items", "send"} : ~ Done(r, s)
           /\ At(r, {"items"}) => ~ Done(r, "send") /\ Done(r, "lists")
<1> USE DEF IndInv
<1> DEFINE P == Program(job[r].op)
<1>1. ASSUME NEW u \in Reading, At(r, {u})
      PROVE  /\ pc[r] \in DOMAIN P /\ P[pc[r]] = u /\ job[r].op \in AllOps
             /\ \A s : (\E j \in DOMAIN P : j < pc[r] /\ P[j] = s) => Done(r, s)
  BY <1>1, Handler
<1>2. ASSUME NEW u \in Reading, At(r, {u})
      PROVE  DOMAIN P \subseteq Nat
  BY <1>1, <1>2, ProgramFacts
<1>3. ASSUME NEW u \in Reading, At(r, {u}), NEW s,
             \A k, j \in DOMAIN P : P[k] = u /\ P[j] = s => k < j
      PROVE  ~ Done(r, s)
  <2>1. SUFFICES ASSUME Done(r, s) PROVE FALSE
    OBVIOUS
  <2>2. PICK j \in DOMAIN P : j < pc[r] /\ P[j] = s
    BY <2>1 DEF Done
  <2>3. pc[r] < j
    BY <1>1, <1>3, <2>2
  <2>4. j \in Nat /\ pc[r] \in Nat
    BY <1>2, <1>3, <2>2, PcType
  <2> QED
    BY <2>2, <2>3, <2>4
<1>4. ASSUME NEW u \in Reading, At(r, {u})
      PROVE  \A k \in DOMAIN P :
                /\ P[k] = "head" =>
                      \A j \in DOMAIN P : P[j] \in {"lists", "items", "send"} => k < j
                /\ P[k] = "lists" =>
                      \A j \in DOMAIN P : P[j] \in {"items", "send"} => k < j
                /\ P[k] = "items" =>
                      /\ \A j \in DOMAIN P : P[j] = "send" => k < j
                      /\ \E j \in DOMAIN P : j < k /\ P[j] = "lists"
  BY <1>1, <1>4, QueryFacts
<1> HIDE DEF P
<1>5. At(r, {"head"}) => \A s \in {"lists", "items", "send"} : ~ Done(r, s)
  BY <1>3, <1>4 DEF Reading
<1>6. At(r, {"lists"}) => \A s \in {"items", "send"} : ~ Done(r, s)
  BY <1>3, <1>4 DEF Reading
<1>7. At(r, {"items"}) => ~ Done(r, "send") /\ Done(r, "lists")
  BY <1>1, <1>3, <1>4 DEF Reading
<1> QED
  BY <1>5, <1>6, <1>7

LEMMA CameAfterInvariant ==
    ASSUME IndInv, CameAfter, [Next]_vars
    PROVE  CameAfter'
<1> USE DEF IndInv
<1> SUFFICES ASSUME NEW r \in Reqs
             PROVE  /\ job'[r].op = "none" => job'[r].after = {}
                    /\ \A q \in job'[r].after : q \in Reqs /\ answer'[q] = "ok"
  BY DEF CameAfter
<1>1. CASE job'[r] = job[r]
  BY <1>1, AnswerKept DEF CameAfter
<1>2. CASE Receive(r)
  <2>1. job'[r].op \in Ops /\ job'[r].after = Answered /\ answer' = answer
    BY <1>2 DEF Receive, Types
  <2>2. job'[r].op # "none"
    BY <2>1, OpsAssumption DEF AllOps
  <2> QED
    BY <2>1, <2>2 DEF Answered
<1>3. ASSUME NEW q \in Reqs, Receive(q), q # r
      PROVE  job'[r] = job[r]
  BY <1>3 DEF Receive, Types
<1> QED
  BY <1>1, <1>2, <1>3, JobsFrame

(* What a step does to the text and to the checklists still to visit: one  *)
(* query of FormatNote at a time, in its order.                            *)
LEMMA SaidMoves ==
    ASSUME IndInv, OwnNote, Sent, [Next]_vars, NEW r \in Reqs, job[r].op # "none"
    PROVE  \/ /\ Said(r)' = Said(r) /\ todo'[r] = todo[r]
              /\ \A s \in Reading : Done(r, s)' => Done(r, s)
           \/ /\ Said(r)' = Quote({Root(r)}) /\ status[Root(r)] = "live"
              /\ ~ Done(r, "lists")' /\ ~ Done(r, "items")'
           \/ /\ Said(r)' = Said(r) \cup Quote(Children(Root(r)))
              /\ todo'[r] = Children(Root(r))
              /\ ~ Done(r, "items")' /\ (Done(r, "head")' => Done(r, "head"))
           \/ /\ \E c \in todo[r] : /\ Said(r)' = Said(r) \cup Quote(Children(c))
                                   /\ todo'[r] = todo[r] \ {c}
              /\ \A s \in Reading : Done(r, s)' => Done(r, s)
           \/ /\ Said(r)' = Said(r) /\ todo'[r] = todo[r] /\ todo[r] = {} /\ Done(r, "lists")
              /\ Done(r, "head")' => Done(r, "head")
<1> USE DEF IndInv
<1>1. ASSUME NEW s \in Reading, Done(r, s)', ~ Done(r, s)
      PROVE  At(r, {s}) /\ Serve(r) /\ pc' # pc
  <2>1. At(r, {s}) /\ Serve(r) /\ pc'[r] = pc[r] + 1
    BY <1>1, StepDone DEF Reading, StepNames
  <2>2. pc[r] \in Nat
    BY PcType
  <2> QED
    BY <2>1, <2>2
<1>2. ASSUME NEW s \in Reading, At(r, {s}), ~ Send(r)
      PROVE  Said(r) = text[r] /\ Said(r)' = text'[r] /\ note[r] = Root(r)
  <2>1. ~ Done(r, "send")
    BY <1>2, QueryOrder DEF Reading
  <2>2. task[r].state = "none"
    BY <2>1 DEF Sent
  <2>3. task'[r].state = "none"
    BY <1>2, <2>2, TaskMoves
  <2>4. note[r] = Root(r)
    BY <1>2, NoteAt
  <2> QED
    BY <2>2, <2>3, <2>4 DEF Said
<1>3. ASSUME NEW s, At(r, {s}), NEW u \in Reading, u # s
      PROVE  Done(r, u)' => Done(r, u)
  <2>1. ~ At(r, {u})
    BY <1>3 DEF At
  <2> QED
    BY <1>1, <2>1
<1>4. CASE Send(r)
  <2>1. /\ task[r].state = "none" /\ task'[r].state = "pending" /\ task'[r].text = text[r]
        /\ todo' = todo /\ At(r, {"send"})
    BY <1>4, SentOnce DEF Send, Types
  <2>2. \A s \in Reading : "send" # s
    BY DEF Reading
  <2>3. \A s \in Reading : Done(r, s)' => Done(r, s)
    BY <1>3, <2>1, <2>2
  <2> QED
    BY <2>1, <2>3 DEF Said
<1>5. CASE ReadHead(r)
  <2>1. At(r, {"head"}) /\ ~ Send(r) /\ todo' = todo
    BY <1>5 DEF ReadHead, Send, At
  <2>2. Said(r) = text[r] /\ Said(r)' = text'[r] /\ note[r] = Root(r)
    BY <1>2, <2>1 DEF Reading
  <2>3. CASE pc' = pc /\ text' = text
    <3>1. \A s \in Reading : Done(r, s)' => Done(r, s)
      BY <1>1, <2>3
    <3> QED
      BY <2>1, <2>2, <2>3, <3>1
  <2>4. CASE Live(note[r]) /\ text'[r] = Quote({note[r]})
    <3>1. ~ Done(r, "lists") /\ ~ Done(r, "items")
      BY <2>1, QueryOrder
    <3>2. ~ Done(r, "lists")' /\ ~ Done(r, "items")'
      BY <1>3, <2>1, <3>1 DEF Reading
    <3> QED
      BY <2>2, <2>4, <3>2 DEF Live
  <2> QED
    BY <1>5, <2>3, <2>4 DEF ReadHead, Answer, Types
<1>6. CASE ReadLists(r)
  <2>1. At(r, {"lists"}) /\ ~ Send(r)
    BY <1>6 DEF ReadLists, Send, At
  <2>2. Said(r) = text[r] /\ Said(r)' = text'[r] /\ note[r] = Root(r)
    BY <1>2, <2>1 DEF Reading
  <2>3. /\ text'[r] = text[r] \cup Quote(Children(note[r]))
        /\ todo'[r] = Children(note[r])
    BY <1>6 DEF ReadLists, Types
  <2>4. ~ Done(r, "items")
    BY <2>1, QueryOrder
  <2>5. ~ Done(r, "items")' /\ (Done(r, "head")' => Done(r, "head"))
    BY <1>3, <2>1, <2>4 DEF Reading
  <2> QED
    BY <2>2, <2>3, <2>5
<1>7. CASE ReadItems(r)
  <2>1. At(r, {"items"}) /\ ~ Send(r)
    BY <1>7 DEF ReadItems, Send, At
  <2>2. Said(r) = text[r] /\ Said(r)' = text'[r]
    BY <1>2, <2>1 DEF Reading
  <2>3. Done(r, "lists")
    BY <2>1, QueryOrder
  <2>4. Done(r, "head")' => Done(r, "head")
    BY <1>3, <2>1 DEF Reading
  <2>5. CASE todo[r] = {} /\ UNCHANGED textVars
    BY <2>2, <2>3, <2>4, <2>5 DEF textVars
  <2>6. CASE \E c \in todo[r] :
                /\ text' = [text EXCEPT ![r] = @ \cup Quote(Children(c))]
                /\ todo' = [todo EXCEPT ![r] = Visited(@, c)]
                /\ UNCHANGED <<pc, answer>>
    <3>1. \E c \in todo[r] : /\ text'[r] = text[r] \cup Quote(Children(c))
                            /\ todo'[r] = todo[r] \ {c}
      BY <2>6 DEF Types, Visited
    <3>2. \A s \in Reading : Done(r, s)' => Done(r, s)
      BY <1>1, <2>6
    <3> QED
      BY <2>2, <3>1, <3>2
  <2> QED
    BY <1>7, <2>5, <2>6 DEF ReadItems
<1>8. CASE ~ (ReadHead(r) \/ ReadLists(r) \/ ReadItems(r) \/ Send(r))
  <2>1. text'[r] = text[r] /\ todo'[r] = todo[r]
    BY <1>8, TextFrame DEF Serve, Find, ListFiles, GetNoteId, Insert, Update, Delete, textVars
  <2>2. /\ task'[r].state = "none" <=> task[r].state = "none"
        /\ task[r].state # "none" => task'[r].text = task[r].text
    BY <1>8, TaskMoves
  <2>3. ASSUME NEW s \in Reading, Done(r, s)', ~ Done(r, s)
        PROVE  FALSE
    <3>1. At(r, {s}) /\ Serve(r)
      BY <1>1, <2>3
    <3> QED
      BY <1>8, <3>1 DEF Serve, Find, ListFiles, GetNoteId, Insert, Update, Delete, At,
                        Reading, Columns
  <2> QED
    BY <2>1, <2>2, <2>3 DEF Said
<1> QED
  BY <1>4, <1>5, <1>6, <1>7, <1>8

(* The row of a request that was answered 200.                             *)
LEMMA Committed ==
    ASSUME IndInv, Fields, OkAtEnd, Written, NEW q \in Reqs, answer[q] = "ok"
    PROVE  /\ job[q].op # "none"
           /\ IF job[q].op \in Deleting
              THEN job[q].target \in Ids /\ status[job[q].target] = "gone"
              ELSE /\ OwnRow(q) \in Ids /\ status[OwnRow(q)] \in {"live", "gone"}
                   /\ OwnWrites(q) \subseteq writes[OwnRow(q)]
<1> USE DEF IndInv
<1>1. job[q].op \in AllOps /\ job[q].op # "none"
  BY DEF OkAtEnd, Types
<1>2. /\ OwnWrites(q) \subseteq writes[OwnRow(q)]
      /\ job[q].op \in Deleting => status[job[q].target] = "gone"
  BY OkIsCommitted DEF OkMeansCommitted
<1>3. CASE job[q].op \in Inserting
  <2>1. Done(q, "insert")
    BY <1>1, <1>3, AllDone, OrderFacts
  <2>2. q \in Ids /\ status[q] # "free" /\ OwnRow(q) = q
    BY <1>1, <1>3, <2>1 DEF Written, OwnRow, Ids
  <2>3. status[q] \in {"live", "gone"}
    BY <2>2 DEF Types
  <2> QED
    BY <1>1, <1>2, <1>3, <2>2, <2>3 DEF Inserting, Deleting
<1>4. CASE job[q].op \notin Inserting
  <2>1. job[q].target \in Ids /\ status[job[q].target] # "free" /\ OwnRow(q) = job[q].target
    BY <1>1, <1>4, TargetKnown DEF OwnRow, Inserting
  <2>2. status[job[q].target] \in {"live", "gone"}
    BY <2>1 DEF Types
  <2> QED
    BY <1>1, <1>2, <2>1, <2>2
<1> QED
  BY <1>3, <1>4

(* What is deleted is not read any more, nor a row below it.               *)
LEMMA DeletedUnread ==
    ASSUME RowsInv, [Next]_vars, NEW r \in Reqs, job[r].op # "none",
           NEW t \in Ids, status[t] = "gone", Without(Said(r), t)
    PROVE  Without(Said(r), t)'
<1>1. /\ IndInv /\ Types /\ AtStep /\ NotInsertedYet /\ NoOrphanRow
      /\ OwnNote /\ Sent /\ OwnReading /\ OwnTexts
  BY DEF RowsInv, FreshInv, TextInv, IndInv
<1>2. \A w \in Said(r) : w.row \in Ids /\ status[w.row] # "free"
  BY <1>1 DEF Said, OwnReading, OwnTexts, OfNote
<1>3. \A x : \A y \in Children(x) : y \in Ids /\ status[y] = "live"
  BY DEF Children
<1>4. Root(r) \in Ids
  <2>1. job[r].op = "note_post" => Root(r) = r /\ r \in Ids
    BY DEF Root, Ids
  <2>2. job[r].op # "note_post" => Root(r) \in Known("notes")
    BY <1>1, RootIsNote
  <2> QED
    BY <2>1, <2>2 DEF Known
<1>5. PICK S \in SUBSET Ids : /\ \A y \in S : status[y] = "live"
                             /\ Said(r)' \subseteq Said(r) \cup Quote(S)
  <2>1. CASE Said(r)' = Said(r)
    <3>1. Said(r)' \subseteq Said(r) \cup Quote({})
      BY <2>1
    <3> QED
      BY <3>1
  <2>2. CASE Said(r)' = Quote({Root(r)}) /\ status[Root(r)] = "live"
    <3> DEFINE S == {Root(r)}
    <3>1. S \in SUBSET Ids /\ \A y \in S : status[y] = "live"
      BY <1>4, <2>2
    <3>2. Said(r)' \subseteq Said(r) \cup Quote(S)
      BY <2>2
    <3> HIDE DEF S
    <3> QED
      BY <3>1, <3>2
  <2>3. ASSUME NEW x, Said(r)' = Said(r) \cup Quote(Children(x))
        PROVE  \E S \in SUBSET Ids : /\ \A y \in S : status[y] = "live"
                                     /\ Said(r)' \subseteq Said(r) \cup Quote(S)
    <3>1. Children(x) \in SUBSET Ids
      BY <1>3
    <3> QED
      BY <1>3, <2>3, <3>1
  <2> QED
    BY <1>1, <2>1, <2>2, <2>3, SaidMoves
<1>6. ASSUME NEW w \in Said(r)'
      PROVE  t \notin {w.row, parent'[w.row]}
  <2>1. CASE w \in Said(r)
    <3>1. w.row \in Ids /\ status[w.row] # "free"
      BY <1>2, <2>1
    <3>2. parent'[w.row] = parent[w.row]
      BY <1>1, <3>1, RowsKept
    <3> QED
      BY <2>1, <3>2 DEF Without
  <2>2. CASE w \in Quote(S)
    <3>1. PICK y \in S : w.row = y
      BY <2>2 DEF Quote
    <3>2. y \in Ids /\ status[y] = "live"
      BY <1>5, <3>1
    <3>3. parent'[y] = parent[y]
      BY <1>1, <3>2, RowsKept
    <3>4. parent[y] = None \/ status[parent[y]] = "live"
      BY <1>1, <3>2 DEF NoOrphanRow
    <3> QED
      BY <3>1, <3>2, <3>3, <3>4, IdsAssumption
  <2> QED
    BY <1>5, <1>6, <2>1, <2>2
<1> QED
  BY <1>6 DEF Without

(* Where FormatNote finds a row that is there.                             *)
LEMMA WhereRead ==
    ASSUME IndInv, NEW q \in Reqs, OwnRow(q) \in Ids, status[OwnRow(q)] = "live"
    PROVE  LET x == OwnRow(q)
               n == NoteOf(x)
           IN  /\ ReadBy(q) = "head" => x = n
               /\ ReadBy(q) = "lists" => x \in Children(n)
               /\ ReadBy(q) = "items" =>
                     x \in Children(parent[x]) /\ parent[x] \in Children(n)
               /\ ReadBy(q) \in Reading
<1> USE DEF IndInv
<1> DEFINE x == OwnRow(q)
<1>1. TableOf(x) \in Tables /\ (TableOf(x) # "notes" => parent[x] # None)
  BY IdsAssumption DEF Trees, Tables, Known
<1>2. CASE TableOf(x) = "notes"
  BY <1>2 DEF ReadBy, NoteOf, Reading
<1>3. CASE TableOf(x) = "checklists"
  BY <1>3 DEF ReadBy, NoteOf, Reading, Children
<1>4. CASE TableOf(x) = "checklist_items"
  <2>1. parent[x] \in Ids /\ status[parent[x]] = "live" /\ NoteOf(x) = parent[parent[x]]
    BY <1>1, <1>4 DEF NoOrphanRow, Types, NoteOf
  <2> QED
    BY <1>4, <2>1 DEF ReadBy, Reading, Children
<1> QED
  BY <1>1, <1>2, <1>3, <1>4 DEF Tables

(* What was answered before a request came is shown, once it is read.      *)
LEMMA EarlierRead ==
    ASSUME IndInv, OwnNote, Sent, [Next]_vars,
           NEW r \in Reqs, job[r].op # "none", NEW q \in Reqs,
           NEW x \in Ids, x = OwnRow(q), NEW lv, lv = ReadBy(q),
           status[x] = "live", OwnWrites(q) \subseteq writes[x], NoteOf(x) = Root(r),
           Done(r, lv) => Shows(Said(r), q),
           lv = "items" /\ Done(r, "lists") => Shows(Said(r), q) \/ parent[x] \in todo[r]
    PROVE  /\ Done(r, lv)' => Shows(Said(r)', q)
           /\ lv = "items" /\ Done(r, "lists")' =>
                 Shows(Said(r)', q) \/ parent[x] \in todo'[r]
<1>1. /\ lv = "head" => x = Root(r)
      /\ lv = "lists" => x \in Children(Root(r))
      /\ lv = "items" => x \in Children(parent[x]) /\ parent[x] \in Children(Root(r))
      /\ lv \in Reading /\ "lists" \in Reading
  BY WhereRead DEF Reading
<1>2. \A S : x \in S => Shows(Quote(S), q)
  BY QuoteShows
<1>3. \A S, T : S \subseteq T /\ Shows(S, q) => Shows(T, q)
  BY ShownLater
<1>4. CASE /\ Said(r)' = Said(r) /\ todo'[r] = todo[r]
           /\ \A s \in Reading : Done(r, s)' => Done(r, s)
  BY <1>1, <1>4
<1>5. CASE /\ Said(r)' = Quote({Root(r)}) /\ status[Root(r)] = "live"
           /\ ~ Done(r, "lists")' /\ ~ Done(r, "items")'
  BY <1>1, <1>2, <1>5 DEF Reading
<1>6. CASE /\ Said(r)' = Said(r) \cup Quote(Children(Root(r)))
           /\ todo'[r] = Children(Root(r))
           /\ ~ Done(r, "items")' /\ (Done(r, "head")' => Done(r, "head"))
  <2>1. /\ Shows(Said(r), q) => Shows(Said(r)', q)
        /\ x \in Children(Root(r)) => Shows(Said(r)', q)
    BY <1>2, <1>3, <1>6
  <2> QED
    BY <1>1, <1>6, <2>1 DEF Reading
<1>7. CASE /\ \E c \in todo[r] : /\ Said(r)' = Said(r) \cup Quote(Children(c))
                                /\ todo'[r] = todo[r] \ {c}
           /\ \A s \in Reading : Done(r, s)' => Done(r, s)
  <2>1. PICK c \in todo[r] : /\ Said(r)' = Said(r) \cup Quote(Children(c))
                            /\ todo'[r] = todo[r] \ {c}
    BY <1>7
  <2>2. /\ Shows(Said(r), q) => Shows(Said(r)', q)
        /\ x \in Children(c) => Shows(Said(r)', q)
    BY <1>2, <1>3, <2>1
  <2> QED
    BY <1>1, <1>7, <2>1, <2>2
<1>8. CASE /\ Said(r)' = Said(r) /\ todo'[r] = todo[r] /\ todo[r] = {} /\ Done(r, "lists")
           /\ Done(r, "head")' => Done(r, "head")
  BY <1>1, <1>8 DEF Reading
<1> QED
  BY <1>4, <1>5, <1>6, <1>7, <1>8, SaidMoves

LEMMA EarlierShownInvariant ==
    ASSUME RowsInv, CameAfter, EarlierShown, [Next]_vars
    PROVE  EarlierShown'
<1>1. /\ IndInv /\ Types /\ AtStep /\ NotInsertedYet
      /\ Fields /\ OkAtEnd /\ Written /\ TaskOwned /\ OwnNote /\ Sent /\ OwnReading
  BY DEF RowsInv, FreshInv, TextInv, IndInv
<1> SUFFICES ASSUME NEW r \in Reqs, NEW q \in job'[r].after
             PROVE  IF job'[q].op \in Deleting
                    THEN Without(Said(r), job[q].target)'
                    ELSE (NoteOf(OwnRow(q)) = Root(r))' =>
                            \/ status'[OwnRow(q)'] = "gone"
                            \/ /\ Done(r, ReadBy(q))' => Shows(Said(r), q)'
                               /\ ReadBy(q)' = "items" /\ Done(r, "lists")' =>
                                     \/ Shows(Said(r), q)'
                                     \/ parent'[OwnRow(q)'] \in todo'[r]
  BY DEF EarlierShown
<1>2. CASE job[r].op = "none"
  <2>1. job'[r].op # "none" => \A s : ~ Done(r, s)'
    BY <1>1, <1>2, NothingDone
  <2>2. job'[r].op # "none"
    BY <1>1, CameAfterInvariant DEF CameAfter
  <2>3. ~ Serve(r) /\ text[r] = {} /\ task[r].state = "none"
    BY <1>1, <1>2, ServeMoves DEF OwnReading, AtStep, Running, TaskOwned
  <2>4. Said(r)' = {}
    <3>1. text'[r] = {}
      BY <1>1, <2>3, TextFrame
    <3>2. task'[r].state = "none"
      BY <1>1, <2>3, TaskMoves DEF Serve
    <3> QED
      BY <3>1, <3>2 DEF Said
  <2> QED
    BY <2>1, <2>2, <2>4 DEF Without
<1>3. CASE job[r].op # "none"
  <2>1. job'[r] = job[r] /\ q \in job[r].after /\ q \in Reqs /\ answer[q] = "ok"
    BY <1>1, <1>3, JobsKept DEF CameAfter
  <2>2. /\ job[q].op # "none"
        /\ IF job[q].op \in Deleting
           THEN job[q].target \in Ids /\ status[job[q].target] = "gone"
           ELSE /\ OwnRow(q) \in Ids /\ status[OwnRow(q)] \in {"live", "gone"}
                /\ OwnWrites(q) \subseteq writes[OwnRow(q)]
    BY <1>1, <2>1, Committed
  <2>3. job'[q] = job[q]
    BY <1>1, <2>1, <2>2, JobsKept
  <2>4. CASE job[q].op \in Deleting
    <3>1. PICK t \in Ids : t = job[q].target
      BY <2>2, <2>4
    <3>2. Without(Said(r), t)
      BY <2>1, <2>4, <3>1 DEF EarlierShown
    <3>3. Without(Said(r), t)'
      BY <1>3, <2>2, <2>4, <3>1, <3>2, DeletedUnread
    <3> QED
      BY <2>3, <2>4, <3>1, <3>3 DEF Without
  <2>5. CASE job[q].op \notin Deleting
    <3>1. PICK x \in Ids : x = OwnRow(q)
      BY <2>2, <2>5
    <3>2. PICK lv : lv = ReadBy(q)
      OBVIOUS
    <3>3. /\ OwnRow(q)' = x /\ OwnWrites(q)' = OwnWrites(q)
          /\ status[x] \in {"live", "gone"} /\ OwnWrites(q) \subseteq writes[x]
      BY <2>2, <2>3, <2>5, <3>1 DEF OwnRow, OwnWrites
    <3>4. /\ NoteOf(x)' = NoteOf(x) /\ Root(r)' = Root(r) /\ TableOf(x)' = TableOf(x)
          /\ parent'[x] = parent[x] /\ (status[x] = "gone" => status'[x] = "gone")
      BY <1>1, <1>3, <3>3, NoteOfKept, RootKept, RowsKept DEF IndInv
    <3>5. ReadBy(q)' = lv
      BY <3>1, <3>2, <3>3, <3>4 DEF ReadBy
    <3>6. NoteOf(OwnRow(q))' = NoteOf(x)
      BY <3>3, <3>4 DEF NoteOf
    <3>7. Shows(Said(r), q)' <=> Shows(Said(r)', q)
      BY <3>1, <3>3 DEF Shows
    <3>8. SUFFICES ASSUME NoteOf(x) = Root(r), status[x] = "live"
                   PROVE  /\ Done(r, lv)' => Shows(Said(r)', q)
                          /\ lv = "items" /\ Done(r, "lists")' =>
                                Shows(Said(r)', q) \/ parent[x] \in todo'[r]
      <4>1. Done(r, ReadBy(q))' <=> Done(r, lv)'
        BY <3>5 DEF Done
      <4> QED
        BY <2>3, <2>5, <3>3, <3>4, <3>5, <3>6, <3>7, <4>1
    <3>9. /\ Done(r, lv) => Shows(Said(r), q)
          /\ lv = "items" /\ Done(r, "lists") => Shows(Said(r), q) \/ parent[x] \in todo[r]
      BY <2>1, <2>5, <3>1, <3>2, <3>8 DEF EarlierShown
    <3> QED
      BY <1>1, <1>3, <2>1, <3>1, <3>2, <3>3, <3>8, <3>9, EarlierRead
  <2> QED
    BY <2>4, <2>5
<1> QED
  BY <1>2, <1>3

LEMMA InitEarlierInv == Init => EarlierInv
<1> SUFFICES ASSUME Init PROVE EarlierInv
  OBVIOUS
<1>1. \A r \in Reqs : job[r].after = {}
  BY DEF Init, NoJob
<1> QED
  BY <1>1, InitRowsInv DEF EarlierInv, CameAfter, EarlierShown

LEMMA NextEarlierInv == EarlierInv /\ [Next]_vars => EarlierInv'
<1> SUFFICES ASSUME EarlierInv, [Next]_vars PROVE EarlierInv'
  OBVIOUS
<1>1. IndInv /\ RowsInv /\ CameAfter /\ EarlierShown
  BY DEF EarlierInv, RowsInv, FreshInv, TextInv
<1> QED
  BY <1>1, NextRowsInv, CameAfterInvariant, EarlierShownInvariant DEF EarlierInv

(* The text that a request sends has been read to its end.                 *)
LEMMA SentIsRead ==
    ASSUME IndInv, TaskOwned, Sent, NEW r \in Reqs, task[r].state # "none",
           job[r].op # "note_delete", NEW s \in Reading
    PROVE  Done(r, s) /\ task[r].note = Root(r)
<1> USE DEF IndInv
<1> DEFINE P == Program(job[r].op)
<1>1. job[r].op \in AllOps
  BY DEF TaskOwned, Types
<1>2. Done(r, "send") /\ task[r].note = Root(r)
  BY DEF TaskOwned, Sent
<1>3. PICK k \in DOMAIN P : k < pc[r] /\ P[k] = "send"
  BY <1>2 DEF Done
<1>4. PICK j \in DOMAIN P : j < k /\ P[j] = s
  BY <1>1, <1>3, QueryFacts
<1>5. DOMAIN P \subseteq Nat /\ pc[r] \in Nat
  BY <1>1, ProgramFacts, PcType
<1>6. j < pc[r]
  <2> HIDE DEF P
  <2> QED
    BY <1>3, <1>4, <1>5
<1> QED
  BY <1>2, <1>4, <1>6 DEF Done

LEMMA EarlierIsShown == EarlierInv => EarlierAnswersShown
<1> SUFFICES ASSUME EarlierInv, NEW r \in Reqs, task[r].state # "none",
                    job[r].op # "note_delete", NEW q \in job[r].after
             PROVE  IF job[q].op \in Deleting
                    THEN \A x \in task[r].text : job[q].target \notin {x.row, parent[x.row]}
                    ELSE NoteOf(OwnRow(q)) = task[r].note =>
                            \/ status[OwnRow(q)] = "gone"
                            \/ \E x \in task[r].text :
                                  x.row = OwnRow(q) /\ OwnWrites(q) \subseteq x.holds
  BY DEF EarlierAnswersShown
<1>1. /\ IndInv /\ TaskOwned /\ Sent /\ CameAfter /\ EarlierShown
      /\ Fields /\ OkAtEnd /\ Written
  BY DEF EarlierInv, RowsInv, FreshInv, TextInv
<1>2. Said(r) = task[r].text
  BY DEF Said
<1>3. CASE job[q].op \in Deleting
  BY <1>1, <1>2, <1>3 DEF EarlierShown, Without
<1>4. CASE job[q].op \notin Deleting
  <2>1. q \in Reqs /\ OwnRow(q) \in Ids /\ status[OwnRow(q)] \in {"live", "gone"}
    BY <1>1, <1>4, Committed DEF CameAfter
  <2>2. status[OwnRow(q)] = "live" => ReadBy(q) \in Reading
    BY <1>1, <2>1, WhereRead
  <2>3. status[OwnRow(q)] = "live" => Done(r, ReadBy(q)) /\ task[r].note = Root(r)
    BY <1>1, <2>2, SentIsRead
  <2>4. NoteOf(OwnRow(q)) = Root(r) =>
           \/ status[OwnRow(q)] = "gone"
           \/ Done(r, ReadBy(q)) => Shows(Said(r), q)
    BY <1>1, <1>4 DEF EarlierShown
  <2> QED
    BY <1>2, <1>4, <2>1, <2>3, <2>4 DEF Shows
<1> QED
  BY <1>3, <1>4

(* Every text that is sent shows what had been answered 200 when its       *)
(* request came, also when FormatNote reads while further requests write  *)
(* and delete: each of its queries comes after those answers, and a row    *)
(* that is there is found below its parent, which is there too.            *)
THEOREM EarlierShows == Spec => []EarlierAnswersShown
<1>1. Spec => []EarlierInv
  BY InitEarlierInv, NextEarlierInv, PTL DEF Spec
<1> QED
  BY <1>1, EarlierIsShown, PTL

=============================================================================
