-------------------------- MODULE NoteSync_proofs --------------------------
(***************************************************************************)
(* Proofs about NoteSync for every set of requests, every choice of        *)
(* handlers and every initial database: the type invariant, no orphan row, *)
(* that the AI service is told to forget only deleted notes, and that      *)
(* NoteSync implements RowStore.                                           *)
(***************************************************************************)
EXTENDS NoteSync, TLAPS

StepNames == Columns \cup {"find", "files", "noteid", "insert", "delete",
                           "head", "lists", "items", "send"}

Codes == {"ok", "404", "500", "lost"}

NoteKnownAtStart == {"note_patch", "note_delete", "checklist_post"}

-----------------------------------------------------------------------------
(* The parts of the inductive invariant.                                   *)

Types ==
    /\ status \in [Ids -> {"free", "live", "gone"}]
    /\ parent \in [Ids -> Ids \cup {None}]
    /\ writes \in [Ids -> SUBSET Writes]
    /\ job \in [Reqs -> [op : AllOps \cup {"none"}, target : Ids \cup {None},
                         fields : SUBSET Columns, after : SUBSET Reqs, ended : SUBSET Reqs]]
    /\ pc \in [Reqs -> 0 .. 9]
    /\ answer \in [Reqs -> {"none"} \cup Codes]
    /\ note \in [Reqs -> Ids \cup {None}]
    /\ text \in [Reqs -> SUBSET Quotes]
    /\ todo \in [Reqs -> SUBSET Ids]
    /\ task \in [Reqs -> [kind : {"none", "add", "update", "delete"},
                          note : Ids \cup {None}, text : SUBSET Quotes,
                          state : {"none", "pending", "delivered", "failed", "lost"}]]
    /\ index \in [Ids -> SUBSET Quotes]

(* A request is at a step of its program until it is answered.             *)
AtStep ==
    \A r \in Reqs :
        /\ pc[r] = 0 <=> job[r].op = "none"
        /\ pc[r] # 0 /\ answer[r] = "none" => pc[r] \in DOMAIN Program(job[r].op)

(* Before its INSERT the row of a request does not exist, and only a POST *)
(* ever makes it exist.                                                    *)
NotInsertedYet ==
    \A r \in Reqs :
        /\ status[r] # "free" => job[r].op \in Inserting
        /\ Running(r) /\ (\E k \in DOMAIN Program(job[r].op) :
                              k >= pc[r] /\ Program(job[r].op)[k] = "insert")
           => status[r] = "free"

(* Rows form trees of three levels, also after they are gone.              *)
Trees ==
    \A x \in Ids : status[x] # "free" =>
        \/ TableOf(x) = "notes" /\ parent[x] = None
        \/ /\ TableOf(x) = "checklists"
           /\ parent[x] \in Known("notes")
        \/ /\ TableOf(x) = "checklist_items"
           /\ parent[x] \in Known("checklists")

(* The path of a request names a row of the handler's table.               *)
Targets ==
    \A r \in Reqs : job[r].op # "none" =>
        IF job[r].op = "note_post" THEN job[r].target = None
                                   ELSE job[r].target \in Known(TargetTable(job[r].op))

(* From which step on a handler knows its note_id.                         *)
NoteIds ==
    \A r \in Reqs : job[r].op # "none" =>
        /\ job[r].op \in NoteKnownAtStart => note[r] = job[r].target
        /\ \A k \in 1 .. pc[r] - 1 :
              k \in DOMAIN Program(job[r].op) /\ Program(job[r].op)[k] \in {"noteid", "insert"}
              => note[r] # None

(* The target of a DELETE that has been executed is gone.                  *)
Deletes ==
    \A r \in Reqs : job[r].op # "none" =>
        \A k \in 1 .. pc[r] - 1 :
            k \in DOMAIN Program(job[r].op) /\ Program(job[r].op)[k] = "delete"
            => status[job[r].target] = "gone"

(* A task that tells the AI service to forget a note names one.            *)
ForgottenNamed == \A r \in Reqs : task[r].kind = "delete" => task[r].note \in Ids

(* Deletes cascade through both levels and inserts check their parent, so *)
(* whatever the order of concurrent requests no live checklist or item is *)
(* left without its parent (db_1.sql, the foreign keys).                   *)
NoOrphanRow ==
    \A x \in Ids : status[x] = "live" /\ parent[x] # None => status[parent[x]] = "live"

IndInv ==
    /\ Types /\ AtStep /\ NotInsertedYet /\ Trees /\ Targets /\ NoteIds /\ Deletes
    /\ NoOrphanRow
    /\ ForgottenNamed /\ ForgetOnlyDeleted

-----------------------------------------------------------------------------
(* Lemmas about the programs of the handlers.                              *)

LEMMA PcType ==
    ASSUME Types, NEW r \in Reqs
    PROVE  pc[r] \in 0 .. 9 /\ pc[r] \in Nat
<1>1. pc \in [Reqs -> 0 .. 9]
  BY DEF Types
<1> QED
  BY <1>1

(* What the proofs use of the order of steps in the nine handlers: a row  *)
(* is inserted at most once and only by a POST, only a DELETE deletes, the *)
(* note_id is known before it is used, and note::del deletes before it     *)
(* tells the AI service.                                                   *)
LEMMA ProgramFacts ==
    ASSUME NEW op \in AllOps
    PROVE  LET P == Program(op)
           IN  /\ Len(P) \in 4 .. 8
               /\ DOMAIN P = 1 .. Len(P)
               /\ \A k \in DOMAIN P :
                     /\ P[k] \in StepNames
                     /\ P[k] = "insert" =>
                           op \in Inserting /\ \A j \in DOMAIN P : P[j] = "insert" => j = k
                     /\ P[k] = "delete" => op \in Deleting
                     /\ P[k] = "noteid" => TargetTable(op) \in {"checklists", "checklist_items"}
                     /\ P[k] \in {"head", "lists", "items", "send"} =>
                           \/ op \in NoteKnownAtStart
                           \/ \E j \in 1 .. k - 1 : P[j] \in {"noteid", "insert"}
                     /\ P[k] = "insert" =>
                           \/ op \in {"note_post", "checklist_post"}
                           \/ \E j \in 1 .. k - 1 : P[j] = "noteid"
                     /\ P[k] = "send" /\ op = "note_delete" =>
                           \E j \in 1 .. k - 1 : P[j] = "delete"
<1> USE DEF AllOps, StepNames, Columns, Inserting, Deleting, TargetTable,
            NoteKnownAtStart, Program
<1>1. CASE op = "note_post"
  BY <1>1 DEF NotePost
<1>2. CASE op = "note_patch"
  BY <1>2 DEF NotePatch
<1>3. CASE op = "note_delete"
  BY <1>3 DEF NoteDelete
<1>4. CASE op = "checklist_post"
  BY <1>4 DEF ChecklistPost
<1>5. CASE op = "checklist_patch"
  BY <1>5 DEF ChecklistPatch
<1>6. CASE op = "checklist_delete"
  BY <1>6 DEF ChecklistDelete
<1>7. CASE op = "item_post"
  BY <1>7 DEF ItemPost
<1>8. CASE op = "item_patch"
  BY <1>8 DEF ItemPatch
<1>9. CASE op = "item_delete"
  BY <1>9 DEF ItemDelete
<1> QED
  BY <1>1, <1>2, <1>3, <1>4, <1>5, <1>6, <1>7, <1>8, <1>9

-----------------------------------------------------------------------------
(* The program counter and the answer.                                     *)

(* A step that advances or answers keeps both in their types and the      *)
(* request inside its program.                                             *)
LEMMA Moves ==
    ASSUME Types, AtStep, job' = job,
           NEW r \in Reqs, Running(r),
           \/ Advance(r)
           \/ \E code \in Codes : Answer(r, code)
    PROVE  /\ pc' \in [Reqs -> 0 .. 9]
           /\ answer' \in [Reqs -> {"none"} \cup Codes]
           /\ AtStep'
           /\ \A q \in Reqs : pc'[q] >= pc[q]
           /\ \A q \in Reqs : q # r => pc'[q] = pc[q] /\ answer'[q] = answer[q]
           /\ pc'[r] \in {pc[r], pc[r] + 1}
           /\ answer'[r] = "none" => pc'[r] = pc[r] + 1
<1> DEFINE P == Program(job[r].op)
<1>1. job[r].op \in AllOps /\ pc[r] # 0 /\ answer[r] = "none" /\ pc[r] \in DOMAIN P
  BY DEF Types, AtStep, Running
<1>2. Len(P) \in 4 .. 8 /\ DOMAIN P = 1 .. Len(P)
  BY <1>1, ProgramFacts
<1>3. pc \in [Reqs -> 0 .. 9] /\ answer \in [Reqs -> {"none"} \cup Codes]
  BY DEF Types
<1>4. /\ pc' \in [Reqs -> 0 .. 9]
      /\ answer' \in [Reqs -> {"none"} \cup Codes]
      /\ \A q \in Reqs : q # r => pc'[q] = pc[q] /\ answer'[q] = answer[q]
      /\ pc'[r] \in {pc[r], pc[r] + 1}
      /\ answer'[r] = "none" => pc'[r] = pc[r] + 1 /\ pc[r] # Len(P)
  <2> HIDE DEF P
  <2>1. CASE Advance(r)
    <3>1. pc' = [pc EXCEPT ![r] = pc[r] + 1]
      BY <2>1 DEF Advance
    <3>2. answer' = IF pc[r] = Len(P) THEN [answer EXCEPT ![r] = "ok"] ELSE answer
      BY <2>1 DEF Advance, P
    <3>3. answer' \in [Reqs -> {"none"} \cup Codes]
      BY <1>3, <3>2 DEF Codes
    <3>4. pc[r] + 1 \in 0 .. 9
      BY <1>1, <1>2
    <3> QED
      BY <1>1, <1>3, <3>1, <3>2, <3>3, <3>4
  <2>2. CASE \E code \in Codes : Answer(r, code)
    BY <1>3, <2>2 DEF Answer, Codes
  <2> QED
    BY <2>1, <2>2
<1>5. pc'[r] # 0
  BY <1>1, <1>2, <1>4
<1>6. answer'[r] = "none" => pc'[r] \in DOMAIN P
  BY <1>1, <1>2, <1>4
<1>7. AtStep'
  BY <1>1, <1>4, <1>5, <1>6 DEF AtStep
<1>8. \A q \in Reqs : pc'[q] >= pc[q]
  BY <1>1, <1>2, <1>3, <1>4
<1> QED
  BY <1>4, <1>7, <1>8

(* Serving a request or failing moves it in this way.                      *)
LEMMA ServeMoves ==
    ASSUME Types, AtStep, NEW r \in Reqs, Serve(r) \/ Throw(r)
    PROVE  /\ job' = job
           /\ Running(r)
           /\ \/ Advance(r)
              \/ \E code \in Codes : Answer(r, code)
              \/ UNCHANGED <<pc, answer>>
<1> USE DEF At, AdvanceOrThrow, Codes, dbVars, textVars, syncVars
<1>1. CASE Find(r) \/ ListFiles(r) \/ GetNoteId(r) \/ Insert(r)
  BY <1>1 DEF Find, ListFiles, GetNoteId, Insert
<1>2. CASE Update(r) \/ Delete(r) \/ ReadHead(r) \/ ReadLists(r)
  BY <1>2 DEF Update, Delete, ReadHead, ReadLists
<1>3. CASE ReadItems(r) \/ Send(r) \/ Throw(r)
  BY <1>3 DEF ReadItems, Send, Throw
<1> QED
  BY <1>1, <1>2, <1>3 DEF Serve

LEMMA AtStepInvariant ==
    ASSUME Types, AtStep, [Next]_vars
    PROVE  AtStep' /\ pc' \in [Reqs -> 0 .. 9] /\ answer' \in [Reqs -> {"none"} \cup Codes]
<1>1. CASE \E r \in Reqs : Receive(r)
  <2> PICK r \in Reqs : Receive(r)
    BY <1>1
  <2> DEFINE Job(op, x, f) == [op |-> op, target |-> x, fields |-> f,
                               after |-> Answered, ended |-> Ended]
  <2>1. PICK op \in Ops : \E x, f : job' = [job EXCEPT ![r] = Job(op, x, f)]
    BY DEF Receive
  <2>2. op \in AllOps /\ op # "none"
    BY OpsAssumption DEF AllOps
  <2>3. 1 \in DOMAIN Program(op)
    BY <2>2, ProgramFacts
  <2> QED
    BY <2>1, <2>2, <2>3 DEF Receive, AtStep, Types
<1>2. CASE \E r \in Reqs : Serve(r) \/ Throw(r)
  <2> PICK r \in Reqs : Serve(r) \/ Throw(r)
    BY <1>2
  <2>1. CASE UNCHANGED <<pc, answer>>
    BY <2>1, ServeMoves DEF AtStep, Types
  <2> QED
    BY <2>1, ServeMoves, Moves
<1>3. CASE \E r \in Reqs : RunTask(r)
  BY <1>3 DEF RunTask, Deliver, CallFails, AtStep, Types
<1>4. CASE Restart
  BY <1>4 DEF Restart, AtStep, Types, Running, Codes
<1>5. CASE UNCHANGED vars
  BY <1>5 DEF vars, AtStep, Types
<1> QED
  BY <1>1, <1>2, <1>3, <1>4, <1>5 DEF Next, Rest

-----------------------------------------------------------------------------
(* What a step does to the rows and to the requests.                       *)

(* Only INSERT and DELETE change which rows exist.                         *)
LEMMA RowsFrame ==
    ASSUME [Next]_vars
    PROVE  \/ \E r \in Reqs : Insert(r)
           \/ \E r \in Reqs : Delete(r)
           \/ UNCHANGED <<status, parent>>
<1> USE DEF dbVars, textVars, syncVars
<1>1. CASE \E r \in Reqs : Receive(r) \/ Throw(r) \/ RunTask(r)
  BY <1>1 DEF Receive, Throw, RunTask, Deliver, CallFails
<1>2. ASSUME NEW r \in Reqs, Serve(r)
      PROVE  Insert(r) \/ Delete(r) \/ UNCHANGED <<status, parent>>
  BY <1>2 DEF Serve, Find, ListFiles, GetNoteId, Update, ReadHead, ReadLists, ReadItems, Send
<1>3. CASE Restart \/ UNCHANGED vars
  BY <1>3 DEF Restart, vars
<1> QED
  BY <1>1, <1>2, <1>3 DEF Next, Rest

(* A request keeps its handler and arguments once it is received.          *)
LEMMA JobsFrame ==
    ASSUME Types, AtStep, [Next]_vars
    PROVE  \/ \E r \in Reqs : Receive(r)
           \/ job' = job
<1> USE DEF dbVars, textVars, syncVars
<1>1. ASSUME NEW r \in Reqs, Serve(r) \/ Throw(r)
      PROVE  job' = job
  BY <1>1, ServeMoves
<1>2. ASSUME NEW r \in Reqs, RunTask(r)
      PROVE  job' = job
  BY <1>2 DEF RunTask, Deliver, CallFails
<1>3. CASE Restart \/ UNCHANGED vars
  BY <1>3 DEF Restart, vars
<1> QED
  BY <1>1, <1>2, <1>3 DEF Next, Rest

LEMMA JobsKept ==
    ASSUME Types, AtStep, [Next]_vars, NEW r \in Reqs, job[r].op # "none"
    PROVE  job'[r] = job[r]
<1>1. ASSUME NEW q \in Reqs, Receive(q)
      PROVE  job'[r] = job[r]
  <2>1. q # r
    BY <1>1 DEF AtStep, Receive
  <2> QED
    BY <1>1, <2>1 DEF Receive, Types
<1> QED
  BY <1>1, JobsFrame

(* The INSERT of a request finds its id unused.                            *)
LEMMA InsertIsFresh ==
    ASSUME Types, AtStep, NotInsertedYet, NEW r \in Reqs, At(r, {"insert"})
    PROVE  status[r] = "free" /\ job[r].op \in Inserting
<1>1. Running(r) /\ Program(job[r].op)[pc[r]] = "insert"
  BY DEF At, Step
<1>2. job[r].op \in AllOps /\ pc[r] \in DOMAIN Program(job[r].op)
  BY <1>1 DEF Running, AtStep, Types
<1>3. pc[r] >= pc[r]
  BY PcType
<1> QED
  BY <1>1, <1>2, <1>3, ProgramFacts DEF NotInsertedYet

(* An id that was handed out stays so, with its parent and its table, and *)
(* a row that is gone stays gone.                                          *)
LEMMA RowsKept ==
    ASSUME Types, AtStep, NotInsertedYet, [Next]_vars,
           NEW x \in Ids, status[x] # "free"
    PROVE  /\ status'[x] # "free"
           /\ parent'[x] = parent[x]
           /\ TableOf(x)' = TableOf(x)
           /\ status[x] = "gone" => status'[x] = "gone"
<1>1. ASSUME NEW r \in Reqs, Insert(r)
      PROVE  status'[x] = status[x] /\ parent'[x] = parent[x]
  <2>1. x # r
    BY <1>1, InsertIsFresh DEF Insert
  <2> QED
    BY <1>1, <2>1 DEF Insert, Types, dbVars
<1>2. ASSUME NEW r \in Reqs, Delete(r)
      PROVE  /\ status'[x] # "free" /\ parent'[x] = parent[x]
             /\ status[x] = "gone" => status'[x] = "gone"
  BY <1>2 DEF Delete
<1>3. TableOf(x)' = TableOf(x)
  <2>1. CASE x \in Stored
    BY <2>1 DEF TableOf
  <2>2. CASE x \notin Stored
    <3>1. x \in Reqs /\ job[x].op # "none"
      BY <2>2 DEF Ids, NotInsertedYet, Inserting
    <3>2. job'[x] = job[x]
      BY <3>1, JobsKept
    <3> QED
      BY <2>2, <3>2 DEF TableOf
  <2> QED
    BY <2>1, <2>2
<1> QED
  BY <1>1, <1>2, <1>3, RowsFrame

LEMMA KnownKept ==
    ASSUME Types, AtStep, NotInsertedYet, [Next]_vars,
           NEW table, NEW x \in Known(table)
    PROVE  /\ x \in Ids
           /\ status'[x] # "free"
           /\ table = IF x \in Stored THEN StoredTable[x] ELSE InsertTable(job'[x].op)
BY RowsKept DEF Known, TableOf

-----------------------------------------------------------------------------
(* Types.                                                                  *)

LEMMA QuoteType ==
    ASSUME Types, NEW S \in SUBSET Ids
    PROVE  Quote(S) \in SUBSET Quotes
BY DEF Quote, Quotes, Types

LEMMA ChildrenType == \A x : Children(x) \in SUBSET Ids
BY DEF Children

(* getNoteId finds the id of a note.                                       *)
LEMMA NoteIdFact ==
    ASSUME Types, AtStep, Trees, Targets, NEW r \in Reqs, At(r, {"noteid"}),
           NoteIdFound(job[r].target)
    PROVE  (IF TargetTable(job[r].op) = "checklists"
            THEN parent[job[r].target] ELSE parent[parent[job[r].target]]) \in Ids
<1> DEFINE op == job[r].op
           x == job[r].target
<1>1. op \in AllOps /\ Program(op)[pc[r]] = "noteid" /\ pc[r] \in DOMAIN Program(op)
  BY DEF At, Running, Step, AtStep, Types
<1>2. TargetTable(op) \in {"checklists", "checklist_items"}
  BY <1>1, ProgramFacts
<1>3. x # None /\ x \in Ids /\ status[x] # "free"
  BY DEF NoteIdFound, Live, Types
<1>4. x \in Known(TargetTable(op))
  BY <1>1, <1>3 DEF Targets, AllOps
<1>5. CASE TargetTable(op) = "checklists"
  BY <1>3, <1>4, <1>5 DEF Trees, Known
<1>6. CASE TargetTable(op) = "checklist_items"
  <2>1. parent[x] \in Known("checklists")
    BY <1>3, <1>4, <1>6 DEF Trees, Known
  <2>2. parent[parent[x]] \in Known("notes")
    BY <2>1 DEF Trees, Known
  <2> QED
    BY <1>6, <2>2 DEF Known
<1> QED
  BY <1>2, <1>5, <1>6

LEMMA ServeTypes ==
    ASSUME Types, AtStep, Trees, Targets, NEW r \in Reqs, Serve(r),
           pc' \in [Reqs -> 0 .. 9], answer' \in [Reqs -> {"none"} \cup Codes]
    PROVE  Types'
<1> USE DEF dbVars, textVars, syncVars
<1>1. CASE Find(r)
  BY <1>1 DEF Find, Types
<1>2. CASE ListFiles(r)
  BY <1>2 DEF ListFiles, Types
<1>3. CASE GetNoteId(r)
  <2>1. note' \in [Reqs -> Ids \cup {None}]
    BY <1>3, NoteIdFact DEF GetNoteId, Types
  <2> QED
    BY <1>3, <2>1 DEF GetNoteId, Types
<1>4. CASE Insert(r)
  <2>1. r \in Ids /\ {<<r, "insert">>} \in SUBSET Writes
    BY DEF Ids, Writes
  <2>2. job[r].target \in Ids \cup {None}
    BY DEF Types
  <2>3. CASE ForeignKeyHolds(job[r].target)
    <3>1. status' \in [Ids -> {"free", "live", "gone"}]
      BY <1>4, <2>1, <2>3 DEF Insert, Types
    <3>2. parent' \in [Ids -> Ids \cup {None}]
      BY <1>4, <2>1, <2>2, <2>3 DEF Insert, Types
    <3>3. writes' \in [Ids -> SUBSET Writes]
      BY <1>4, <2>1, <2>3 DEF Insert, Types
    <3>4. note' \in [Reqs -> Ids \cup {None}]
      <4>1. (IF job[r].op = "note_post" THEN r ELSE note[r]) \in Ids \cup {None}
        BY <2>1 DEF Types
      <4>2. note' = [note EXCEPT ![r] = IF job[r].op = "note_post" THEN r ELSE note[r]]
        BY <1>4, <2>3 DEF Insert
      <4> QED
        BY <4>1, <4>2 DEF Types
    <3> QED
      BY <1>4, <3>1, <3>2, <3>3, <3>4 DEF Insert, Types
  <2>4. CASE ~ForeignKeyHolds(job[r].target)
    BY <1>4, <2>4 DEF Insert, Types
  <2> QED
    BY <2>3, <2>4
<1>5. CASE Update(r)
  <2>1. Step(r) \in Columns
    BY <1>5 DEF Update, At
  <2>2. <<r, Step(r)>> \in Writes
    BY <2>1 DEF Writes
  <2>3. writes' \in [Ids -> SUBSET Writes]
    <3>1. CASE Step(r) \in job[r].fields /\ Live(job[r].target)
      <4>1. job[r].target \in Ids
        BY <3>1 DEF Live, Types
      <4>2. writes[job[r].target] \cup {<<r, Step(r)>>} \in SUBSET Writes
        BY <2>2, <4>1 DEF Types
      <4>3. writes' = [writes EXCEPT ![job[r].target] =
                           writes[job[r].target] \cup {<<r, Step(r)>>}]
        BY <1>5, <3>1 DEF Update
      <4> QED
        BY <4>2, <4>3 DEF Types
    <3>2. CASE ~(Step(r) \in job[r].fields /\ Live(job[r].target))
      BY <1>5, <3>2 DEF Update, Types
    <3> QED
      BY <3>1, <3>2
  <2> QED
    BY <1>5, <2>3 DEF Update, Types
<1>6. CASE Delete(r)
  BY <1>6 DEF Delete, Types
<1>7. CASE ReadHead(r)
  <2>1. text' \in [Reqs -> SUBSET Quotes]
    <3>1. CASE Live(note[r])
      <4>1. {note[r]} \in SUBSET Ids
        BY <3>1 DEF Live, Types
      <4>2. Quote({note[r]}) \in SUBSET Quotes
        BY <4>1, QuoteType
      <4> QED
        BY <1>7, <3>1, <4>2 DEF ReadHead, Types
    <3>2. CASE ~Live(note[r])
      BY <1>7, <3>2 DEF ReadHead, Types
    <3> QED
      BY <3>1, <3>2
  <2> QED
    BY <1>7, <2>1 DEF ReadHead, Types
<1>8. CASE ReadLists(r)
  <2>1. Quote(Children(note[r])) \in SUBSET Quotes
    BY ChildrenType, QuoteType
  <2>2. text' \in [Reqs -> SUBSET Quotes] /\ todo' \in [Reqs -> SUBSET Ids]
    BY <1>8, <2>1, ChildrenType DEF ReadLists, Types
  <2> QED
    BY <1>8, <2>2 DEF ReadLists, Types
<1>9. CASE ReadItems(r)
  <2>1. \A c : Quote(Children(c)) \in SUBSET Quotes
    BY ChildrenType, QuoteType
  <2>2. text' \in [Reqs -> SUBSET Quotes] /\ todo' \in [Reqs -> SUBSET Ids]
    <3>1. CASE UNCHANGED textVars
      BY <3>1 DEF Types
    <3>2. ASSUME NEW c \in todo[r],
                 text' = [text EXCEPT ![r] = @ \cup Quote(Children(c))],
                 todo' = [todo EXCEPT ![r] = Visited(@, c)]
          PROVE  text' \in [Reqs -> SUBSET Quotes] /\ todo' \in [Reqs -> SUBSET Ids]
      <4>1. text[r] \cup Quote(Children(c)) \in SUBSET Quotes
        BY <2>1 DEF Types
      <4>2. Visited(todo[r], c) \in SUBSET Ids
        BY DEF Visited, Types
      <4> QED
        BY <3>2, <4>1, <4>2 DEF Types
    <3> QED
      BY <1>9, <3>1, <3>2 DEF ReadItems
  <2> QED
    BY <1>9, <2>2 DEF ReadItems, Types
<1>10. CASE Send(r)
  <2>1. KindOf(job[r].op) \in {"add", "update", "delete"}
    BY DEF KindOf
  <2>2. text' \in [Reqs -> SUBSET Quotes]
    BY <1>10 DEF Send, Types
  <2>3. task' \in [Reqs -> [kind : {"none", "add", "update", "delete"},
                            note : Ids \cup {None}, text : SUBSET Quotes,
                            state : {"none", "pending", "delivered", "failed", "lost"}]]
    BY <1>10, <2>1 DEF Send, Types
  <2> QED
    BY <1>10, <2>2, <2>3 DEF Send, Types
<1> QED
  BY <1>1, <1>2, <1>3, <1>4, <1>5, <1>6, <1>7, <1>8, <1>9, <1>10 DEF Serve

LEMMA TypesInvariant ==
    ASSUME Types, AtStep, Trees, Targets, [Next]_vars
    PROVE  Types'
<1> USE DEF dbVars, textVars, syncVars
<1>1. pc' \in [Reqs -> 0 .. 9] /\ answer' \in [Reqs -> {"none"} \cup Codes]
  BY AtStepInvariant
<1>2. CASE \E r \in Reqs : Receive(r)
  <2> PICK r \in Reqs : Receive(r)
    BY <1>2
  <2>1. PICK op \in AllOps, x \in Ids \cup {None}, f \in SUBSET Columns :
          /\ job' = [job EXCEPT ![r] = [op |-> op, target |-> x, fields |-> f,
                         after |-> Answered, ended |-> Ended]]
          /\ note' = [note EXCEPT ![r] =
                IF op \in {"note_patch", "note_delete", "checklist_post"} THEN x ELSE None]
    BY OpsAssumption DEF Receive, Known, FieldsOf, Columns
  <2>2. job' \in [Reqs -> [op : AllOps \cup {"none"}, target : Ids \cup {None},
                           fields : SUBSET Columns, after : SUBSET Reqs, ended : SUBSET Reqs]]
    BY <2>1 DEF Types, Answered, Ended
  <2>3. note' \in [Reqs -> Ids \cup {None}]
    BY <2>1 DEF Types
  <2> QED
    BY <1>1, <2>2, <2>3 DEF Receive, Types
<1>3. CASE \E r \in Reqs : Serve(r)
  BY <1>1, <1>3, ServeTypes
<1>4. CASE \E r \in Reqs : Throw(r)
  BY <1>1, <1>4 DEF Throw, Types
<1>5. CASE \E r \in Reqs : RunTask(r)
  <2> PICK r \in Reqs : RunTask(r)
    BY <1>5
  <2>1. CASE Deliver(r)
    <3>1. task[r].text \in SUBSET Quotes
      BY DEF Types
    <3>2. index' \in [Ids -> SUBSET Quotes]
      BY <2>1, <3>1 DEF Deliver, Types
    <3>3. task' \in [Reqs -> [kind : {"none", "add", "update", "delete"},
                              note : Ids \cup {None}, text : SUBSET Quotes,
                              state : {"none", "pending", "delivered", "failed", "lost"}]]
      BY <2>1 DEF Deliver, Types
    <3> QED
      BY <1>1, <2>1, <3>2, <3>3 DEF Deliver, Types
  <2>2. CASE CallFails(r)
    <3>1. task' \in [Reqs -> [kind : {"none", "add", "update", "delete"},
                              note : Ids \cup {None}, text : SUBSET Quotes,
                              state : {"none", "pending", "delivered", "failed", "lost"}]]
      BY <2>2 DEF CallFails, Types
    <3> QED
      BY <1>1, <2>2, <3>1 DEF CallFails, Types
  <2> QED
    BY <2>1, <2>2 DEF RunTask
<1>6. CASE Restart
  <2>1. task' \in [Reqs -> [kind : {"none", "add", "update", "delete"},
                            note : Ids \cup {None}, text : SUBSET Quotes,
                            state : {"none", "pending", "delivered", "failed", "lost"}]]
    <3>1. ASSUME NEW q \in Reqs
          PROVE  [task[q] EXCEPT !.state = "lost"] \in
                     [kind : {"none", "add", "update", "delete"},
                      note : Ids \cup {None}, text : SUBSET Quotes,
                      state : {"none", "pending", "delivered", "failed", "lost"}]
      BY DEF Types
    <3>2. task' = [q \in Reqs |-> IF task[q].state = "pending"
                                  THEN [task[q] EXCEPT !.state = "lost"] ELSE task[q]]
      BY <1>6 DEF Restart
    <3> QED
      BY <3>1, <3>2 DEF Types
  <2> QED
    BY <1>1, <1>6, <2>1 DEF Restart, Types
<1>7. CASE UNCHANGED vars
  BY <1>7 DEF vars, Types
<1> QED
  BY <1>2, <1>3, <1>4, <1>5, <1>6, <1>7 DEF Next, Rest

-----------------------------------------------------------------------------
(* Ids, trees and targets.                                                 *)

LEMMA NotInsertedYetInvariant ==
    ASSUME Types, AtStep, NotInsertedYet, [Next]_vars
    PROVE  NotInsertedYet'
<1> USE DEF dbVars, textVars, syncVars
<1>1. CASE \E r \in Reqs : Receive(r)
  <2> PICK r \in Reqs : Receive(r)
    BY <1>1
  <2>1. job[r].op = "none" /\ status[r] = "free"
    BY DEF Receive, AtStep, NotInsertedYet, Inserting, Types, Ids
  <2>2. UNCHANGED <<status, answer>> /\ \A q \in Reqs : q # r => job'[q] = job[q] /\ pc'[q] = pc[q]
    BY DEF Receive, Types
  <2> QED
    BY <2>1, <2>2 DEF NotInsertedYet, Running
<1>2. ASSUME NEW r \in Reqs, Serve(r) \/ Throw(r)
      PROVE  NotInsertedYet'
  <2>1. job' = job /\ Running(r)
    BY <1>2, ServeMoves
  <2>2. /\ \A q \in Reqs : pc'[q] >= pc[q]
        /\ \A q \in Reqs : q # r => pc'[q] = pc[q] /\ answer'[q] = answer[q]
    <3>1. CASE UNCHANGED <<pc, answer>>
      <4>1. \A q \in Reqs : pc[q] \in Nat
        BY PcType
      <4> QED
        BY <3>1, <4>1
    <3> QED
      BY <1>2, <2>1, <3>1, ServeMoves, Moves
  <2>3. CASE Insert(r)
    <3>1. status[r] = "free" /\ job[r].op \in Inserting
      BY <2>3, InsertIsFresh DEF Insert
    <3>2. Program(job[r].op)[pc[r]] = "insert" /\ pc[r] \in DOMAIN Program(job[r].op)
      BY <2>3 DEF Insert, At, Running, Step, AtStep
    <3>3. job[r].op \in AllOps
      BY <2>1 DEF Running, AtStep, Types
    <3>4. answer'[r] = "none" => pc'[r] = pc[r] + 1
      BY <2>1, <2>3, Moves DEF Insert, AdvanceOrThrow, Codes
    <3>5. \A k \in DOMAIN Program(job[r].op) :
             k >= pc[r] + 1 => Program(job[r].op)[k] # "insert"
      BY <3>2, <3>3, ProgramFacts DEF Types
    <3>6. \A q \in Reqs : q # r => status'[q] = status[q]
      <4>1. UNCHANGED status \/ status' = [status EXCEPT ![r] = "live"]
        BY <2>3 DEF Insert
      <4> QED
        BY <4>1 DEF Types, Ids
    <3>7. ~ (Running(r)' /\ \E k \in DOMAIN Program(job'[r].op) :
                 k >= pc'[r] /\ Program(job'[r].op)[k] = "insert")
      BY <2>1, <3>4, <3>5 DEF Running
    <3> QED
      BY <2>1, <2>2, <3>1, <3>6, <3>7 DEF NotInsertedYet, Running
  <2>4. CASE \A x \in Ids : status'[x] # "free" => status[x] # "free"
    <3>1. \A q \in Reqs : status'[q] # "free" => status[q] # "free"
      BY <2>4 DEF Ids
    <3>2. \A q \in Reqs : Running(q)' => Running(q)
      BY <2>1, <2>2 DEF Running
    <3>3. \A q \in Reqs : \A k \in DOMAIN Program(job[q].op) : k >= pc'[q] => k >= pc[q]
      <4> TAKE q \in Reqs
      <4>1. CASE q = r
        <5>1. DOMAIN Program(job[q].op) \subseteq Nat
          <6>1. job[q].op \in AllOps
            BY <2>1, <4>1 DEF Running, AtStep, Types
          <6> QED
            BY <6>1, ProgramFacts
        <5>2. pc[q] \in Nat /\ pc'[q] \in Nat /\ pc'[q] >= pc[q]
          <6>1. pc' \in [Reqs -> 0 .. 9]
            BY AtStepInvariant
          <6>2. pc \in [Reqs -> 0 .. 9]
            BY DEF Types
          <6> QED
            BY <2>2, <6>1, <6>2
        <5> QED
          BY <5>1, <5>2
      <4>2. CASE q # r
        BY <2>2, <4>2
      <4> QED
        BY <4>1, <4>2
    <3> QED
      BY <2>1, <3>1, <3>2, <3>3 DEF NotInsertedYet
  <2>5. CASE Delete(r)
    BY <2>4, <2>5 DEF Delete
  <2>6. CASE UNCHANGED <<status, parent>>
    BY <2>4, <2>6
  <2> QED
    BY <1>2, <2>3, <2>5, <2>6
       DEF Serve, Find, ListFiles, GetNoteId, Update, ReadHead, ReadLists, ReadItems, Send, Throw
<1>3. CASE \E r \in Reqs : RunTask(r)
  BY <1>3 DEF RunTask, Deliver, CallFails, NotInsertedYet, Running
<1>4. CASE Restart
  BY <1>4 DEF Restart, NotInsertedYet, Running, Types, Codes
<1>5. CASE UNCHANGED vars
  BY <1>5 DEF vars, NotInsertedYet, Running
<1> QED
  BY <1>1, <1>2, <1>3, <1>4, <1>5 DEF Next, Rest

LEMMA TargetsInvariant ==
    ASSUME Types, AtStep, NotInsertedYet, Targets, [Next]_vars
    PROVE  Targets'
<1> DEFINE InTable(x, table) ==
             /\ x \in Ids
             /\ status'[x] # "free"
             /\ table = IF x \in Stored THEN StoredTable[x] ELSE InsertTable(job'[x].op)
<1>1. SUFFICES ASSUME NEW r \in Reqs, job'[r].op # "none"
               PROVE  IF job'[r].op = "note_post"
                      THEN job'[r].target = None
                      ELSE InTable(job'[r].target, TargetTable(job'[r].op))
  BY DEF Targets, Known, TableOf
<1>2. ASSUME NEW table, NEW x \in Known(table)
      PROVE  InTable(x, table)
  BY <1>2, KnownKept
<1> HIDE DEF InTable
<1>3. CASE job[r].op # "none"
  <2>1. job'[r] = job[r]
    BY <1>3, JobsKept
  <2> QED
    BY <1>2, <1>3, <2>1 DEF Targets
<1>4. CASE job[r].op = "none"
  <2>1. Receive(r)
    <3>1. PICK q \in Reqs : Receive(q)
      BY <1>1, <1>4, JobsFrame
    <3>2. q = r
      BY <1>1, <1>4, <3>1 DEF Receive, Types
    <3> QED
      BY <3>1, <3>2
  <2>2. PICK op \in Ops :
        \E x \in IF op = "note_post" THEN {None} ELSE Known(TargetTable(op)) :
        \E f \in FieldsOf(op) :
          job' = [job EXCEPT ![r] = [op |-> op, target |-> x, fields |-> f,
                         after |-> Answered, ended |-> Ended]]
    BY <2>1 DEF Receive
  <2>3. PICK x \in IF op = "note_post" THEN {None} ELSE Known(TargetTable(op)) :
        \E f \in FieldsOf(op) :
          job' = [job EXCEPT ![r] = [op |-> op, target |-> x, fields |-> f,
                         after |-> Answered, ended |-> Ended]]
    BY <2>2
  <2>4. job'[r].op = op /\ job'[r].target = x
    BY <2>3 DEF Types
  <2> QED
    BY <1>2, <2>3, <2>4
<1> QED
  BY <1>3, <1>4

LEMMA TreesInvariant ==
    ASSUME Types, AtStep, NotInsertedYet, Trees, Targets, [Next]_vars
    PROVE  Trees'
<1> DEFINE Table(x) == IF x \in Stored THEN StoredTable[x] ELSE InsertTable(job'[x].op)
           InTable(x, table) == x \in Ids /\ status'[x] # "free" /\ table = Table(x)
<1>1. SUFFICES ASSUME NEW x \in Ids, status'[x] # "free"
               PROVE  \/ Table(x) = "notes" /\ parent'[x] = None
                      \/ Table(x) = "checklists" /\ InTable(parent'[x], "notes")
                      \/ Table(x) = "checklist_items" /\ InTable(parent'[x], "checklists")
  BY DEF Trees, Known, TableOf
<1>2. ASSUME NEW table, NEW y \in Known(table)
      PROVE  InTable(y, table)
  BY <1>2, KnownKept
<1>3. CASE status[x] # "free"
  <2>1. parent'[x] = parent[x] /\ Table(x) = TableOf(x)
    <3>1. x \in Known(TableOf(x))
      BY <1>3 DEF Known
    <3>2. InTable(x, TableOf(x))
      BY <1>2, <3>1
    <3> QED
      BY <1>3, <3>2, RowsKept
  <2> QED
    BY <1>2, <1>3, <2>1 DEF Trees
<1>4. CASE status[x] = "free"
  <2>1. PICK r \in Reqs : Insert(r)
    BY <1>1, <1>4, RowsFrame DEF Delete
  <2>2. /\ ForeignKeyHolds(job[r].target)
        /\ status' = [status EXCEPT ![r] = "live"]
        /\ parent' = [parent EXCEPT ![r] = job[r].target]
    BY <1>1, <1>4, <2>1 DEF Insert, dbVars
  <2>3. x = r
    BY <1>1, <1>4, <2>2 DEF Types
  <2>4. job' = job /\ job[r].op \in Inserting
    BY <2>1, InsertIsFresh DEF Insert
  <2>5. x \notin Stored
    BY <2>3, IdsAssumption
  <2>6. parent'[x] = job[r].target
    BY <2>2, <2>3 DEF Types
  <2>7. Table(x) = InsertTable(job[r].op)
    BY <2>3, <2>4, <2>5
  <2>8. CASE job[r].op = "note_post"
    BY <2>6, <2>7, <2>8 DEF Targets, InsertTable
  <2>9. CASE job[r].op = "checklist_post"
    <3>1. job[r].target \in Known("notes")
      BY <2>9 DEF Targets, TargetTable
    <3> QED
      BY <1>2, <2>6, <2>7, <2>9, <3>1 DEF InsertTable
  <2>10. CASE job[r].op = "item_post"
    <3>1. job[r].target \in Known("checklists")
      BY <2>10 DEF Targets, TargetTable
    <3> QED
      BY <1>2, <2>6, <2>7, <2>10, <3>1 DEF InsertTable
  <2> QED
    BY <2>4, <2>8, <2>9, <2>10 DEF Inserting
<1> QED
  BY <1>3, <1>4

-----------------------------------------------------------------------------
(* What the requests know.                                                 *)

(* The target of a handler other than note::post is a row of its table.   *)
LEMMA TargetKnown ==
    ASSUME Targets, NEW r \in Reqs, job[r].op # "none", job[r].op # "note_post"
    PROVE  /\ job[r].target \in Known(TargetTable(job[r].op))
           /\ job[r].target \in Ids
           /\ status[job[r].target] # "free"
           /\ job[r].target # None
BY IdsAssumption DEF Targets, Known

(* Which steps change a note_id, and to what.                              *)
LEMMA NoteIdChanges ==
    ASSUME Types, AtStep, NEW r \in Reqs, Serve(r) \/ Throw(r)
    PROVE  \/ GetNoteId(r) /\ NoteIdFound(job[r].target)
           \/ Insert(r) /\ ForeignKeyHolds(job[r].target)
           \/ /\ note' = note
              /\ At(r, {"noteid", "insert"}) => pc' = pc
<1> USE DEF At, Columns
<1>1. CASE Throw(r)
  BY <1>1 DEF Throw, Answer
<1>2. CASE Find(r) \/ ListFiles(r) \/ Update(r) \/ Delete(r)
  BY <1>2 DEF Find, ListFiles, Update, Delete
<1>3. CASE ReadHead(r) \/ ReadLists(r) \/ ReadItems(r) \/ Send(r)
  BY <1>3 DEF ReadHead, ReadLists, ReadItems, Send
<1>4. CASE GetNoteId(r) \/ Insert(r)
  BY <1>4 DEF GetNoteId, Insert, Answer
<1> QED
  BY <1>1, <1>2, <1>3, <1>4 DEF Serve

LEMMA NoteIdsInvariant ==
    ASSUME Types, AtStep, NotInsertedYet, Trees, Targets, NoteIds, [Next]_vars
    PROVE  NoteIds'
<1>1. SUFFICES ASSUME NEW r \in Reqs, job'[r].op # "none"
               PROVE  /\ job'[r].op \in NoteKnownAtStart => note'[r] = job'[r].target
                      /\ \A k \in 1 .. pc'[r] - 1 :
                            /\ k \in DOMAIN Program(job'[r].op)
                            /\ Program(job'[r].op)[k] \in {"noteid", "insert"}
                            => note'[r] # None
  BY DEF NoteIds
<1>2. CASE Receive(r)
  <2>1. pc'[r] = 1
    BY <1>2 DEF Receive, Types
  <2>2. job'[r].op \in NoteKnownAtStart => note'[r] = job'[r].target
    BY <1>2 DEF Receive, Types, NoteKnownAtStart
  <2>3. 1 .. pc'[r] - 1 = {}
    BY <2>1
  <2> QED
    BY <2>2, <2>3
<1>3. CASE Serve(r) \/ Throw(r)
  <2> DEFINE op == job[r].op
             P == Program(op)
  <2>1. job' = job /\ Running(r) /\ pc'[r] \in {pc[r], pc[r] + 1}
    BY <1>3, ServeMoves, Moves
  <2>2. op \in AllOps /\ op # "none" /\ pc[r] \in 1 .. 9
    BY <2>1 DEF Running, AtStep, Types, AllOps
  <2>3. CASE note' = note /\ (At(r, {"noteid", "insert"}) => pc' = pc)
    <3>1. ASSUME NEW k \in 1 .. pc'[r] - 1, k \in DOMAIN P, P[k] \in {"noteid", "insert"}
          PROVE  k \in 1 .. pc[r] - 1
      <4>1. CASE k = pc[r]
        BY <2>1, <2>2, <2>3, <3>1, <4>1 DEF At, Step
      <4>2. CASE k # pc[r]
        BY <2>1, <2>2, <4>2
      <4> QED
        BY <4>1, <4>2
    <3> QED
      BY <2>1, <2>2, <2>3, <3>1 DEF NoteIds
  <2>4. CASE GetNoteId(r) /\ NoteIdFound(job[r].target)
    <3>1. note'[r] \in Ids
      BY <2>4, NoteIdFact DEF GetNoteId, Types
    <3>2. op \notin NoteKnownAtStart
      <4>1. P[pc[r]] = "noteid" /\ pc[r] \in DOMAIN P
        BY <2>1, <2>2, <2>4 DEF GetNoteId, At, Step, Running, AtStep
      <4>2. TargetTable(op) \in {"checklists", "checklist_items"}
        BY <2>2, <4>1, ProgramFacts
      <4> QED
        BY <4>2 DEF NoteKnownAtStart, TargetTable
    <3> QED
      BY <2>1, <3>1, <3>2, IdsAssumption
  <2>5. CASE Insert(r) /\ ForeignKeyHolds(job[r].target)
    <3>1. note'[r] = IF op = "note_post" THEN r ELSE note[r]
      BY <2>5 DEF Insert, Types
    <3>2. note'[r] # None
      <4>1. CASE op = "note_post"
        BY <3>1, <4>1, IdsAssumption DEF Ids
      <4>2. CASE op \in NoteKnownAtStart
        BY <2>2, <3>1, <4>2, TargetKnown DEF NoteIds, NoteKnownAtStart
      <4>3. CASE op \notin {"note_post", "checklist_post"}
        <5>1. P[pc[r]] = "insert" /\ pc[r] \in DOMAIN P
          BY <2>1, <2>2, <2>5 DEF Insert, At, Step, Running, AtStep
        <5>2. PICK j \in 1 .. pc[r] - 1 : P[j] = "noteid"
          BY <2>2, <4>3, <5>1, ProgramFacts
        <5>3. j \in DOMAIN P
          BY <2>2, <5>1, <5>2, ProgramFacts
        <5> QED
          BY <2>2, <3>1, <4>3, <5>2, <5>3 DEF NoteIds
      <4> QED
        BY <4>1, <4>2, <4>3 DEF NoteKnownAtStart
    <3> QED
      BY <2>1, <2>2, <3>1, <3>2 DEF NoteIds, NoteKnownAtStart
  <2> QED
    BY <1>3, <2>3, <2>4, <2>5, NoteIdChanges
<1>4. CASE job'[r] = job[r] /\ pc'[r] = pc[r] /\ note'[r] = note[r]
  BY <1>1, <1>4 DEF NoteIds
<1>5. ASSUME NEW q \in Reqs, q # r, Receive(q) \/ Serve(q) \/ Throw(q)
      PROVE  job'[r] = job[r] /\ pc'[r] = pc[r] /\ note'[r] = note[r]
  <2>1. CASE Receive(q)
    BY <1>5, <2>1 DEF Receive, Types
  <2>2. CASE Serve(q) \/ Throw(q)
    <3>1. job' = job /\ pc'[r] = pc[r]
      BY <1>5, <2>2, ServeMoves, Moves
    <3>2. note'[r] = note[r]
      BY <1>5, <2>2, NoteIdChanges DEF GetNoteId, Insert, Types
    <3> QED
      BY <3>1, <3>2
  <2> QED
    BY <1>5, <2>1, <2>2
<1>6. ASSUME NEW q \in Reqs, RunTask(q)
      PROVE  job' = job /\ pc' = pc /\ note' = note
  BY <1>6 DEF RunTask, Deliver, CallFails
<1>7. CASE Restart \/ UNCHANGED vars
  BY <1>4, <1>7 DEF Restart, vars
<1> QED
  BY <1>2, <1>3, <1>4, <1>5, <1>6, <1>7 DEF Next, Rest

LEMMA DeletesInvariant ==
    ASSUME Types, AtStep, NotInsertedYet, Targets, Deletes, [Next]_vars
    PROVE  Deletes'
<1>1. SUFFICES ASSUME NEW r \in Reqs, job'[r].op # "none",
                      NEW k \in 1 .. pc'[r] - 1,
                      k \in DOMAIN Program(job'[r].op),
                      Program(job'[r].op)[k] = "delete"
               PROVE  status'[job'[r].target] = "gone"
  BY DEF Deletes
<1>2. CASE Receive(r)
  <2>1. pc'[r] = 1
    BY <1>2 DEF Receive, Types
  <2> QED
    BY <1>1, <2>1
<1>3. ASSUME job'[r] = job[r], k \in 1 .. pc[r] - 1
      PROVE  status'[job'[r].target] = "gone"
  <2>1. status[job[r].target] = "gone"
    BY <1>1, <1>3 DEF Deletes
  <2>2. Program(job[r].op)[k] = "delete" /\ k \in DOMAIN Program(job[r].op)
    BY <1>1, <1>3
  <2>3. job[r].op \in AllOps
    BY <1>1, <1>3 DEF Types
  <2>4. job[r].op # "note_post"
    BY <2>2, <2>3, ProgramFacts DEF Deleting
  <2>5. job[r].target \in Ids
    BY <1>1, <1>3, <2>4, TargetKnown
  <2> QED
    BY <1>3, <2>1, <2>5, RowsKept
<1>4. CASE Serve(r) \/ Throw(r)
  <2>1. job' = job /\ Running(r) /\ pc'[r] \in {pc[r], pc[r] + 1}
    BY <1>4, ServeMoves, Moves
  <2>2. job[r].op \in AllOps /\ pc[r] \in 1 .. 9
    BY <2>1 DEF Running, AtStep, Types
  <2>3. CASE k = pc[r] /\ pc' # pc
    <3>1. Step(r) = "delete"
      BY <1>1, <2>1, <2>3 DEF Step
    <3>2. Delete(r)
      BY <1>4, <2>3, <3>1
         DEF Serve, Throw, Answer, At, Columns,
             Find, ListFiles, GetNoteId, Insert, Update, ReadHead, ReadLists, ReadItems, Send
    <3>3. job[r].op # "note_post" /\ job[r].op # "none"
      BY <1>1, <2>1, <2>2, ProgramFacts DEF Deleting
    <3>4. job[r].target \in Ids /\ status[job[r].target] # "free"
      BY <3>3, TargetKnown
    <3>5. status'[job[r].target] = "gone"
      BY <3>2, <3>4 DEF Delete, Cascade, Types
    <3> QED
      BY <2>1, <3>5
  <2>4. CASE ~ (k = pc[r] /\ pc' # pc)
    <3>1. k \in 1 .. pc[r] - 1
      BY <2>1, <2>2, <2>4
    <3> QED
      BY <1>3, <2>1, <3>1
  <2> QED
    BY <2>3, <2>4
<1>5. ASSUME NEW q \in Reqs, q # r, Receive(q) \/ Serve(q) \/ Throw(q)
      PROVE  job'[r] = job[r] /\ pc'[r] = pc[r]
  <2>1. CASE Receive(q)
    BY <1>5, <2>1 DEF Receive, Types
  <2>2. CASE Serve(q) \/ Throw(q)
    BY <1>5, <2>2, ServeMoves, Moves
  <2> QED
    BY <1>5, <2>1, <2>2
<1>6. ASSUME NEW q \in Reqs, RunTask(q)
      PROVE  job' = job /\ pc' = pc
  BY <1>6 DEF RunTask, Deliver, CallFails
<1>7. CASE Restart \/ UNCHANGED vars
  BY <1>3, <1>7 DEF Restart, vars
<1> QED
  BY <1>2, <1>3, <1>4, <1>5, <1>6, <1>7 DEF Next, Rest

-----------------------------------------------------------------------------
(* No orphan row.                                                          *)

(* What a DELETE leaves has its parent left: had the cascade taken the    *)
(* parent, it would have taken the row with it, for a row has at most two *)
(* rows above it.                                                          *)
LEMMA CascadeTakesAll ==
    ASSUME Types, Trees, NoOrphanRow,
           NEW t \in Ids, NEW x \in Ids, status[x] = "live", x \notin Cascade(t),
           parent[x] # None
    PROVE  status[parent[x]] = "live" /\ parent[x] \notin Cascade(t)
<1> DEFINE p == parent[x]
<1>1. p \in Ids /\ status[p] = "live"
  BY DEF NoOrphanRow, Types
<1>2. x \in Children(p)
  BY DEF Children
<1>3. p # t /\ p \notin Children(t)
  BY <1>2 DEF Cascade
<1>4. ASSUME NEW y \in Children(t), p \in Children(y)
      PROVE  FALSE
  <2>1. y \in Ids /\ parent[p] = y /\ parent[y] = t
    BY <1>4 DEF Children
  <2>2. y # None /\ t # None
    BY <2>1, IdsAssumption
  <2>3. TableOf(p) # "checklist_items"
    BY <1>1 DEF Trees, Known
  <2>4. y \in Known("notes")
    BY <1>1, <2>1, <2>2, <2>3 DEF Trees
  <2> QED
    BY <2>1, <2>2, <2>4 DEF Trees, Known
<1> QED
  BY <1>1, <1>3, <1>4 DEF Cascade

LEMMA NoOrphanRowInvariant ==
    ASSUME Types, AtStep, NotInsertedYet, Trees, Targets, NoOrphanRow, [Next]_vars
    PROVE  NoOrphanRow'
<1>1. SUFFICES ASSUME NEW x \in Ids, status'[x] = "live", parent'[x] # None
               PROVE  status'[parent'[x]] = "live"
  BY DEF NoOrphanRow
<1>2. ASSUME NEW r \in Reqs, Insert(r)
      PROVE  status'[parent'[x]] = "live"
  <2>1. status[r] = "free"
    BY <1>2, InsertIsFresh DEF Insert
  <2>2. CASE UNCHANGED dbVars
    BY <1>1, <2>2 DEF dbVars, NoOrphanRow
  <2>3. CASE ~ UNCHANGED dbVars
    <3>1. /\ ForeignKeyHolds(job[r].target)
          /\ status' = [status EXCEPT ![r] = "live"]
          /\ parent' = [parent EXCEPT ![r] = job[r].target]
      BY <1>2, <2>3 DEF Insert
    <3>2. CASE x = r
      <4>1. parent'[x] = job[r].target
        BY <3>1, <3>2 DEF Types
      <4>2. job[r].target # r /\ status[job[r].target] = "live"
        BY <1>1, <2>1, <3>1, <4>1 DEF ForeignKeyHolds, Live
      <4> QED
        BY <1>1, <3>1, <4>1, <4>2 DEF Types
    <3>3. CASE x # r
      <4>1. status[x] = "live" /\ parent'[x] = parent[x]
        BY <1>1, <3>1, <3>3 DEF Types
      <4>2. status[parent[x]] = "live" /\ parent[x] # r /\ parent[x] \in Ids
        BY <1>1, <2>1, <4>1 DEF NoOrphanRow, Types
      <4> QED
        BY <3>1, <4>1, <4>2 DEF Types
    <3> QED
      BY <3>2, <3>3
  <2> QED
    BY <2>2, <2>3
<1>3. ASSUME NEW r \in Reqs, Delete(r)
      PROVE  status'[parent'[x]] = "live"
  <2> DEFINE t == job[r].target
  <2>1. t \in Ids
    <3>1. job[r].op \in AllOps /\ pc[r] \in DOMAIN Program(job[r].op)
          /\ Program(job[r].op)[pc[r]] = "delete"
      BY <1>3 DEF Delete, At, Running, Step, AtStep, Types
    <3>2. job[r].op # "note_post" /\ job[r].op # "none"
      BY <3>1, ProgramFacts DEF Deleting
    <3> QED
      BY <3>2, TargetKnown
  <2>2. status[x] = "live" /\ x \notin Cascade(t) /\ parent'[x] = parent[x]
    BY <1>1, <1>3 DEF Delete
  <2>3. status[parent[x]] = "live" /\ parent[x] \notin Cascade(t)
    BY <1>1, <2>1, <2>2, CascadeTakesAll
  <2>4. parent[x] \in Ids
    BY <1>1, <2>2 DEF Types
  <2> QED
    BY <1>3, <2>2, <2>3, <2>4 DEF Delete
<1>4. CASE UNCHANGED <<status, parent>>
  BY <1>1, <1>4 DEF NoOrphanRow
<1> QED
  BY <1>2, <1>3, <1>4, RowsFrame

-----------------------------------------------------------------------------
(* The AI service forgets only deleted notes.                              *)

(* Only Send fills in a task; afterwards its state alone changes.          *)
LEMMA TasksKept ==
    ASSUME Types, [Next]_vars, NEW r \in Reqs, ~ Send(r)
    PROVE  task'[r].kind = task[r].kind /\ task'[r].note = task[r].note
<1>1. task \in [Reqs -> [kind : {"none", "add", "update", "delete"},
                         note : Ids \cup {None}, text : SUBSET Quotes,
                         state : {"none", "pending", "delivered", "failed", "lost"}]]
  BY DEF Types
<1>2. ASSUME NEW q \in Reqs, Receive(q) \/ Throw(q)
      PROVE  task' = task
  BY <1>2 DEF Receive, Throw, syncVars
<1>3. ASSUME NEW q \in Reqs, Serve(q)
      PROVE  task' = task \/ Send(q)
  BY <1>3 DEF Serve, Find, ListFiles, GetNoteId, Insert, Update, Delete,
              ReadHead, ReadLists, ReadItems, syncVars
<1>4. ASSUME NEW q \in Reqs, Send(q)
      PROVE  task'[r] = task[r]
  <2>1. q # r
    BY <1>4
  <2> QED
    BY <1>1, <1>4, <2>1 DEF Send
<1>5. ASSUME NEW q \in Reqs, RunTask(q)
      PROVE  task'[r].kind = task[r].kind /\ task'[r].note = task[r].note
  <2>1. task' = [task EXCEPT ![q].state = "delivered"] \/ task' = [task EXCEPT ![q].state = "failed"]
    BY <1>5 DEF RunTask, Deliver, CallFails
  <2> QED
    BY <1>1, <2>1
<1>6. CASE Restart
  <2>1. task' = [q \in Reqs |-> IF task[q].state = "pending"
                                THEN [task[q] EXCEPT !.state = "lost"] ELSE task[q]]
    BY <1>6 DEF Restart
  <2> QED
    BY <1>1, <2>1
<1>7. CASE UNCHANGED vars
  BY <1>7 DEF vars
<1> QED
  BY <1>2, <1>3, <1>4, <1>5, <1>6, <1>7 DEF Next, Rest

LEMMA ForgetInvariant ==
    ASSUME Types, AtStep, NotInsertedYet, Targets, NoteIds, Deletes,
           ForgottenNamed, ForgetOnlyDeleted, [Next]_vars
    PROVE  ForgottenNamed' /\ ForgetOnlyDeleted'
<1>1. SUFFICES ASSUME NEW r \in Reqs, task'[r].kind = "delete"
               PROVE  task'[r].note \in Ids /\ status'[task'[r].note] = "gone"
  BY DEF ForgottenNamed, ForgetOnlyDeleted
<1>2. CASE ~ Send(r)
  <2>1. task[r].kind = "delete" /\ task'[r].note = task[r].note
    BY <1>1, <1>2, TasksKept
  <2>2. task[r].note \in Ids /\ status[task[r].note] = "gone"
    BY <2>1 DEF ForgottenNamed, ForgetOnlyDeleted
  <2> QED
    BY <2>1, <2>2, RowsKept
<1>3. CASE Send(r)
  <2> DEFINE op == job[r].op
             P == Program(op)
  <2>1. task'[r].kind = KindOf(op) /\ task'[r].note = note[r] /\ status' = status
    BY <1>3 DEF Send, Types, dbVars
  <2>2. op \in AllOps /\ pc[r] \in DOMAIN P /\ P[pc[r]] = "send"
    BY <1>3 DEF Send, At, Running, Step, AtStep, Types
  <2>3. op = "note_delete"
    BY <1>1, <2>1, <2>2 DEF KindOf, AllOps
  <2>4. PICK j \in 1 .. pc[r] - 1 : P[j] = "delete"
    BY <2>2, <2>3, ProgramFacts
  <2>5. j \in DOMAIN P
    BY <2>2, <2>4, ProgramFacts
  <2>6. status[job[r].target] = "gone"
    BY <2>3, <2>4, <2>5 DEF Deletes
  <2>7. note[r] = job[r].target
    BY <2>3 DEF NoteIds, NoteKnownAtStart
  <2>8. job[r].target \in Ids
    BY <2>3, TargetKnown
  <2> QED
    BY <2>1, <2>6, <2>7, <2>8
<1> QED
  BY <1>2, <1>3

-----------------------------------------------------------------------------
(* The invariant holds.                                                    *)

LEMMA InitIndInv == Init => IndInv
<1> SUFFICES ASSUME Init PROVE IndInv
  OBVIOUS
<1>1. Types
  <2>1. \A x \in Ids : Quote(Cascade(x)) \in SUBSET Quotes
    BY DEF Init, Quote, Quotes, Cascade, Children, Writes
  <2>2. index \in [Ids -> SUBSET Quotes]
    BY <2>1 DEF Init
  <2>3. /\ status \in [Ids -> {"free", "live", "gone"}]
        /\ writes \in [Ids -> SUBSET Writes]
        /\ pc \in [Reqs -> 0 .. 9]
        /\ answer \in [Reqs -> {"none"} \cup Codes]
        /\ note \in [Reqs -> Ids \cup {None}]
        /\ text \in [Reqs -> SUBSET Quotes]
        /\ todo \in [Reqs -> SUBSET Ids]
    BY DEF Init
  <2>4. parent \in [Ids -> Ids \cup {None}]
    BY StoredAssumption DEF Init, Ids
  <2>5. job \in [Reqs -> [op : AllOps \cup {"none"}, target : Ids \cup {None},
                          fields : SUBSET Columns, after : SUBSET Reqs, ended : SUBSET Reqs]]
    BY DEF Init, NoJob
  <2>6. task \in [Reqs -> [kind : {"none", "add", "update", "delete"},
                           note : Ids \cup {None}, text : SUBSET Quotes,
                           state : {"none", "pending", "delivered", "failed", "lost"}]]
    BY DEF Init, NoTask
  <2> QED
    BY <2>2, <2>3, <2>4, <2>5, <2>6 DEF Types
<1>2. \A r \in Reqs : pc[r] = 0 /\ job[r].op = "none" /\ task[r].kind = "none"
  BY DEF Init, NoJob, NoTask
<1>3. \A r \in Reqs : r \in Ids /\ status[r] = "free"
  BY IdsAssumption DEF Init, Ids
<1>4. \A x \in Ids : status[x] # "free" => x \in Stored
  BY DEF Init
<1>5. \A x \in Stored : x \in Ids /\ status[x] = "live" /\ parent[x] = StoredParent[x]
                        /\ TableOf(x) = StoredTable[x]
  BY DEF Init, Ids, TableOf
<1>6. AtStep /\ NotInsertedYet /\ Targets /\ NoteIds /\ Deletes
  BY <1>2, <1>3 DEF AtStep, NotInsertedYet, Targets, NoteIds, Deletes, Running
<1>7. Trees
  BY <1>4, <1>5, StoredAssumption DEF Trees, Known
<1>8. NoOrphanRow
  BY <1>4, <1>5, StoredAssumption DEF NoOrphanRow
<1>9. ForgottenNamed /\ ForgetOnlyDeleted
  BY <1>2 DEF ForgottenNamed, ForgetOnlyDeleted
<1> QED
  BY <1>1, <1>6, <1>7, <1>8, <1>9 DEF IndInv

LEMMA NextIndInv == IndInv /\ [Next]_vars => IndInv'
BY AtStepInvariant, TypesInvariant, NotInsertedYetInvariant, TreesInvariant,
   TargetsInvariant, NoteIdsInvariant, DeletesInvariant, NoOrphanRowInvariant,
   ForgetInvariant DEF IndInv

(* Every reachable state satisfies the inductive invariant.                *)
THEOREM Inductive == Spec => []IndInv
BY InitIndInv, NextIndInv, PTL DEF Spec

(* A handler has its note_id whenever it formats or sends.                 *)
LEMMA IndInvTypeOK == IndInv => TypeOK
<1> SUFFICES ASSUME IndInv PROVE TypeOK
  OBVIOUS
<1>1. ASSUME NEW r \in Reqs, At(r, {"head", "lists", "items", "send"})
      PROVE  note[r] # None
  <2> DEFINE op == job[r].op
             P == Program(op)
  <2>1. op \in AllOps /\ pc[r] \in DOMAIN P /\ P[pc[r]] \in {"head", "lists", "items", "send"}
    BY <1>1 DEF IndInv, At, Running, Step, AtStep, Types
  <2>2. op # "none"
    BY <2>1 DEF AllOps
  <2>3. CASE op \in NoteKnownAtStart
    BY <2>2, <2>3, TargetKnown DEF IndInv, NoteIds, NoteKnownAtStart
  <2>4. CASE op \notin NoteKnownAtStart
    <3>1. PICK j \in 1 .. pc[r] - 1 : P[j] \in {"noteid", "insert"}
      BY <2>1, <2>4, ProgramFacts
    <3>2. j \in DOMAIN P
      BY <2>1, <3>1, ProgramFacts
    <3> QED
      BY <2>2, <3>1, <3>2 DEF IndInv, NoteIds
  <2> QED
    BY <2>3, <2>4
<1>2. Types
  BY DEF IndInv
<1> QED
  BY <1>1, <1>2 DEF TypeOK, Types, Codes

(* Every variable keeps its type and no handler formats or sends without a *)
(* note_id, whatever the requests and the stored rows.                     *)
THEOREM TypeCorrect == Spec => []TypeOK
BY Inductive, IndInvTypeOK, PTL

(* No live checklist or item ever loses its parent: the cascade and the    *)
(* foreign key check of the INSERT together suffice.                       *)
THEOREM NoOrphans == Spec => []NoOrphanRow
<1>1. IndInv => NoOrphanRow
  BY DEF IndInv
<1> QED
  BY <1>1, Inductive, PTL

(* The AI service is never told to forget a note that is still there.      *)
THEOREM ForgetsOnlyDeleted == Spec => []ForgetOnlyDeleted
<1>1. IndInv => ForgetOnlyDeleted
  BY DEF IndInv
<1> QED
  BY <1>1, Inductive, PTL

-----------------------------------------------------------------------------
(* NoteSync implements RowStore.                                           *)

(* The row that a DELETE names is known.                                   *)
LEMMA DeleteTarget ==
    ASSUME Types, AtStep, Targets, NEW r \in Reqs, At(r, {"delete"})
    PROVE  job[r].target \in Ids
<1>1. job[r].op \in AllOps /\ pc[r] \in DOMAIN Program(job[r].op)
      /\ Program(job[r].op)[pc[r]] = "delete"
  BY DEF At, Running, Step, AtStep, Types
<1>2. job[r].op # "note_post" /\ job[r].op # "none"
  BY <1>1, ProgramFacts DEF Deleting
<1> QED
  BY <1>2, TargetKnown

(* An INSERT is one of the abstract store, or fails and changes no row.    *)
LEMMA InsertRefines ==
    ASSUME Types, AtStep, NotInsertedYet, NEW r \in Reqs, Insert(r)
    PROVE  Store!Next \/ UNCHANGED <<status, parent>>
<1> DEFINE t == job[r].target
<1>1. r \in Ids /\ status[r] = "free"
  BY InsertIsFresh DEF Insert, Ids
<1>2. t \in Ids \cup {None}
  BY DEF Types
<1>3. CASE ForeignKeyHolds(t)
  <2>1. status' = [status EXCEPT ![r] = "live"] /\ parent' = [parent EXCEPT ![r] = t]
    BY <1>3 DEF Insert
  <2>2. Store!Insert(r, t)
    BY <1>1, <1>3, <2>1 DEF Store!Insert, Store!Live, ForeignKeyHolds, Live
  <2> QED
    BY <1>1, <1>2, <2>2 DEF Store!Next
<1>4. CASE ~ ForeignKeyHolds(t)
  BY <1>4 DEF Insert, dbVars
<1> QED
  BY <1>3, <1>4

(* A DELETE is one of the abstract store.  When its row is gone already    *)
(* there is nothing left below it, because no row is an orphan.            *)
LEMMA DeleteRefines ==
    ASSUME Types, AtStep, Targets, NoOrphanRow, NEW r \in Reqs, Delete(r)
    PROVE  Store!Next \/ UNCHANGED <<status, parent>>
<1> DEFINE t == job[r].target
<1>1. t \in Ids /\ t # None
  BY DeleteTarget, IdsAssumption DEF Delete
<1>2. /\ status \in [Ids -> {"free", "live", "gone"}]
      /\ status' = [x \in Ids |-> IF status[x] = "live" /\ x \in Cascade(t)
                                  THEN "gone" ELSE status[x]]
      /\ parent' = parent
  BY DEF Delete, Types
<1>3. CASE status[t] = "live"
  <2>1. Cascade(t) = {t} \cup Store!Below(t)
    BY DEF Cascade, Children, Store!Below, Store!Children
  <2>2. \A x \in Cascade(t) : status[x] = "live"
    BY <1>3 DEF Cascade, Children
  <2>3. status' = [x \in Ids |-> IF x \in {t} \cup Store!Below(t) THEN "gone" ELSE status[x]]
    BY <1>2, <2>1, <2>2
  <2>4. Store!Delete(t)
    BY <1>1, <1>2, <1>3, <2>3 DEF Store!Delete, Store!Live
  <2> QED
    BY <1>1, <2>4 DEF Store!Next
<1>4. CASE status[t] # "live"
  <2>1. Children(t) = {}
    BY <1>1, <1>4 DEF Children, NoOrphanRow
  <2>2. Cascade(t) = {t}
    BY <2>1 DEF Cascade
  <2>3. status' = status
    BY <1>2, <1>4, <2>2
  <2> QED
    BY <1>2, <2>3
<1> QED
  BY <1>3, <1>4

LEMMA InitRefines == Init => Store!Init
<1> SUFFICES ASSUME Init PROVE Store!Init
  OBVIOUS
<1>1. Types /\ NoOrphanRow
  BY InitIndInv DEF IndInv
<1>2. status \in [Ids -> {"free", "live"}]
  BY DEF Init
<1>3. parent \in [Ids -> Ids \cup {None}]
  BY <1>1 DEF Types
<1> QED
  BY <1>1, <1>2, <1>3 DEF Store!Init, Store!Live, NoOrphanRow

(* However requests interleave, fail and are cut off by restarts, the rows *)
(* are those of a store of trees with atomic INSERTs and DELETEs.          *)
THEOREM RowsAreAtomic == Spec => AtomicRows
<1>1. IndInv /\ [Next]_vars => [Store!Next]_(Store!vars)
  <2> SUFFICES ASSUME IndInv, [Next]_vars PROVE [Store!Next]_(Store!vars)
    OBVIOUS
  <2>1. Types /\ AtStep /\ NotInsertedYet /\ Targets /\ NoOrphanRow
    BY DEF IndInv
  <2>2. Store!Next \/ UNCHANGED <<status, parent>>
    BY <2>1, RowsFrame, InsertRefines, DeleteRefines
  <2> QED
    BY <2>2 DEF Store!vars
<1> QED
  BY <1>1, InitRefines, Inductive, PTL DEF Spec, AtomicRows, Store!Spec

=============================================================================
