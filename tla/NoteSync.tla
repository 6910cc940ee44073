------------------------------ MODULE NoteSync ------------------------------
(***************************************************************************)
(* The handlers that change a note, its checklists and their items, and    *)
(* the detached tasks that pass the note's text on to the AI service.      *)
(*                                                                         *)
(* Every request is served by its own coroutine.  Each cluster_->Execute   *)
(* is a transaction of its own, so requests interleave between any two     *)
(* statements and the step of a request modelled here is one statement.    *)
(* A statement that throws leaves HandleRequestJsonThrow by an exception:  *)
(* the client is answered 500 and what was committed before stays.         *)
(*                                                                         *)
(* Data is abstracted to what the properties tell apart.  The contents of  *)
(* a row is the set of the writes it has absorbed, each named by the       *)
(* request and the column; a text is the set of the rows it quotes, with   *)
(* the contents each had when FormatNote read it.  The "updated_at" line   *)
(* of the text and the validation of the request (400) are left out.       *)
(***************************************************************************)
EXTENDS Naturals, Sequences, FiniteSets

CONSTANTS
    Reqs,           \* the requests that clients may send
    Ops,            \* the handlers they call
    Stored,         \* the rows in the database when the run starts
    StoredTable,    \* the table of each of them
    StoredParent,   \* the row its foreign key names
    None            \* no row

AllOps == {"note_post", "note_patch", "note_delete",
           "checklist_post", "checklist_patch", "checklist_delete",
           "item_post", "item_patch", "item_delete"}

Tables == {"notes", "checklists", "checklist_items"}

(* SERIAL never hands out an id twice, also not after a rollback, so the  *)
(* row that a request inserts can carry the name of the request.           *)
Ids == Stored \cup Reqs

Columns == {"title", "body", "text", "status"}

(* A write is named by its request and the column it sets; an INSERT sets *)
(* the whole row.                                                          *)
Writes == Reqs \X (Columns \cup {"insert"})

ASSUME OpsAssumption == Ops \subseteq AllOps

ASSUME IdsAssumption == Stored \cap Reqs = {} /\ None \notin Ids

(* The stored rows form trees: note, checklist, item.                      *)
ASSUME StoredAssumption ==
    /\ StoredTable \in [Stored -> Tables]
    /\ StoredParent \in [Stored -> Stored \cup {None}]
    /\ \A x \in Stored :
          \/ StoredTable[x] = "notes" /\ StoredParent[x] = None
          \/ /\ StoredTable[x] = "checklists"
             /\ StoredParent[x] # None
             /\ StoredTable[StoredParent[x]] = "notes"
          \/ /\ StoredTable[x] = "checklist_items"
             /\ StoredParent[x] # None
             /\ StoredTable[StoredParent[x]] = "checklists"

VARIABLES
    status,     \* of each row: not inserted yet, live, or deleted
    parent,     \* the row its foreign key names
    writes,     \* its contents: the writes it has absorbed
    job,        \* of each request: handler, path argument, columns given, and
                \* (for the properties) which were answered 200, and which had
                \* ended with their tasks, before it came
    pc,         \* the statement it executes next; 0 before it is received
    answer,     \* how it was answered
    note,       \* the handler's note_id
    text,       \* what FormatNote has read so far
    todo,       \* the checklists FormatNote has not visited yet
    task,       \* the detached task the request left behind
    index       \* external: the text the AI service holds for each note

dbVars   == <<status, parent, writes>>
textVars == <<text, todo>>
syncVars == <<task, index>>
vars     == <<status, parent, writes, job, pc, answer, note, text, todo, task, index>>

-----------------------------------------------------------------------------
(* Each handler is the sequence of its statements.                         *)

NotePost == <<"insert", "head", "lists", "items", "send">>

NotePatchFormatsEarly == <<"find", "title", "head", "body", "lists", "items", "send">>

NotePatch == <<"find", "title", "body", "head", "lists", "items", "send">>

NoteDeleteSendsEarly == <<"find", "files", "send", "delete">>

NoteDelete == <<"find", "files", "delete", "send">>

ChecklistPostFormatsEarly == <<"find", "head", "lists", "items", "insert", "send">>

ChecklistPost == <<"find", "insert", "head", "lists", "items", "send">>

ChecklistPatch == <<"find", "title", "noteid", "head", "lists", "items", "send">>

ChecklistDelete == <<"find", "noteid", "head", "lists", "items", "send", "delete">>

ItemPostForgetsNoteId == <<"find", "head", "lists", "items", "send", "insert">>

ItemPost == <<"find", "noteid", "head", "lists", "items", "send", "insert">>

ItemPatchFormatsEarly ==
    <<"find", "text", "noteid", "head", "lists", "items", "status", "send">>

ItemPatch == <<"find", "text", "status", "noteid", "head", "lists", "items", "send">>

ItemDelete == <<"find", "noteid", "head", "lists", "items", "send", "delete">>

Program(op) ==
    CASE op = "note_post"        -> NotePost
      [] op = "note_patch"       -> NotePatch
      [] op = "note_delete"      -> NoteDelete
      [] op = "checklist_post"   -> ChecklistPost
      [] op = "checklist_patch"  -> ChecklistPatch
      [] op = "checklist_delete" -> ChecklistDelete
      [] op = "item_post"        -> ItemPost
      [] op = "item_patch"       -> ItemPatch
      [] op = "item_delete"      -> ItemDelete

(* The table of the row the path names.                                    *)
TargetTable(op) ==
    CASE op \in {"note_patch", "note_delete", "checklist_post"}            -> "notes"
      [] op \in {"checklist_patch", "checklist_delete", "item_post"}       -> "checklists"
      [] op \in {"item_patch", "item_delete"}                              -> "checklist_items"

(* The table a POST inserts into.                                          *)
InsertTable(op) ==
    CASE op = "note_post"      -> "notes"
      [] op = "checklist_post" -> "checklists"
      [] op = "item_post"      -> "checklist_items"

(* The columns the body of a PATCH may give.  The checklist's title is    *)
(* written whether it is given or not, the others only when they are.     *)
FieldsOf(op) ==
    CASE op = "note_patch"      -> SUBSET {"title", "body"}
      [] op = "checklist_patch" -> {{"title"}}
      [] op = "item_patch"      -> SUBSET {"text", "status"}
      [] OTHER                  -> {{}}

NoJob == [op |-> "none", target |-> None, fields |-> {}, after |-> {}, ended |-> {}]

NoTask == [kind |-> "none", note |-> None, text |-> {}, state |-> "none"]

Running(r) == pc[r] # 0 /\ answer[r] = "none"

Step(r) == Program(job[r].op)[pc[r]]

At(r, steps) == Running(r) /\ Step(r) \in steps

-----------------------------------------------------------------------------
(* The database.                                                           *)

Live(x) == x # None /\ status[x] = "live"

ChildrenOfAll(x) == {y \in Ids : status[y] = "live" /\ parent[y] # None}

Children(x) == {y \in Ids : status[y] = "live" /\ parent[y] = x}

(* ON DELETE CASCADE: a row goes with its children and their children.    *)
Cascade(x) == {x} \cup Children(x) \cup UNION {Children(y) : y \in Children(x)}

TableOf(x) == IF x \in Stored THEN StoredTable[x] ELSE InsertTable(job[x].op)

Known(table) == {x \in Ids : status[x] # "free" /\ TableOf(x) = table}

(* What FormatNote appends for a set of rows: their present contents.     *)
Quote(S) == {[row |-> x, holds |-> writes[x]] : x \in S}

Answer(r, code) == answer' = [answer EXCEPT ![r] = code] /\ UNCHANGED pc

(* On to the next statement, or past the last one to the answer 200/201.  *)
Advance(r) ==
    /\ pc' = [pc EXCEPT ![r] = @ + 1]
    /\ answer' = IF pc[r] = Len(Program(job[r].op))
                 THEN [answer EXCEPT ![r] = "ok"] ELSE answer

(* A committed statement whose reply does not arrive in time throws too.  *)
AdvanceOrThrow(r) == Advance(r) \/ Answer(r, "500")

-----------------------------------------------------------------------------
(* The steps of a request.                                                 *)

Answered == {q \in Reqs : answer[q] = "ok"}

(* Those of which nothing is under way any more, whichever way they went. *)
Ended == {q \in Reqs : answer[q] # "none" /\ task[q].state # "pending"}

Receive(r) ==
    /\ pc[r] = 0
    /\ answer[r] = "none"
    /\ \E op \in Ops :
       \E x \in IF op = "note_post" THEN {None} ELSE Known(TargetTable(op)) :
       \E f \in FieldsOf(op) :
          /\ job' = [job EXCEPT ![r] =
                [op |-> op, target |-> x, fields |-> f,
                 after |-> Answered, ended |-> Ended]]
          /\ note' = [note EXCEPT ![r] =
                IF op \in {"note_patch", "note_delete", "checklist_post"} THEN x ELSE None]
    /\ pc' = [pc EXCEPT ![r] = 1]
    /\ UNCHANGED <<dbVars, answer, textVars, syncVars>>

Find(r) ==
    /\ At(r, {"find"})
    /\ IF Live(job[r].target) THEN Advance(r) ELSE Answer(r, "404")
    /\ UNCHANGED <<dbVars, job, note, textVars, syncVars>>

(* The attachments of the note are listed and their files handed to a     *)
(* cleaning task; both belong to module Attachments.                       *)
ListFiles(r) ==
    /\ At(r, {"files"})
    /\ Advance(r)
    /\ UNCHANGED <<dbVars, job, note, textVars, syncVars>>

NoteIdUnchecked(x) == TRUE

(* getNoteId: AsSingleRow throws when the row is gone.                     *)
NoteIdFound(x) == Live(x)

GetNoteId(r) ==
    /\ At(r, {"noteid"})
    /\ IF NoteIdFound(job[r].target)
       THEN /\ note' = [note EXCEPT ![r] =
                  IF TargetTable(job[r].op) = "checklists"
                  THEN parent[job[r].target] ELSE parent[parent[job[r].target]]]
            /\ Advance(r)
       ELSE Answer(r, "500") /\ UNCHANGED note
    /\ UNCHANGED <<dbVars, job, textVars, syncVars>>

ForeignKeyIgnored(x) == TRUE

(* The foreign key of the inserted row is checked by the INSERT itself.   *)
ForeignKeyHolds(x) == x = None \/ Live(x)

Insert(r) ==
    /\ At(r, {"insert"})
    /\ IF ForeignKeyHolds(job[r].target)
       THEN /\ status' = [status EXCEPT ![r] = "live"]
            /\ parent' = [parent EXCEPT ![r] = job[r].target]
            /\ writes' = [writes EXCEPT ![r] = {<<r, "insert">>}]
            /\ note' = [note EXCEPT ![r] = IF job[r].op = "note_post" THEN r ELSE @]
            /\ AdvanceOrThrow(r)
       ELSE Answer(r, "500") /\ UNCHANGED <<dbVars, note>>
    /\ UNCHANGED <<job, textVars, syncVars>>

(* One UPDATE for each column given; a row that is gone is not an error.  *)
Update(r) ==
    /\ At(r, Columns)
    /\ IF Step(r) \in job[r].fields
       THEN /\ writes' = IF Live(job[r].target)
                         THEN [writes EXCEPT ![job[r].target] = @ \cup {<<r, Step(r)>>}]
                         ELSE writes
            /\ AdvanceOrThrow(r)
       ELSE Advance(r) /\ UNCHANGED writes
    /\ UNCHANGED <<status, parent, job, note, textVars, syncVars>>

Delete(r) ==
    /\ At(r, {"delete"})
    /\ status' = [x \in Ids |-> IF status[x] = "live" /\ x \in Cascade(job[r].target)
                                THEN "gone" ELSE status[x]]
    /\ AdvanceOrThrow(r)
    /\ UNCHANGED <<parent, writes, job, note, textVars, syncVars>>

(* FormatNote, one query at a time: the note, its checklists, and then    *)
(* the items of one checklist after the other.                             *)
ReadHead(r) ==
    /\ At(r, {"head"})
    /\ IF Live(note[r])
       THEN Advance(r) /\ text' = [text EXCEPT ![r] = Quote({note[r]})]
       ELSE Answer(r, "500") /\ UNCHANGED text
    /\ UNCHANGED <<dbVars, job, note, todo, syncVars>>

ReadLists(r) ==
    /\ At(r, {"lists"})
    /\ text' = [text EXCEPT ![r] = @ \cup Quote(Children(note[r]))]
    /\ todo' = [todo EXCEPT ![r] = Children(note[r])]
    /\ Advance(r)
    /\ UNCHANGED <<dbVars, job, note, syncVars>>

VisitedKept(S, c) == S

VisitedAll(S, c) == {}

Visited(S, c) == S \ {c}

ReadItems(r) ==
    /\ At(r, {"items"})
    /\ \/ /\ todo[r] = {}
          /\ Advance(r)
          /\ UNCHANGED textVars
       \/ \E c \in todo[r] :
             /\ text' = [text EXCEPT ![r] = @ \cup Quote(Children(c))]
             /\ todo' = [todo EXCEPT ![r] = Visited(@, c)]
             /\ UNCHANGED <<pc, answer>>
    /\ UNCHANGED <<dbVars, job, note, syncVars>>

KindOf(op) ==
    CASE op = "note_post"   -> "add"
      [] op = "note_delete" -> "delete"
      [] OTHER              -> "update"

(* Async(...).Detach(): the text is captured by value.                     *)
Send(r) ==
    /\ At(r, {"send"})
    /\ task' = [task EXCEPT ![r] = [kind |-> KindOf(job[r].op), note |-> note[r],
                                    text |-> text[r], state |-> "pending"]]
    /\ text' = [text EXCEPT ![r] = {}]
    /\ Advance(r)
    /\ UNCHANGED <<dbVars, job, note, todo, index>>

(* Any statement may fail without an effect: time limit, lost connection. *)
Throw(r) ==
    /\ Running(r)
    /\ Step(r) # "send"
    /\ Step(r) \in Columns => Step(r) \in job[r].fields
    /\ Answer(r, "500")
    /\ UNCHANGED <<dbVars, job, note, textVars, syncVars>>

Serve(r) ==
    \/ Find(r) \/ ListFiles(r) \/ GetNoteId(r) \/ Insert(r) \/ Update(r) \/ Delete(r)
    \/ ReadHead(r) \/ ReadLists(r) \/ ReadItems(r) \/ Send(r)

-----------------------------------------------------------------------------
(* The detached tasks, in any order; a failed call is logged and dropped. *)

Deliver(r) ==
    /\ task[r].state = "pending"
    /\ task' = [task EXCEPT ![r].state = "delivered"]
    /\ index' = [index EXCEPT ![task[r].note] = task[r].text]
    /\ UNCHANGED <<dbVars, job, pc, answer, note, textVars>>

CallFails(r) ==
    /\ task[r].state = "pending"
    /\ task' = [task EXCEPT ![r].state = "failed"]
    /\ UNCHANGED <<dbVars, job, pc, answer, note, textVars, index>>

RunTask(r) == Deliver(r) \/ CallFails(r)

(* The process stops and is started again: requests in progress and       *)
(* pending tasks are gone, the database and the AI service stay.          *)
Restart ==
    /\ \E r \in Reqs : Running(r) \/ task[r].state = "pending"
    /\ answer' = [r \in Reqs |-> IF Running(r) THEN "lost" ELSE answer[r]]
    /\ task' = [r \in Reqs |-> IF task[r].state = "pending"
                               THEN [task[r] EXCEPT !.state = "lost"] ELSE task[r]]
    /\ UNCHANGED <<dbVars, job, pc, note, textVars, index>>

(* Every request is answered and every task has ended.                     *)
Quiescent == Ended = Reqs

Rest == Quiescent /\ UNCHANGED vars

Init ==
    /\ status = [x \in Ids |-> IF x \in Stored THEN "live" ELSE "free"]
    /\ parent = [x \in Ids |-> IF x \in Stored THEN StoredParent[x] ELSE None]
    /\ writes = [x \in Ids |-> {}]
    /\ job = [r \in Reqs |-> NoJob]
    /\ pc = [r \in Reqs |-> 0]
    /\ answer = [r \in Reqs |-> "none"]
    /\ note = [r \in Reqs |-> None]
    /\ text = [r \in Reqs |-> {}]
    /\ todo = [r \in Reqs |-> {}]
    /\ task = [r \in Reqs |-> NoTask]
    /\ index = [x \in Ids |-> IF x \in Stored /\ StoredTable[x] = "notes"
                              THEN Quote(Cascade(x)) ELSE {}]

Next ==
    \/ \E r \in Reqs : Receive(r) \/ Serve(r) \/ Throw(r) \/ RunTask(r)
    \/ Restart
    \/ Rest

Spec == Init /\ [][Next]_vars

(* Coroutines are scheduled and every statement comes to an end.  Clients *)
(* owe nothing and no failure has to come to a request's help, so Throw   *)
(* and Restart are not in it.  Neither is RunTask: the calls of the AI     *)
(* service have no deadline, and a task may hang for ever.                 *)
Fairness == \A r \in Reqs : WF_vars(Serve(r))

FairSpec == Spec /\ Fairness

-----------------------------------------------------------------------------
(* Properties.                                                             *)

Inserting == {"note_post", "checklist_post", "item_post"}

Deleting == {"note_delete", "checklist_delete", "item_delete"}

(* The handlers that read the text of the note after they have written.   *)
WriteFirst == {"note_post", "note_patch", "checklist_post", "checklist_patch", "item_patch"}

OwnRow(r) == IF job[r].op \in Inserting THEN r ELSE job[r].target

OwnWrites(r) == IF job[r].op \in Inserting THEN {<<r, "insert">>}
                                           ELSE {r} \X job[r].fields

Quotes == [row : Ids, holds : SUBSET Writes]

(* Every variable has its type, and a handler knows its note_id whenever  *)
(* it formats or sends.                                                    *)
TypeOK ==
    /\ status \in [Ids -> {"free", "live", "gone"}]
    /\ parent \in [Ids -> Ids \cup {None}]
    /\ writes \in [Ids -> SUBSET Writes]
    /\ job \in [Reqs -> [op : AllOps \cup {"none"}, target : Ids \cup {None},
                         fields : SUBSET Columns,
                         after : SUBSET Reqs, ended : SUBSET Reqs]]
    /\ pc \in [Reqs -> 0 .. 9]
    /\ answer \in [Reqs -> {"none", "ok", "404", "500", "lost"}]
    /\ note \in [Reqs -> Ids \cup {None}]
    /\ text \in [Reqs -> SUBSET Quotes]
    /\ todo \in [Reqs -> SUBSET Ids]
    /\ task \in [Reqs -> [kind : {"none", "add", "update", "delete"},
                          note : Ids \cup {None}, text : SUBSET Quotes,
                          state : {"none", "pending", "delivered", "failed", "lost"}]]
    /\ index \in [Ids -> SUBSET Quotes]
    /\ \A r \in Reqs : At(r, {"head", "lists", "items", "send"}) => note[r] # None

Store == INSTANCE RowStore WITH Ids <- Ids, None <- None, status <- status, parent <- parent

(* However requests interleave and fail, the rows change only as those of *)
(* a store of trees do that inserts below live rows and deletes a row with *)
(* all that is below it.                                                    *)
AtomicRows == Store!Spec

(* The AI service is told to forget a note only when its row is gone for  *)
(* good (note::del runs kDeleteNote before it starts the task).            *)
ForgetOnlyDeleted ==
    \A r \in Reqs : task[r].kind = "delete" => status[task[r].note] = "gone"

(* The handlers that write first send a text that shows every column they *)
(* wrote, however other requests interleave, unless the row has been      *)
(* deleted from under them.                                                *)
OwnWriteSent ==
    \A r \in Reqs :
        job[r].op \in WriteFirst /\ task[r].state # "none" =>
            \/ status[OwnRow(r)] = "gone"
            \/ \E q \in task[r].text : q.row = OwnRow(r) /\ OwnWrites(r) \subseteq q.holds

(* 200 or 201 means the whole change is committed, although no handler    *)
(* looks at the number of rows its UPDATE changed: when the row went away *)
(* between the look-up and the UPDATE, a later AsSingleRow throws.         *)
OkMeansCommitted ==
    \A r \in Reqs : answer[r] = "ok" =>
        /\ OwnWrites(r) \subseteq writes[OwnRow(r)]
        /\ job[r].op \in Deleting => status[job[r].target] = "gone"

(* The note whose tree the row x belongs to.                               *)
NoteOf(x) ==
    CASE TableOf(x) = "notes"           -> x
      [] TableOf(x) = "checklists"      -> parent[x]
      [] TableOf(x) = "checklist_items" -> parent[parent[x]]

(* The AI service is told of a note, which is of one user, nothing but     *)
(* what rows of that note hold or have held, although FormatNote reads them *)
(* one query after the other by an id that an earlier statement found.      *)
NoForeignRow ==
    \A n \in Ids : \A q \in index[n] : NoteOf(q.row) = n /\ q.holds \subseteq writes[q.row]

(* The text that a request sends shows what had been answered 200 when the *)
(* request came: what was written to a row that is still there, and nothing *)
(* of a row that was deleted, although FormatNote reads one query after    *)
(* the other while further requests change the note.  So the next request *)
(* about a note makes good for an earlier text that was lost or too early. *)
EarlierAnswersShown ==
    \A r \in Reqs : task[r].state # "none" /\ job[r].op # "note_delete" =>
      \A q \in job[r].after :
        IF job[q].op \in Deleting
        THEN \A x \in task[r].text : job[q].target \notin {x.row, parent[x.row]}
        ELSE NoteOf(OwnRow(q)) = task[r].note =>
                 \/ status[OwnRow(q)] = "gone"
                 \/ \E x \in task[r].text : x.row = OwnRow(q) /\ OwnWrites(q) \subseteq x.holds

(* When all requests are answered and none failed, the text that agrees   *)
(* with the database is among those sent for each note, so that the AI    *)
(* service could have it.                                                  *)
FreshTextSent ==
    (\A r \in Reqs : pc[r] = 0 \/ answer[r] \in {"ok", "404"}) =>
        \A n \in {task[r].note : r \in Reqs} :
            Live(n) => \E r \in Reqs : task[r].note = n /\ task[r].text = Quote(Cascade(n))

(* The handlers that format the note before they change it break this;    *)
(* when none of them runs, it holds, also where FormatNote's statements    *)
(* fall between those of another request.                                  *)
FreshIfWrittenFirst ==
    (\A r \in Reqs : job[r].op \in WriteFirst \cup {"note_delete", "none"}) => FreshTextSent

(* The handlers that send a text without the change they make.             *)
FormatFirst == {"checklist_delete", "item_post", "item_delete"}

(* The note that a request is about: its own or that of the row in its path. *)
Root(r) == IF job[r].op = "note_post" THEN r ELSE NoteOf(job[r].target)

(* Request r may have changed note n: it inserts it, or got past the look-up *)
(* of a row of n (404 and errors before that leave pc at 1).               *)
Touches(r, n) ==
    job[r].op # "none" /\ Root(r) = n /\ (job[r].op = "note_post" \/ pc[r] > 1)

(* The text of r is the last word on n: its handler writes before it reads, *)
(* its call got through, and all other requests that touch n had ended      *)
(* with their tasks when r came, in success or failure.                    *)
LastWord(r, n) ==
    /\ Touches(r, n) /\ job[r].op \in WriteFirst /\ task[r].state = "delivered"
    /\ \A q \in Reqs \ {r} : Touches(q, n) => q \in job[r].ended

(* What may leave the AI service with another text of n than the          *)
(* database: there was a request about n, and none of them was the last   *)
(* word.  Each one formats too early, has not got its text through (it     *)
(* failed or was lost half-way, its call did, or is under way), or does    *)
(* not come after the end of all the others that touch n.                  *)
Excused(n) ==
    (\E r \in Reqs : Touches(r, n)) /\ ~ \E r \in Reqs : LastWord(r, n)

(* At any time, the AI service has the text that the database has of a    *)
(* live note, or one of these causes shows why not.  So a request about a *)
(* note that is sent once the others about it have ended makes good for    *)
(* all that went wrong with them, and requests about other notes, or about *)
(* rows that are gone, never matter, whatever becomes of them.             *)
StaleHasCause ==
    \A n \in Ids :
        Live(n) /\ TableOf(n) = "notes" /\ index[n] # Quote(Cascade(n)) => Excused(n)

(* The AI service never goes back from a newer contents of a row to an    *)
(* older one (test_sync_client.py expects updates in the order of issue). *)
IndexNeverGoesBack ==
    [][\A n \in Ids : \A p \in index'[n], q \in index[n] :
           p.row = q.row => ~ (p.holds \subseteq q.holds /\ p.holds # q.holds)]_vars

(* Every request that is received is answered, or lost with the process,   *)
(* also when the AI service never answers a call.                          *)
EveryRequestAnswered == \A r \in Reqs : (pc[r] # 0) ~> (answer[r] # "none")

=============================================================================
