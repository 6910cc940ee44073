----------------------------- MODULE Timestamps -----------------------------
(***************************************************************************)
(* One writing statement of each handler as PostgreSQL executes it: the   *)
(* row locks it takes one after the other, the triggers that carry         *)
(* updated_at from an item to its checklist and on to the note, the        *)
(* cascades, and the commit.                                               *)
(*                                                                         *)
(* NOW() is the time at which the transaction began.  What a transaction  *)
(* changes becomes visible when it commits; until then it keeps its locks. *)
(* A row that is locked by another transaction is waited for, and when it  *)
(* turns out to be gone, UPDATE and DELETE leave it alone and the foreign  *)
(* key check of an INSERT fails.                                           *)
(***************************************************************************)
EXTENDS Naturals, Sequences

CONSTANTS
    Reqs,           \* the statements that run, numbered as they begin
    Ops,            \* what they may do
    Stored,         \* the rows in the database when the run starts
    StoredTable,    \* the table of each of them
    StoredParent,   \* the row its foreign key names
    StoredTime,     \* its updated_at
    Launch,         \* the time at which the run starts
    None            \* no row

Deletes == {"note_delete", "checklist_delete", "item_delete", "attachment_delete"}

Updates == {"note_patch", "checklist_patch", "item_patch"}

Inserts == {"checklist_post", "item_post", "attachment_post"}

AllOps == Deletes \cup Updates \cup Inserts

(* A row that is inserted carries the name of its request as its id.       *)
Ids == Stored \cup Reqs

ASSUME OpsAssumption == Ops \subseteq AllOps

ASSUME ReqsAssumption == Reqs \subseteq Nat

ASSUME IdsAssumption == Stored \cap Reqs = {} /\ None \notin Ids

Tables == {"notes", "checklists", "checklist_items", "attachments"}

ASSUME StoredAssumption ==
    /\ StoredTable \in [Stored -> Tables]
    /\ StoredParent \in [Stored -> Stored \cup {None}]
    /\ \A x \in Stored :
          \/ StoredTable[x] = "notes" /\ StoredParent[x] = None
          \/ /\ StoredTable[x] \in {"checklists", "attachments"}
             /\ StoredParent[x] # None
             /\ StoredTable[StoredParent[x]] = "notes"
          \/ /\ StoredTable[x] = "checklist_items"
             /\ StoredParent[x] # None
             /\ StoredTable[StoredParent[x]] = "checklists"

ASSUME TimesAssumption ==
    /\ Launch \in Nat \ {0}
    /\ StoredTime \in [Stored -> Nat] /\ \A x \in Stored : StoredTime[x] < Launch

(* NOW(), the time at which the transaction of a statement began.          *)
Now(r) == Launch + r

VARIABLES
    status,     \* of each row: not inserted yet, live, or deleted (committed)
    parent,     \* the row its foreign key names
    time,       \* its updated_at (committed)
    job,        \* of each request: statement and row
    tx,         \* its transaction
    log         \* the requests that changed something, as they committed

rowVars == <<status, parent, time>>
vars    == <<status, parent, time, job, tx, log>>

NoJob == [op |-> "none", target |-> None]

(* needs, mode: the row to be locked next, and for what                    *)
(* value: the updated_at that the statement and its triggers set           *)
(* keyed, stamped, dying: the rows locked by a foreign key check, updated, *)
(* deleted; left: what the cascade has still to delete                     *)
NoTx == [state |-> "none", needs |-> None, mode |-> "none", value |-> 0,
         keyed |-> {}, stamped |-> {}, dying |-> {}, left |-> {}]

Open(r) == tx[r].state = "open"

Live(x) == x # None /\ status[x] = "live"

TargetTable(op) ==
    CASE op \in {"note_patch", "note_delete", "checklist_post", "attachment_post"} -> "notes"
      [] op \in {"checklist_patch", "checklist_delete", "item_post"} -> "checklists"
      [] op \in {"item_patch", "item_delete"} -> "checklist_items"
      [] op = "attachment_delete" -> "attachments"

InsertTable(op) ==
    CASE op = "checklist_post"  -> "checklists"
      [] op = "item_post"       -> "checklist_items"
      [] op = "attachment_post" -> "attachments"

TableOf(x) == IF x \in Stored THEN StoredTable[x] ELSE InsertTable(job[x].op)

Known(table) == {x \in Ids : status[x] # "free" /\ TableOf(x) = table}

-----------------------------------------------------------------------------
(* Locks.  FOR KEY SHARE of a foreign key check, FOR NO KEY UPDATE of an  *)
(* UPDATE, FOR UPDATE of a DELETE.                                         *)

Conflicting(q, mode) ==
    CASE mode = "key"    -> tx[q].dying
      [] mode = "update" -> tx[q].dying \cup tx[q].stamped
      [] mode = "delete" -> tx[q].dying \cup tx[q].stamped \cup tx[q].keyed
      [] OTHER           -> {}

Blockers(r) ==
    {q \in Reqs \ {r} : Open(r) /\ Open(q) /\ tx[r].needs \in Conflicting(q, tx[r].mode)}

Waiting == {r \in Reqs : Blockers(r) # {}}

(* The requests of a cycle wait for each other.                            *)
Cycle(S) ==
    /\ S # {}
    /\ \A r \in S : Blockers(r) \cap S # {} /\ \E q \in S : r \in Blockers(q)

-----------------------------------------------------------------------------
(* Triggers and cascades.                                                  *)

(* A trigger on notes that goes back down, and one on items that updates  *)
(* the note before the checklist.                                          *)
TriggeredAgain(r, x) == IF TableOf(x) = "checklists" THEN x ELSE parent[x]

TriggeredNoteFirst(r, x) ==
    CASE TableOf(x) = "checklist_items" -> parent[parent[x]]
      [] TableOf(x) = "notes" /\ TargetTable(job[r].op) = "checklist_items" ->
             parent[job[r].target]
      [] TableOf(x) = "checklists" /\ parent[x] \notin tx[r].stamped -> parent[x]
      [] OTHER -> None

TriggeredOnItemsOnly(r, x) ==
    IF TableOf(x) = "checklist_items" THEN parent[x] ELSE None

(* The row that the trigger of an updated row updates in turn: the         *)
(* checklist of an item; the note of a checklist whose time has changed.   *)
Triggered(r, x) ==
    CASE TableOf(x) = "checklist_items" -> parent[x]
      [] TableOf(x) = "checklists" /\ tx[r].value # time[x] -> parent[x]
      [] OTHER -> None

CascadedListsOnly(x) == {y \in Ids : Live(y) /\ parent[y] = x /\ TableOf(x) = "notes"}

(* ON DELETE CASCADE.                                                      *)
Cascaded(x) == {y \in Ids : Live(y) /\ parent[y] = x}

TriggeredUnseen(x, dying) ==
    IF TableOf(x) \in {"checklist_items", "attachments"} THEN parent[x] ELSE None

(* The trigger of a deleted item or attachment updates the row above; one *)
(* that is deleted itself is no longer seen.                               *)
TriggeredByDelete(x, dying) ==
    IF TableOf(x) \in {"checklist_items", "attachments"} /\ parent[x] \notin dying
    THEN parent[x] ELSE None

(* The value it carries: the OLD.updated_at of an item, CURRENT_TIMESTAMP *)
(* for an attachment.                                                      *)
CarriedByDelete(r, x) ==
    IF TableOf(x) = "checklist_items" THEN time[x] ELSE Now(r)

-----------------------------------------------------------------------------
(* The steps of a statement.                                               *)

FirstLock(op) ==
    IF op \in Deletes THEN "delete" ELSE IF op \in Updates THEN "update" ELSE "key"

Begin(r) ==
    /\ tx[r].state = "none"
    /\ \A q \in Reqs : q < r => tx[q].state # "none"
    /\ \E op \in Ops : \E x \in Known(TargetTable(op)) :
          /\ job' = [job EXCEPT ![r] = [op |-> op, target |-> x]]
          /\ tx' = [tx EXCEPT ![r] = [NoTx EXCEPT !.state = "open", !.needs = x,
                                        !.mode = FirstLock(op), !.value = Now(r)]]
    /\ UNCHANGED <<rowVars, log>>

Reaches(r, mode) ==
    Open(r) /\ tx[r].mode = mode /\ tx[r].needs # None /\ Blockers(r) = {}

Needs(t, x, mode) == [t EXCEPT !.needs = x, !.mode = mode]

(* The transaction ends and lets go of its locks.                          *)
Committed == [NoTx EXCEPT !.state = "ok"]

RolledBack == [NoTx EXCEPT !.state = "failed"]

RollBack(r) ==
    /\ tx' = [tx EXCEPT ![r] = RolledBack]
    /\ job' = [job EXCEPT ![r] = NoJob]

(* The foreign key check of an INSERT, and the triggers of its row.        *)
CheckKey(r) ==
    /\ Reaches(r, "key")
    /\ LET x == tx[r].needs
           t == [tx[r] EXCEPT !.keyed = {x}]
       IN  IF Live(x)
           THEN /\ tx' = [tx EXCEPT ![r] = IF job[r].op = "checklist_post"
                                           THEN Needs(t, None, "none")
                                           ELSE Needs(t, x, "update")]
                /\ UNCHANGED job
           ELSE RollBack(r)
    /\ UNCHANGED <<rowVars, log>>

UpdateRow(r) ==
    /\ Reaches(r, "update")
    /\ LET x == tx[r].needs
           t == [tx[r] EXCEPT !.stamped = @ \cup {x}]
       IN  tx' = [tx EXCEPT ![r] = IF Live(x) THEN Needs(t, Triggered(r, x), "update")
                                   ELSE Needs(tx[r], None, "none")]
    /\ UNCHANGED <<rowVars, job, log>>

(* The rows of a cascade are deleted in any order.                         *)
DeleteRow(r) ==
    /\ Reaches(r, "delete")
    /\ LET x == tx[r].needs
           t == IF Live(x)
                THEN [tx[r] EXCEPT !.dying = @ \cup {x}, !.left = (@ \ {x}) \cup Cascaded(x)]
                ELSE [tx[r] EXCEPT !.left = @ \ {x}]
           above == IF Live(x) THEN TriggeredByDelete(x, t.dying) ELSE None
       IN  \/ /\ above # None
              /\ tx' = [tx EXCEPT ![r] =
                           Needs([t EXCEPT !.value = CarriedByDelete(r, x)], above, "update")]
           \/ /\ above = None
              /\ \E y \in IF t.left = {} THEN {None} ELSE t.left :
                    tx' = [tx EXCEPT ![r] = Needs(t, y, "delete")]
    /\ UNCHANGED <<rowVars, job, log>>

Commit(r) ==
    /\ Open(r) /\ tx[r].needs = None
    /\ LET inserted == IF job[r].op \in Inserts THEN {r} ELSE {}
           changed == tx[r].stamped \cup tx[r].dying \cup inserted
       IN  /\ status' = [x \in Ids |-> IF x \in tx[r].dying THEN "gone"
                                       ELSE IF x \in inserted THEN "live" ELSE status[x]]
           /\ parent' = [x \in Ids |-> IF x \in inserted THEN job[r].target ELSE parent[x]]
           /\ time' = [x \in Ids |-> IF x \in inserted THEN Now(r)
                                     ELSE IF x \in tx[r].stamped THEN tx[r].value ELSE time[x]]
           /\ log' = IF changed = {} THEN log ELSE Append(log, r)
    /\ tx' = [tx EXCEPT ![r] = Committed]
    /\ UNCHANGED job

Serve(r) == CheckKey(r) \/ UpdateRow(r) \/ DeleteRow(r) \/ Commit(r)

(* A statement may fail: time limit, lost connection, end of the process. *)
Fail(r) ==
    /\ Open(r)
    /\ RollBack(r)
    /\ UNCHANGED <<rowVars, log>>

(* PostgreSQL looks for cycles and fails one of the statements.            *)
BreakDeadlock ==
    \E r \in Reqs : (\E S \in SUBSET Waiting : r \in S /\ Cycle(S)) /\ Fail(r)

Rest == (\A r \in Reqs : tx[r].state \in {"ok", "failed"}) /\ UNCHANGED vars

Init ==
    /\ status = [x \in Ids |-> IF x \in Stored THEN "live" ELSE "free"]
    /\ parent = [x \in Ids |-> IF x \in Stored THEN StoredParent[x] ELSE None]
    /\ time = [x \in Ids |-> IF x \in Stored THEN StoredTime[x] ELSE 0]
    /\ job = [r \in Reqs |-> NoJob]
    /\ tx = [r \in Reqs |-> NoTx]
    /\ log = <<>>

Next ==
    \/ \E r \in Reqs : Begin(r) \/ Serve(r) \/ Fail(r)
    \/ BreakDeadlock
    \/ Rest

Spec == Init /\ [][Next]_vars

(* The database goes on as long as a statement can: a lock that is free   *)
(* is granted, a deadlock is found.  Every statement takes finitely many   *)
(* steps, so this is enough.  Fail is not in it: no statement ends only    *)
(* because it runs into a time limit.                                      *)
GoesOn == (\E r \in Reqs : Serve(r)) \/ BreakDeadlock

FairSpec == Spec /\ WF_vars(GoesOn)

-----------------------------------------------------------------------------
(* Properties.                                                             *)

NoteOf(x) ==
    CASE TableOf(x) = "notes" -> x
      [] TableOf(x) = "checklist_items" -> parent[parent[x]]
      [] OTHER -> parent[x]

Began(r) == tx[r].state # "none"

(* Every variable has its type; locks end with the transaction, no time   *)
(* lies in the future, and no statement updates a row that it deletes.     *)
TypeOK ==
    /\ status \in [Ids -> {"free", "live", "gone"}]
    /\ parent \in [Ids -> Ids \cup {None}]
    /\ time \in [Ids -> Nat]
    /\ job \in [Reqs -> [op : AllOps \cup {"none"}, target : Ids \cup {None}]]
    /\ tx \in [Reqs -> [state : {"none", "open", "ok", "failed"}, needs : Ids \cup {None},
                        mode : {"none", "key", "update", "delete"},
                        value : Nat,
                        keyed : SUBSET Ids, stamped : SUBSET Ids,
                        dying : SUBSET Ids, left : SUBSET Ids]]
    /\ log \in Seq(Reqs)
    /\ \A x \in Ids : time[x] < Launch \/ \E r \in Reqs : time[x] = Now(r) /\ Began(r)
    /\ \A r \in Reqs :
          /\ tx[r].stamped \cap tx[r].dying = {}
          /\ ~Open(r) => tx[r] \in {NoTx, Committed, RolledBack}

Store == INSTANCE RowStore WITH Ids <- Ids, None <- None, status <- status, parent <- parent

(* Although a statement locks, triggers and cascades row by row, its       *)
(* effect is that of one step: an INSERT below a live row, or a DELETE of  *)
(* a row with all that is below it at that moment.                         *)
AtomicRows == Store!Spec

(* Statements that insert and update lock from the item upwards, so they  *)
(* never wait for each other; a deadlock needs a DELETE, which goes down.  *)
UpdatesNeverDeadlock ==
    \A S \in SUBSET Waiting : Cycle(S) => \E r \in S : job[r].op \in Deletes

(* The statements that give the note a time when they change something.   *)
(* Creating and removing a checklist are not among them: the trigger on    *)
(* checklists is AFTER UPDATE only, and they touch no other row above.     *)
Dating == AllOps \ {"checklist_post", "checklist_delete", "note_delete"}

DatedBy(n) == {i \in DOMAIN log : job[log[i]].op \in Dating /\ NoteOf(job[log[i]].target) = n}

(* The list is ordered by updated_at, and this is what it shows: the time  *)
(* of a note is NOW() of that statement which changed the note itself, or  *)
(* the title of a checklist, an item or an attachment below it, and which *)
(* committed last, however the statements overlap and whatever rows their *)
(* triggers pass.  The statements that create or remove a checklist do    *)
(* not show.  Nothing is said while the last one is the DELETE of an item, *)
(* which hands the item's time on (see NoTimeGoesBack).                    *)
TimeOfLastChange ==
    \A n \in Known("notes") : Live(n) =>
        /\ DatedBy(n) = {} => time[n] = StoredTime[n]
        /\ \A i \in DatedBy(n) :
              (\A j \in DatedBy(n) : j <= i) /\ job[log[i]].op # "item_delete"
                  => time[n] = Now(log[i])

(* updated_at is the date of the last update (api-1.0.6.yaml:754), so it  *)
(* never goes back.                                                        *)
NoTimeGoesBack ==
    [][\A x \in Ids : status[x] = "live" => time'[x] >= time[x]]_vars

(* Every statement ends, also when it meets others that lock in the       *)
(* opposite order.                                                         *)
EveryStatementEnds == \A r \in Reqs : Open(r) ~> ~Open(r)

=============================================================================
