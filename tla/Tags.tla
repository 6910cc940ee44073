-------------------------------- MODULE Tags --------------------------------
(***************************************************************************)
(* Tags, their links to notes, and the trigger that removes a tag with its *)
(* last link.                                                              *)
(*                                                                         *)
(* A statement that changes links runs its triggers in one transaction of  *)
(* PostgreSQL (READ COMMITTED): its changes, and the rows it locks, become *)
(* visible only when it commits, so executing and committing are two       *)
(* steps here.  A transaction waits for a row that another one holds, the  *)
(* trigger sees what is committed and its own changes, and foreign keys    *)
(* are checked against what is committed.  One user owns all tags.         *)
(***************************************************************************)
EXTENDS Naturals, Sequences, FiniteSets

CONSTANTS
    Reqs,           \* the requests that clients may send, numbered as they arrive
    Ops,            \* the handlers they call
    Notes,          \* the notes in the database when the run starts
    Stored,         \* the tags in the database when the run starts
    StoredName,     \* the name of each of them
    StoredLinks,    \* the links in the database when the run starts
    Names,          \* the names that clients give to new tags
    None

AllOps == {"create", "add", "remove", "note_delete"}

(* A tag that a request inserts carries the name of the request as its id. *)
Tags == Stored \cup Reqs

ASSUME OpsAssumption == Ops \subseteq AllOps

ASSUME ReqsAssumption == Reqs \subseteq Nat

ASSUME IdsAssumption ==
    Stored \cap Reqs = {} /\ None \notin Tags /\ None \notin Notes /\ None \notin Names

ASSUME StoredAssumption ==
    StoredName \in [Stored -> Names] /\ StoredLinks \subseteq Notes \X Stored

VARIABLES
    noteRow,    \* of each note: live or gone (committed)
    tagRow,     \* of each tag: not inserted yet, live or gone (committed)
    links,      \* note_tags (committed)
    tx,         \* of each request: what its open transaction will commit
    job,        \* of each request: handler and arguments
    pc,         \* the step it executes next; 0 before it is received
    answer      \* how it was answered

dbVars == <<noteRow, tagRow, links>>
vars   == <<noteRow, tagRow, links, tx, job, pc, answer>>

-----------------------------------------------------------------------------
(* Each handler is the sequence of its steps.                              *)

Create == <<"find_name", "insert_tag">>

AddTag == <<"find_note", "find_tag", "find_no_link", "link", "commit">>

RemoveTagLeftOpen == <<"find_note", "find_tag", "find_link", "unlink">>

RemoveTag == <<"find_note", "find_tag", "find_link", "unlink", "commit">>

NoteDelete == <<"find_note", "drop_note", "commit">>

Program(op) ==
    CASE op = "create"      -> Create
      [] op = "add"         -> AddTag
      [] op = "remove"      -> RemoveTag
      [] op = "note_delete" -> NoteDelete

NoJob == [op |-> "none", note |-> None, tag |-> None, name |-> None]

(* Links inserted and deleted, tags and notes deleted.                     *)
NoTx == [added |-> {}, removed |-> {}, doomed |-> {}, notes |-> {}]

Running(r) == pc[r] # 0 /\ answer[r] = "none"

At(r, step) == Running(r) /\ Program(job[r].op)[pc[r]] = step

Others(r) == Reqs \ {r}

NameOf(t) == IF t \in Stored THEN StoredName[t] ELSE job[t].name

LinksKept(n) == {}

LinksOf(n) == {l \in links : l[1] = n}

Linked(t, L) == \E n \in Notes : <<n, t>> \in L

(* The handler throws, or answers early; the server rolls back.            *)
TxEnds(r) == tx' = [tx EXCEPT ![r] = NoTx]

Answer(r, code) ==
    /\ answer' = [answer EXCEPT ![r] = code]
    /\ TxEnds(r)
    /\ UNCHANGED pc

Continue(r) ==
    /\ pc' = [pc EXCEPT ![r] = @ + 1]
    /\ answer' = IF pc[r] = Len(Program(job[r].op))
                 THEN [answer EXCEPT ![r] = "ok"] ELSE answer

Advance(r) == Continue(r) /\ UNCHANGED tx

-----------------------------------------------------------------------------
(* The steps of a request.                                                 *)

Receive(r) ==
    /\ pc[r] = 0
    /\ \A q \in Reqs : q < r => pc[q] # 0
    /\ answer[r] = "none"
    /\ \E op \in Ops :
       \E n \in IF op = "create" THEN {None} ELSE Notes :
       \E t \in IF op \in {"add", "remove"} THEN {x \in Tags : tagRow[x] # "free"} ELSE {None} :
       \E a \in IF op = "create" THEN Names ELSE {None} :
          job' = [job EXCEPT ![r] = [op |-> op, note |-> n, tag |-> t, name |-> a]]
    /\ pc' = [pc EXCEPT ![r] = 1]
    /\ UNCHANGED <<dbVars, tx, answer>>

FindName(r) ==
    /\ At(r, "find_name")
    /\ IF \E t \in Tags : tagRow[t] = "live" /\ NameOf(t) = job[r].name
       THEN Answer(r, "409") ELSE Advance(r)
    /\ UNCHANGED <<dbVars, job>>

(* tags has no unique constraint on the name.                              *)
InsertTag(r) ==
    /\ At(r, "insert_tag")
    /\ tagRow' = [tagRow EXCEPT ![r] = "live"]
    /\ Advance(r) \/ Answer(r, "500")
    /\ UNCHANGED <<noteRow, links, job>>

FindNote(r) ==
    /\ At(r, "find_note")
    /\ IF noteRow[job[r].note] = "live" THEN Advance(r) ELSE Answer(r, "404")
    /\ UNCHANGED <<dbVars, job>>

FindTag(r) ==
    /\ At(r, "find_tag")
    /\ IF tagRow[job[r].tag] = "live" THEN Advance(r) ELSE Answer(r, "404")
    /\ UNCHANGED <<dbVars, job>>

FindNoLink(r) ==
    /\ At(r, "find_no_link")
    /\ IF <<job[r].note, job[r].tag>> \in links THEN Answer(r, "409") ELSE Advance(r)
    /\ UNCHANGED <<dbVars, job>>

FindLink(r) ==
    /\ At(r, "find_link")
    /\ IF <<job[r].note, job[r].tag>> \in links THEN Advance(r) ELSE Answer(r, "404")
    /\ UNCHANGED <<dbVars, job>>

InsertIgnoresConflict(l) == noteRow[l[1]] = "live" /\ tagRow[l[2]] = "live"

(* pk_note_tags and the two foreign keys.                                  *)
InsertAllowed(l) ==
    l \notin links /\ noteRow[l[1]] = "live" /\ tagRow[l[2]] = "live"

(* INSERT waits for a transaction that inserts or deletes the same link,  *)
(* or deletes the note.                                                    *)
InsertLink(r) ==
    /\ At(r, "link")
    /\ LET l == <<job[r].note, job[r].tag>>
       IN  /\ \A q \in Others(r) : l \notin tx[q].added \cup tx[q].removed
                                   /\ l[1] \notin tx[q].notes
           /\ IF InsertAllowed(l)
              THEN tx' = [tx EXCEPT ![r].added = {l}] /\ Continue(r)
              ELSE Answer(r, "500")
    /\ UNCHANGED <<dbVars, job>>

UnusedAnyTag(L) == {t \in Tags : tagRow[t] = "live" /\ ~Linked(t, links \ L)}

(* remove_unused_tag, run for each link of L that is deleted: the tags     *)
(* that no other committed link names.                                     *)
Unused(L) == {t \in Tags : Linked(t, L) /\ ~Linked(t, links \ L)}

(* DELETE waits for a transaction that deletes the same link.             *)
DeleteLink(r) ==
    /\ At(r, "unlink")
    /\ LET l == <<job[r].note, job[r].tag>>
       IN  /\ \A q \in Others(r) : l \notin tx[q].removed
           /\ tx' = IF l \in links
                    THEN [tx EXCEPT ![r].removed = {l}, ![r].doomed = Unused({l})]
                    ELSE tx
    /\ Continue(r)
    /\ UNCHANGED <<dbVars, job>>

(* DELETE of a note waits for transactions that hold it or one of its     *)
(* links, and takes the links along (ON DELETE CASCADE).                   *)
DropNote(r) ==
    /\ At(r, "drop_note")
    /\ LET n == job[r].note
       IN  /\ \A q \in Others(r) :
                 /\ n \notin tx[q].notes
                 /\ \A l \in tx[q].added \cup tx[q].removed : l[1] # n
           /\ tx' = IF noteRow[n] = "live"
                    THEN [tx EXCEPT ![r] = [added |-> {}, removed |-> LinksOf(n),
                                            doomed |-> Unused(LinksOf(n)), notes |-> {n}]]
                    ELSE tx
    /\ Continue(r)
    /\ UNCHANGED <<dbVars, job>>

DoomedUnchecked(r) == TRUE

(* fk_note_tags_tag: a link that was committed after the trigger looked   *)
(* makes the removal of the tag fail, and with it the whole statement.     *)
DoomedUnlinked(r) == \A t \in tx[r].doomed : ~Linked(t, links \ tx[r].removed)

(* The trigger's DELETE of a tag waits for a transaction that has          *)
(* inserted a link to it.                                                  *)
Commit(r) ==
    /\ At(r, "commit")
    /\ \A q \in Others(r) : \A t \in tx[r].doomed : ~Linked(t, tx[q].added)
    /\ IF DoomedUnlinked(r)
       THEN /\ links' = (links \ tx[r].removed) \cup tx[r].added
            /\ tagRow' = [t \in Tags |-> IF t \in tx[r].doomed THEN "gone" ELSE tagRow[t]]
            /\ noteRow' = [n \in Notes |-> IF n \in tx[r].notes THEN "gone" ELSE noteRow[n]]
            /\ (Continue(r) /\ TxEnds(r)) \/ Answer(r, "500")
       ELSE Answer(r, "500") /\ UNCHANGED dbVars
    /\ UNCHANGED job

(* Any statement may fail without an effect: time limit, lost connection, *)
(* a deadlock that PostgreSQL breaks.                                      *)
Throw(r) ==
    /\ Running(r)
    /\ Answer(r, "500")
    /\ UNCHANGED <<dbVars, job>>

Serve(r) ==
    \/ FindName(r) \/ InsertTag(r) \/ FindNote(r) \/ FindTag(r) \/ FindNoLink(r)
    \/ FindLink(r) \/ InsertLink(r) \/ DeleteLink(r) \/ DropNote(r) \/ Commit(r)

(* The process stops and is started again: what was open is rolled back.  *)
Restart ==
    /\ \E r \in Reqs : Running(r)
    /\ answer' = [r \in Reqs |-> IF Running(r) THEN "lost" ELSE answer[r]]
    /\ tx' = [r \in Reqs |-> NoTx]
    /\ UNCHANGED <<dbVars, job, pc>>

Rest == (\A r \in Reqs : answer[r] # "none") /\ UNCHANGED vars

Init ==
    /\ noteRow = [n \in Notes |-> "live"]
    /\ tagRow = [t \in Tags |-> IF t \in Stored THEN "live" ELSE "free"]
    /\ links = StoredLinks
    /\ tx = [r \in Reqs |-> NoTx]
    /\ job = [r \in Reqs |-> NoJob]
    /\ pc = [r \in Reqs |-> 0]
    /\ answer = [r \in Reqs |-> "none"]

Next ==
    \/ \E r \in Reqs : Receive(r) \/ Serve(r) \/ Throw(r)
    \/ Restart
    \/ Rest

Spec == Init /\ [][Next]_vars

(* The database and the coroutines go on as long as one of them can.      *)
(* Every request has finitely many steps, so this is enough; Throw and    *)
(* Restart are not in it.                                                  *)
FairSpec == Spec /\ WF_vars(\E r \in Reqs : Serve(r))

-----------------------------------------------------------------------------
(* Properties.                                                             *)

(* Every variable has its type, and only a request that is being served   *)
(* has a transaction open.                                                 *)
TypeOK ==
    /\ noteRow \in [Notes -> {"live", "gone"}]
    /\ tagRow \in [Tags -> {"free", "live", "gone"}]
    /\ links \subseteq Notes \X Tags
    /\ tx \in [Reqs -> [added : SUBSET (Notes \X Tags), removed : SUBSET (Notes \X Tags),
                        doomed : SUBSET Tags, notes : SUBSET Notes]]
    /\ job \in [Reqs -> [op : AllOps \cup {"none"}, note : Notes \cup {None},
                         tag : Tags \cup {None}, name : Names \cup {None}]]
    /\ pc \in [Reqs -> 0 .. 6]
    /\ answer \in [Reqs -> {"none", "ok", "404", "409", "500", "lost"}]
    /\ \A r \in Reqs : tx[r] # NoTx => Running(r)

(* Whatever transactions overlap, a committed link names a live note and  *)
(* a live tag (db_1.sql, the foreign keys of note_tags and the trigger).   *)
NoDanglingLink ==
    \A l \in links : noteRow[l[1]] = "live" /\ tagRow[l[2]] = "live"

(* A tag disappears only together with its last link, never while a note  *)
(* still has it and never before it was used (remove_unused_tag).         *)
TagGoesWithLastLink ==
    [][\A t \in Tags : tagRow[t] = "live" /\ tagRow'[t] = "gone" =>
           Linked(t, links) /\ ~Linked(t, links')]_vars

AddedOk(r) == job[r].op = "add" /\ answer[r] = "ok"

(* Of several requests that add one tag to one note only one is answered  *)
(* 200, unless there is a request that takes a tag of that note, or the    *)
(* note, away: then the tag may have been there twice.                     *)
AtMostOneAdder ==
    \A q, r \in Reqs :
        /\ q # r
        /\ AddedOk(q) /\ AddedOk(r)
        /\ job[q].note = job[r].note /\ job[q].tag = job[r].tag
        => \E s \in Reqs : /\ job[s].op \in {"remove", "note_delete"}
                           /\ job[s].note = job[q].note

(* Between transactions, a tag that was used and is linked to no note any *)
(* more does not exist (db_1.sql:90).                                      *)
UnusedTagRemoved ==
    (\A r \in Reqs : tx[r] = NoTx) =>
        \A t \in Stored : Linked(t, StoredLinks) /\ tagRow[t] = "live" => Linked(t, links)

(* A user has no two tags of the same name (api-1.0.6.yaml:1055).         *)
TagNamesUnique ==
    \A t, u \in Tags :
        tagRow[t] = "live" /\ tagRow[u] = "live" /\ NameOf(t) = NameOf(u) => t = u

Store == INSTANCE TagStore WITH
             NoteIds <- Notes,
             TagIds  <- Tags,
             notes   <- {n \in Notes : noteRow[n] = "live"},
             tags    <- {t \in Tags : tagRow[t] = "live"},
             past    <- {t \in Tags : tagRow[t] = "gone"},
             links   <- links

(* However transactions overlap, wait, fail and are rolled back, what is  *)
(* committed changes as in a store that does one thing at a time: a tag   *)
(* inserted, a link between rows that are there added or removed, a note  *)
(* taken away with all its links, tags only with their last link.          *)
AtomicLinks == Store!Spec

(* No request waits for a lock for ever: each is answered, or lost with   *)
(* the process.                                                            *)
EveryRequestAnswered == \A r \in Reqs : (pc[r] # 0) ~> (answer[r] # "none")

=============================================================================
