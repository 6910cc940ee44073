# TLA+ models of the NoteLuoto backend

The backend is a userver (C++ coroutine) HTTP server over one PostgreSQL
database, a directory of attachment files, and an external AI service that it
calls by gRPC. This directory holds TLA+ models of the parts that keep state,
TLC instances that check them, and TLAPS proofs about each of the six.

Paths below are relative to the repository; `handlers/` is
`src/api/handlers/`.

## The system

Every HTTP request is served by its own coroutine. A handler is a sequence of
`cluster_->Execute` calls; each is a transaction of its own (there is no
`Begin` in the code), so requests interleave between any two statements. What a
statement throws leaves the handler and becomes a 500; what was committed
before stays. Work that the client does not wait for is started with
`userver::utils::Async(...).Detach()`: the task holds copies of what it needs,
runs at any time, and ends with the process.

| part | source | state | operations | interacts with |
|---|---|---|---|---|
| notes, checklists, items | `handlers/note.cpp`, `checklist.cpp`, `checklist_item.cpp` | rows of three tables, linked by cascading foreign keys | post, patch, delete of each | formats and sends the note's text after, or before, its statements |
| note formatting | `src/utils/data_to_text_formatter.cpp` | none; reads by 2 + (number of checklists) statements | `FormatNote` | called by eight handlers |
| AI synchronisation | `src/grpc_clients/grpc_sync_client.cpp`, detached tasks | pending tasks; the text the AI service keeps | AddNote, UpdateNote, DeleteNote | errors are logged and dropped |
| attachments | `handlers/attachment.cpp`, `src/utils/file_manager.cpp` | rows, files in `attachments/` | upload, download, delete; cleaning when a note is deleted | shares the note's row with `note::del` |
| tags | `handlers/tag.cpp`, `postgresql/schemas/db_1.sql` | tags, links, trigger `remove_unused_tag` | create, add, remove; cascade when a note is deleted | shares the note's row |
| timestamps | `db_1.sql:117-188` | `updated_at` of notes and checklists | three triggers | an update of a checklist (not its creation or removal), inserts, updates and deletes of items, uploads and deletes of attachments |
| accounts, authentication | `handlers/register.cpp`, `login.cpp`, `src/api/auth/`, `src/utils/jwt.cpp` | users; a token carries the user id and its end | register, login, check before every other handler | gives handlers their `user_id` |
| search | `handlers/notes.cpp`, `src/search_service/` | none; one or two statements per request, with ids held in between | listing by three strategies, a tag filter, pages | reads notes, links; asks the AI service |
| AI answers, history | `handlers/ai_answer.cpp`, `history.cpp` | history rows | ask, list pages | the AI service |
| suggestions | `handlers/suggest.cpp` | none | forward one call | the AI service |

What is hard, and hardly reached by the functional tests, which send one
request after the other:

* orders of two requests: a row that was found is gone when it is used; a
  text read by several statements shows a state that never was; look-up and
  INSERT are two transactions;
* detached tasks: they overtake each other, they die with the process, and
  their calls fail silently;
* rows and files that must agree, with any step failing;
* PostgreSQL transactions that overlap: what the trigger sees is not what the
  other transaction commits;
* page arithmetic in 32 bits, and rows that move from page to page while a
  client turns them.

`PROJECT.json` lists these hazards line by line under `hazards`.

## Modules

| module | models | proofs |
|---|---|---|
| `RowStore` | what the tables of notes promise: trees of rows, atomic INSERT below a live row, atomic DELETE of a subtree | implemented by `NoteSync` and by `Timestamps` (both proved and checked) |
| `NoteSync` | the nine handlers that change notes, checklists and items, `FormatNote`, the detached tasks, the AI service's texts | `NoteSync_proofs`, `NoteSync_texts_proofs` |
| `Timestamps` | one writing statement of each handler as PostgreSQL executes it: row locks, the triggers on `updated_at`, cascades, commit, deadlock detection | `Timestamps_proofs` |
| `AttachmentStore` | what attachments promise: a file before its row, kept until somebody asks to delete it or its note, a row that goes after its file or with its note | implemented by `Attachments` (proved, checked) |
| `Attachments` | the three attachment handlers, `note::del`, `FileManager`, `deleteAttachments`, `tryDeleteFile` | `Attachments_proofs` |
| `TagStore` | what the tables of tags promise: links between rows that are there, changed one at a time, a tag going only with its last link | implemented by `Tags` (proved, checked) |
| `Tags` | `tag::create`, `tag::note::post`, `tag::note::del`, `note::del`, the trigger and constraints | `Tags_proofs` |
| `Paging` | the offset of a page, computed in a machine integer | `Paging_proofs` |
| `Accounts` (EXTENDS `Paging`) | registration, login, `CheckAuth`, `/ai/answer` and `/history` | `Accounts_proofs` |
| `Search` (EXTENDS `Paging`) | `GET /notes`: the three strategies, the tag filter, the pages | `Search_proofs` |
| `MCNoteSync`, `MCTimestamps`, `MCAttachments`, `MCTags`, `MCAccounts`, `MCSearch` | the instances for TLC: the initial database | |

`NoteSync` and `Timestamps` look at the same tables at two levels. `NoteSync`
takes a statement to be one step and follows the handlers from statement to
statement; `Timestamps` takes a statement apart and has no handlers. What the
one assumes of a statement and the other shows is the same module, `RowStore`.

`NoteSync`, `Attachments`, `Tags` and `Accounts` share a shape. A handler is a sequence of step names, in the order of
its statements (`NotePatch == <<"find", "title", "body", "head", ...>>`); `pc[r]`
is the step that request `r` executes next, 0 before it is received; `job[r]`
holds handler, path argument and given columns; `answer[r]` is `"none"` until
the client is answered. Each kind of step is one action: its guard is that the
request is at such a step, its two outcomes are those of the code (an early
return with 404 or 409, an exception, or the next step). A step that commits
may still end in a 500, because the reply can miss the network time limit
(`static_config.yaml:32-34`); `Throw` is a step that fails without an effect;
`Restart` ends the process. The rows that requests insert carry the name of the
request, which is what `SERIAL` gives: an id is never handed out twice.

Definitions such as `ItemPatchFormatsEarly`, next to the definition they vary,
are the same piece of code with a plausible mistake in it. No specification
uses them; putting one in the place of the original makes a checked property
fail, and `PROJECT.json` (`mutants`) names which.

### NoteSync

State: `status`, `parent`, `writes` of each row; `job`, `pc`, `answer`, `note`
(the handler's `note_id`) of each request; `text` and `todo`, what `FormatNote`
has read and has still to visit; `task`, the detached task a request left;
`index`, the text that the AI service holds for each note (external).

A row's contents is the set of writes it has absorbed, so a text (a set of rows,
each with the contents it had when it was read) shows exactly which changes it
has seen. `Find`, `GetNoteId`, `Insert`, `Update`, `Delete`, `ReadHead`,
`ReadLists`, `ReadItems` are the statements; `Send` is `Async(...).Detach()`;
`Deliver` and `CallFails` are the task's call. `Cascade` is the two-level
`ON DELETE CASCADE`; `ForeignKeyHolds` is the check of an INSERT. The columns
that a PATCH gives vary per request (`FieldsOf`), because a column that is not
given has no UPDATE.

`StaleHasCause` is what remains of "the AI service has the present text" in a
program that drops errors and lets tasks overtake each other. It holds at any time
and judges each note by the requests about it alone. When the text of a live note is
out of date, a request touched the note (`Touches`: it got past the look-up of one of
its rows, or inserts the note), and none that touched it is the last word
(`LastWord`): its handler writes before it reads, its call got through, and all others
that touch the note had ended, with their tasks, when it came. So two requests that
follow each other excuse nothing, and neither does a fault in a request about another
note; a request to one of the handlers that write first (`WriteFirst`) that comes when
the others are over makes good for all that went wrong with them, a 500 after a statement that was committed and
a restart included. What excuses is a handler that formats too early, a text that did
not get through (yet), and requests about one note that overlap.

`NoForeignRow` is about the other end of the same texts: the AI service, which
finds notes by them, is told nothing under the name of a note but rows of that note
with contents that were committed, although `getNoteId` and the queries of
`FormatNote` are statements of their own with inserts and deletes in between.

`EarlierAnswersShown` is what a client may rely on without waiting for the detached
task: the text of a request shows everything that had been answered 200 when the
request came, so that the next request about a note makes good for a text that was
lost or read too early.

`job[r].after` and `job[r].ended` are history variables in the job of a request: the
requests that had been answered 200, and those that had ended with their tasks, when it
came. No guard looks at them.

Left out: the `updated_at` line of the text, the 400 answers of the request
parsers (nothing has been done by then), and the four GET handlers.

### Attachments

State: `noteRow`, `row`, `file` (absent, whole, short, broken), `got` (what a
download returned), and `cleaner`, the detached `deleteAttachments`. `SaveFile`
has four outcomes: whole; short, when `close()` could not write the rest, which
the code does not notice; broken, when it threw after the file was created;
absent. The cleaner takes one file after the other and tries each `MaxRetries`
times; `exists` is outside the `try` block, so its error ends the task
(`CleanDies`).

`AttachmentStore` is the abstract specification: six operations, each on the row or
the file of one attachment, or on a note with its rows. Under the mapping
(`noteRow`, `row`, `file`; `owner`, the note of what was inserted; `asked`, the
targets of the requests to delete that have found them) every step of a handler and
of a cleaning task is one of these operations or a stutter. What the six allow is
what the code promises and no more: a row may go with its note while its file stays
(`Attachments_orphan`), a file may be gone while its row stays, after a client's
wish only, and a `SaveFile` that throws may leave something that never gets a row.
That no row outlives the row of its note (`RowsGoWithNote`) is part of it.

### Tags

State: the committed `noteRow`, `tagRow`, `links`, and `tx[r]`, what the open
transaction of a request will commit. A statement with triggers is two steps,
executing and committing. Executing sees what is committed and its own changes
(READ COMMITTED), waits for a row that another transaction holds, and runs the
trigger for every link it deletes; committing makes it visible. Between the two
lie the interleavings that the trigger gets wrong.

`TagStore` is the abstract specification. Under the mapping (the committed notes,
tags and links; `past`, the tags that are gone) each commit of `Tags` is one of
its steps and everything else a stutter. The abstract store is allowed to keep a
tag without links, because the code does (`Tags_unused`); it is not allowed to
drop one that has a link, to leave half a cascade visible, or to insert a link
below a row that is gone.

### Timestamps

State: the committed `status`, `parent` and `time` (`updated_at`) of each row,
and `tx[r]`, the transaction of a statement: the row it has to lock next
(`needs`) and how (`mode`: foreign key check, UPDATE, DELETE), the rows it holds,
and what its cascade has still to delete. One step locks one row; a lock that
another transaction holds is waited for, and a row that is gone afterwards is
left alone. `Triggered` and `TriggeredByDelete` say which row a trigger updates
next, `CarriedByDelete` with which time. Every handler's writing statement on
these tables is one of `AllOps`, `attachment_post` and `attachment_delete`
included. `BreakDeadlock` is PostgreSQL's deadlock detector. Statements are
numbered in the order in which they begin, and `NOW()` is the number.

`TimeOfLastChange` says what the note's `updated_at` means to a client who sorts by
it: it is `NOW()` of that statement which committed last among those that date the
note (`Dating`). These are the changes of the note itself, of a checklist's title, of
items and of attachments. Two kinds of change do not show, and the property says so:
creating and removing a checklist leave the note's time alone, because the trigger on
checklists is `AFTER UPDATE` only (`db_1.sql:159-163`), although `updated_at` is called
the date of the last update (`api-1.0.6.yaml:754`); and the DELETE of an item may set
the time back (`NoTimeGoesBack`), after which nothing is said until the next change.

### Accounts

State: `users`, `history`, the clock `now`; for each request the row that a
login found, the `user_id` that `CheckAuth` put into the context, the token a
login answered with, and the page a listing answered with. `UsersWith` is the
INSERT under the unique constraint; a registration that loses the race is
answered 500 here, as in the code, where the look-up alone answers 409. A hash is
a salted image of the password; a token that was not issued does not decode. The
INSERT into the history takes two steps, because `created_at` is read at the
begin of its transaction and the row shows when it commits. The offset of a page
of the history is a product of two `int`s (`history.cpp:37`), so `Paging` computes
it; one that does not fit wraps, and a negative one makes PostgreSQL refuse the
statement, which is a 500.

### Search and paging

State: of each note its row, `updated_at`, whether its text matches the query, and
its links; of the request its caller, filters and step, `ids` (the ids found, held
between the statements), the `page` it answered with, and `last`, the page that the
client had before this one. The three strategies are three programs
(`Program(kind)`): `NoneSearch` and `ExactSearch` find ids and then read rows,
`SemanticSearch` asks the AI service first and then keeps the caller's notes only
(`semantic_search.cpp:15-18`), `SemanticUnfiltered` is the mutant that does not.
Whatever other requests commit in between is one action per kind of change: note
created, changed, deleted, its `updated_at` set back by a deleted item, or left alone
when a checklist comes or goes (`ChangeLists`), a tag added or removed. One client asks again and again, for an arbitrary list or for the page
after the last: a request writes nothing, so that several clients do not notice
each other. The result of `AskAI` is any set of existing or deleted ids, of any
owner.

Two things follow from the code and are kept by the model, and the properties say
exactly how far the listing can be relied on:

* `(page - 1) * limit` is computed in 64 bits and cut to an `int`
  (`search_strategy.cpp:25`). With a 32-bit `int`, `page = 2^29 + 1, limit = 8`
  lists the first page again, and `page = 2^28, limit = 16` has a negative offset
  and is answered 500, where a page past the end is an empty list
  (`tests/tests_note/test_get_all_note.py:63-80`). `PageAsAsked` holds for the pages
  whose offset fits, and `Paging_proofs` shows what becomes of the others when a
  client turns the page.
* The number of distinct names that a note carries is compared with the length of
  the list (`sql.hpp:289`), so a list that gives one name twice finds nothing.
  `OnlyWithAllNames` says that the mistake is on the safe side: no note is listed
  that lacks one of the names, also when two tags have the same name.

The `total_count` of the response is the number of rows of the page; it is a
function of what is shown and not modelled.

## Checks

All passing runs check deadlock (no `CHECK_DEADLOCK FALSE`): a state without a
successor other than the explicit `Rest` of a finished system would be
reported.

| run | instance | result |
|---|---|---|
| `NoteSync_all` | 2 requests, all handlers, one note with one checklist of one item, fair | `TypeOK`, `ForgetOnlyDeleted`, `OwnWriteSent`, `OkMeansCommitted`, `FreshIfWrittenFirst`, `AtomicRows`, `StaleHasCause`, `NoForeignRow`, `EarlierAnswersShown`, `EveryRequestAnswered` hold |
| `NoteSync_stale` | 2 requests, all handlers | `FreshTextSent` is violated |
| `NoteSync_order` | `note_patch` only | `IndexNeverGoesBack` is violated |
| `Timestamps_all` | 3 statements, a note with a checklist of one item and an attachment, fair | `TypeOK`, `UpdatesNeverDeadlock`, `TimeOfLastChange`, `AtomicRows`, `EveryStatementEnds` hold |
| `Timestamps_back` | 1 statement | `NoTimeGoesBack` is violated |
| `Attachments_all` | 2 requests, 3 attempts to remove a file, fair | `TypeOK`, `NothingLostUnasked`, `AtMostOneRemover`, `NoBrokenServed`, `StoredFilesFollowNote`, `AttachmentLife`, `EveryRequestAnswered`, `EveryCleanerEnds` hold |
| `Attachments_orphan` | 2 requests, with uploads | `FilesFollowNote` is violated |
| `Tags_all` | 3 requests, 2 notes with a tag in common, fair | `TypeOK`, `NoDanglingLink`, `AtMostOneAdder`, `TagGoesWithLastLink`, `AtomicLinks`, `EveryRequestAnswered` hold |
| `Tags_unused` | 2 requests to remove a tag | `UnusedTagRemoved` is violated |
| `Tags_names` | 2 requests to create a tag | `TagNamesUnique` is violated |
| `Accounts_all` | 3 requests, one user with 2 rows of history, `int` of 3 bits, pages 1 to 3 of two rows | `TypeOK`, `OneAccountPerName`, `RegisteredCanLogin`, `OwnHistoryOnly`, `NoGapBetweenPages` hold |
| `Search_all` | one client, 4 notes of two users, 3 tags of which two have one name, lists with no, two and a repeated name, `int` of 4 bits, pages 0, 1, 7 and the next ones, 1 or 3 rows | `TypeOK`, `OwnNotesOnly`, `NoSkippedNote`, `OnlyWithAllNames`, `PageAsAsked` hold |

`AtomicRows` is the abstract specification `RowStore` under the identity
refinement mapping: `status` and `parent` are the rows of both. `AtomicLinks` is
`TagStore` and `AttachmentLife` is `AttachmentStore`, under the mappings given above.

What the violations mean:

* `NoteSync_stale`: `checklist::del`, `item::post` and `item::del` format the
  note before they change it. One such request, without any failure, leaves the
  AI service with a text that still shows what was deleted or lacks what was
  added.
* `NoteSync_order`: the tasks of two PATCHes of one note run in either order,
  while `test_sync_client.py:58-69` expects the order of issue.
* `Timestamps_back`: `update_checklist_timestamp` gives the checklist the time of
  the item that was deleted, which may be older than the last change of the
  checklist, and the note gets it too: deleting an old item moves a note down in
  a list that is ordered by the date of the last update.
* `Attachments_orphan`: an upload's row inserted between the listing of the
  files and the DELETE of the note goes with the note; its file stays for ever.
* `Tags_unused`: two transactions that delete the last two links of a tag each
  see the other's link, and the tag stays.
* `Tags_names`: two requests for one name both find none; the table has no
  unique constraint.

Bounds. Each request is sent once, and 2 or 3 requests run at the same time:
every hazard above is one of two or three actors, and a client's further
requests are more of the same kind. `NoteSync` and `Attachments`, whose requests
have up to eight steps, take two; `Tags`, `Timestamps` and `Accounts` take three,
because a tag with two links needs two removers and an adder, a circle of
waiting statements may have three members, and two registrations followed by a
login, or two pages with an answer in between, are three requests. In these three
modules requests are numbered in the order in which they arrive (`Receive`,
`Begin`), which excludes no behaviour but its renamings. The initial database
has a row at each level, so that cascades of every depth, updates of parent and
child, and inserts below a row that is being deleted occur. `Accounts` bounds the
clock (`MaxTime`) such that an old token is valid at first and expires within
the run; a page has two rows and `MaxInt` is 3, so that insertions move rows to
another page, the second page has a positive offset and the third one wraps.
`Search` bounds the clock at two changes by others (`MaxTime`), which is enough to
create, change, delete or re-tag a note before, between and after the statements of
a request; with `MaxInt = 7` the accepted pages contain one before the first (0,
answered 400), offsets that fit, and (page 7 of three rows) one that wraps.

Fairness. Coroutines are scheduled, and each statement ends (there are time limits,
`static_config.yaml:32-34`): weak fairness of `Serve(r)`, one condition per request,
in `NoteSync` and `Attachments`, and of the cleaning tasks of `Attachments`, whose
steps are calls of the file system. The detached tasks of `NoteSync` have no fairness:
a gRPC call has no deadline (`grpc_sync_client.cpp` sets none, nor does
`static_config.yaml`), so a task may hang for ever, and `EveryRequestAnswered` says
that requests are answered all the same. Where statements wait for each other's locks, in `Tags` and
`Timestamps`, less is assumed: that the database goes on as long as some
statement can (`WF_vars(\E r \in Reqs : Serve(r))` in `Tags`, `GoesOn` in
`Timestamps`), which includes the detection of deadlocks. It suffices because a statement takes finitely many steps. `Receive`, `Begin`, `Throw`, `Fail`,
`CleanDies` and `Restart` have no fairness: clients owe nothing, and no failure
has to come to a request's help. `Accounts` and `Search` state no liveness and no
fairness: their requests have neither loops nor waits.

## Proofs

The assumptions of each theorem are the `ASSUME`s of the modules it is about, which
TLC evaluates in every run; nothing else is taken for granted. Every theorem holds
for the specification without fairness.

### NoteSync_proofs

Proves, for every set of requests, every choice of handlers
and every initial database that satisfies `StoredAssumption`:

* `TypeCorrect`: `Spec => []TypeOK`, which includes that no handler formats or
  sends before it knows its `note_id`;
* `NoOrphans`: `Spec => []NoOrphanRow`, no live checklist or item without its live
  parent (TLC sees it as part of `AtomicRows`);
* `ForgetsOnlyDeleted`: `Spec => []ForgetOnlyDeleted`;
* `RowsAreAtomic`: `Spec => AtomicRows`, the refinement of `RowStore`: every
  INSERT and every DELETE of `NoteSync` is one of the abstract store or changes
  nothing, and no other step touches the rows;
* `Inductive`: `Spec => []IndInv`, from which the four follow.

`IndInv` is needed because none of the invariants is inductive. That a cascade of two
levels takes every descendant along rests on rows forming trees of three levels,
also after they are gone (`Trees`); that an INSERT adds to such a tree rests on
the target of a request being a row of the handler's table (`Targets`); that it
creates a new row, on the request not having inserted before (`NotInsertedYet`).
That a deletion is announced only when done rests on the row being gone once the
request is past its DELETE (`Deletes`), on the announced id being that of the
target (`NoteIds`), and on gone rows staying gone. That a DELETE of a row that is
gone already maps to a stuttering step rests on `NoOrphanRow`: nothing is left
below it. What is used of the nine
handlers' order of steps is one lemma, `ProgramFacts`, checked handler by
handler; the rest argues about any handler with these facts. The assumptions are
the three named ones of `NoteSync`: `Ops` are known handlers, ids of stored rows
and of requests differ, and stored rows form trees. TLC evaluates them in every
run.

### Accounts_proofs

Proves, for every set of requests, names, passwords and pages,
every page length and every history at the start, all five properties that the
run checks:

* `TypeCorrect`: `Spec => []TypeOK`, which includes that past `CheckAuth` a
  handler has a `user_id`;
* `RegisteredOnce`: `Spec => []OneAccountPerName`;
* `LoginWorks`: `Spec => []RegisteredCanLogin`;
* `OwnHistory`: `Spec => []OwnHistoryOnly`;
* `NoGaps`: `Spec => []NoGapBetweenPages`.

Its `IndInv` follows what a later step relies on through the earlier ones. That
two registrations of one name are not both answered 201 rests on each of them
owning the one row of its name (`Owners`): equal rows have equal ids, and an id
is the request. That the owner's login succeeds rests on the same row being the
one that the look-up returns (`FoundByName`), and on registrations that were
answered before staying so (`Later`). That a listing shows its user's rows only
goes back from the page to the `user_id` (`Listings`), from there to the token
(`Context`), and from the token to the password that a login gave (`Issued`). That
pages have no gap is arithmetic on how many rows come before one, which only
grows when rows are added (`BeforeMonotone`); the invariant adds that histories
are finite. A page whose offset is negative is refused by the database and shows
nothing, and `Paging_proofs` says that from one page to the next the offset grows by
the length of a page or becomes negative, so that no page is passed over.
The assumptions are `ReqsAssumption`, `HistoryAssumption` (page numbers and the
page length are at least 1, the history at the start is not from the future),
`NoneAssumption` (`None` is no user, row or token) and `MaxIntAssumption` of
`Paging`, all of which TLC evaluates in `Accounts_all`.

### Paging_proofs and Search_proofs

`Paging` computes in an `int` of any width. `ToIntNext` shows that an `int` that is
not negative, advanced by another one and cut to the width, is the sum or negative;
it is what makes the two theorems about pages, here and in `Accounts_proofs`, hold
for every `MaxInt` instead of 7.

`Search_proofs` proves all five properties of the run for every set of notes, users,
tags, names, lists of names, pages and page lengths: `TypeCorrect`, `OwnNotes`
(`OwnNotesOnly`), `AllNames` (`OnlyWithAllNames`), `RightPage` (`PageAsAsked`) and
`NoneSkipped` (`NoSkippedNote`). That the ids held between two statements are the
caller's, and stay so until they are used, is `OwnIds`; a note has one owner for ever.
That a page shows the ranks it was asked for rests on no two live notes having the
same `updated_at` (`Clocked`), which makes the order total; that nothing is skipped,
on both pages being cut with offsets that are one length apart (`Cuts`), and on the
number of notes ahead of a note being a count of a finite set that can shrink only
when one of them no longer is ahead. That two live notes never have one `updated_at`
is a simplification of the model (`DeleteItem`), not of the database.

### Timestamps_proofs

For every set of statements, and every stored database whose rows form trees:
`TypeCorrect`, `NoDeadlockOfUpdates` (`UpdatesNeverDeadlock`), `LastChangeShows`
(`TimeOfLastChange`) and `RowsAreAtomic` (`AtomicRows`). The argument, conjunct by
conjunct of `IndInv`:

* two transactions do not hold a row in modes that exclude each other (`Apart`),
  from what a granted lock says about the others (`LockIsFree`);
* therefore a row that is held stays (`Held`): a commit deletes only what it holds
  for itself alone;
* a statement is of one of three shapes (`InsertShape`, `UpdateShape`,
  `DeleteShape`): an INSERT checks one key and goes up, an UPDATE goes up, a DELETE
  goes down, and goes up only when it deleted a single leaf;
* `Cascades`: what is marked for deletion is a row with what hangs on it, and what
  is not marked yet is still listed. The row to which an INSERT holds the key
  cannot be marked by another, and that is why no row comes too late for a cascade
  (`NoOrphanRow`). With nothing left to delete, the marked rows are a row and all
  that is below it, which is `Delete` of `RowStore` (`DyingIsWhole`);
* `Climbs`: the row to be updated next is higher than all that were updated. In a
  circle of statements without a DELETE each one waits for a row that the next one
  has updated, so that the levels would grow for ever, and there are three;
* `Times`, `Reached`: the time that a trigger carries is that of its statement, and
  differs from every time in the table, so that the comparison in
  `update_note_timestamp` does not stop it; when nothing is left to lock, the note
  is among the rows that were updated. Only the time that comes with a deleted item
  is an old one; `Timestamps_back` shows what it does;
* `Stamps`: what a statement updates lies on the way to its own note, and one that
  creates or removes a checklist updates nothing. With `Reached` this is
  `TimeOfLastChange`, which is inductive together with the rest: a commit that dates
  the note sets its time to `NOW()`, and one that does not leaves it alone. A note
  that changed has an entry in the log which keeps its operation and its note
  (`DatesStay`, `LastDates`).

### Tags_proofs

For every set of requests, notes and tags: `TypeCorrect`, `LinksAreWhole`
(`NoDanglingLink`), `OneAdder` (`AtMostOneAdder`), `TagsGoLast`
(`TagGoesWithLastLink`) and `LinksAreAtomic` (`AtomicLinks`). `IndInv` says of each
open transaction what it has inserted, deleted and locked at each step
(`TxShape`), that what it holds is still as its statement found it (`Locks`), and of
two that they hold no link or note together (`Apart`). The trigger decides which tags
go while it looks at committed links, and its decision may be out of date when the
transaction commits. No link is left dangling because the commit waits for a
transaction that inserted a link to such a tag, and is refused by the foreign key
once that link has committed. What is out of date in the other direction, a tag
that loses its last two links at the same time, is `Tags_unused`.

### Attachments_proofs

For every set of requests, names and stored attachments: `TypeCorrect`,
`RowsGoWithNote` (no
row of an attachment is left when its note is gone), `NothingLost` (`NothingLostUnasked`), `OneRemover`
(`AtMostOneRemover`), `BrokenStaysUnserved` (`NoBrokenServed`), `StoredFilesGo`
(`StoredFilesFollowNote`) and `LifeIsKept` (`AttachmentLife`). The invariant relates a row with its file at every step
of an upload (`Uploads`, `NoBrokenRow`), says which paths a cleaning task holds and
that they were rows of a note whose removal was asked for (`Cleaners`), and who may
have unlinked a file (`Unlinked`). `StoredFilesGo` needs that what was stored
before is in the list that `note::del` took (`StoredInserted`, `Listed`) and that it
is with a cleaner from then on until it is gone (`Handled`). `LifeIsKept` needs that
a file is not there before its request saves it (`SavedLate`). A request belongs to
`asked` from the step on in which it finds its target, `Find` or `FindNote`
(`AsksWhenFound`), and every unlink, of a handler or of a cleaning task, is that of a
request past this step (`Unlink`, `Cleaners`). A DELETE of a row that is gone is a
stutter, and one of a note that is gone too, because `NoOrphanRow` leaves it no rows.

### NoteSync_texts_proofs

Proves, for every set of requests, every choice of handlers and every initial
database, what is said of texts. `TextInv` extends `IndInv` of `NoteSync_proofs` by
what was written and read: `OkIsOk` (`OkMeansCommitted`) and `OwnWritesAreSent`
(`OwnWriteSent`). An UPDATE of a row that is gone changes nothing and the handler does
not look (`note.cpp`); `Written` says that past the statement of a column the row has
absorbed it or is gone. That the text shows the write (`TextShows`) is followed from
statement to statement of `FormatNote`: a row that the request wrote is in the text,
is still to be read, or is gone, and rows do not lose what they have absorbed.

`FreshInv` extends `TextInv` by what the AI service has: `FreshTextIsSent`
(`FreshIfWrittenFirst`) and `StaleIsCaused` (`StaleHasCause`). That each handler sends
its own change says nothing about a text that agrees with all changes of others; it
could be that each text lacks another's. The invariant names the request that has not
missed anything (`FreshWitness`): as long as nothing fails and no handler has
formatted too early, some writer of a note is up to date (`UpToDate`), which means
that what it has read so far is what it would read now. A writer that has not yet read
is up to date whatever the others do; when one changes the note, it has not read
itself (`HandlerFacts`) and is the new witness; when a writer joins that has not
changed anything, the old witness stays; queries of the witness keep it up to date
(`Seen` and `todo` say how far it is). An early 404 takes no witness away, because it
is the answer of the first statement (`NotFoundAtStart`), after which a request is
not yet a writer. At the end the witness has sent what it has read, which is the whole
note; that a task carries the note of its request is `OwnNote`, `Sent` and `Unsent`.

`StaleIsCaused` needs no witness and no run without faults. A note that no request
touches has the text of the start (`Untouched`). A request that came when all others
about its note had ended is up to date at every step, whatever had become of those
(`AloneIsFresh`): nothing changes the note behind its back, because what had ended
stays so and has no task left (`Over`); it has a task only if it answered 200
(`SendsLast`), so that its text is the note's when it is delivered, and no delivery
replaces it. A request that touches the note later takes the premise away.

`NothingForeign` (`NoForeignRow`) rests on the tree below a note being closed under
parents and kept when rows go (`OwnReading`): the rows that a handler reads by its
`note_id`, and by the checklists it read before, are the note's, and so is what it sends
(`OwnTexts`).

`EarlierShows` (`EarlierAnswersShown`) adds two parts to that, `EarlierInv`: the
requests that came before were answered, which is final (`CameAfter`), and what they
wrote is seen step by step (`EarlierShown`). Once the query of FormatNote has been made
that reads the table of such a row (`ReadBy`), the text shows the row, or it is gone, or
it is an item of a checklist still to be visited; that the query finds it rests on the
committed contents (`OkIsOk`), which only grow, and on the parents of a live row being
live (`WhereRead`). What an earlier request deleted is not read, because the rows that
are read are live and so are their parents (`DeletedUnread`). `SaidMoves` gives the
five things that a step can do to the text of one request; the rest of the proof is
about these five. The nine handlers enter by `QueryFacts` only.

### Only model-checked

Liveness (`EveryRequestAnswered`, `EveryCleanerEnds`,
`EveryStatementEnds`) is out of the prover's reach, because fairness is about
`ENABLED`. Every invariant, action property and refinement that a passing run checks
is a theorem. No module uses a `RECURSIVE` operator; the one fact that asks for an
induction over a finite set (`LeastValue`) is taken from the well-founded order of its
subsets.

## Not modelled

Which texts full-text and semantic search match, password hashing, the signature of
tokens, JSON and SQL texts, CORS headers and start-up are libraries or stateless.
`GET /suggest` forwards one call of the AI service and keeps nothing; the listing of
tags and the four GETs of single rows are one statement each. `SELECT`-only handlers
change nothing; a torn read is modelled where it has consequences, in
`FormatNote`. Replicas: all statements ask for `kSlaveOrMaster`, but the
configuration names one server (`config_vars.yaml:10`), so that reads are of the
present database.

## What is left

* An abstract specification of the channel to the AI service (each text at most
  once, in any order, a deletion only of what is gone), implemented by `NoteSync` as
  `RowStore` is.
* `NoteSync` over `Timestamps`: the handlers with statements that are not atomic.
  `RowStore` is the interface on which the two agree; the product is too large for
  TLC beyond one request.
