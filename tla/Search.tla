------------------------------- MODULE Search -------------------------------
(***************************************************************************)
(* GET /notes: a list of the caller's notes, found by one of three         *)
(* strategies, filtered by tags and cut into pages.                        *)
(*                                                                         *)
(* A request is one or two statements, after a call of the AI service when *)
(* the search is semantic: the ids of the notes that are found, and the    *)
(* page of their rows.  What other requests commit in between is one       *)
(* action for each kind of change.  Whether a text matches the query is a  *)
(* bit of each note; the order of the rows of a page is that of            *)
(* updated_at, so a page is a set.  No two notes have equal updated_at.    *)
(* Requests only read, so those of several clients do not notice each      *)
(* other: one client is modelled, who asks for a list, or for the page     *)
(* after the one that he was answered with, again and again.               *)
(***************************************************************************)
EXTENDS Paging, Sequences, FiniteSets

CONSTANTS
    Callers,        \* the users who ask
    Kinds,          \* the searches they ask for
    TagLists,       \* the lists of tag names they give
    Pages, Limits,  \* the pages they ask for, and the lengths
    MinLimit, MaxLimit,     \* the lengths that are accepted, 5 and 20
    Notes,          \* the ids of notes
    Owner,          \* user_id of each
    Stored,         \* the notes in the database when the run starts
    StoredTime,     \* their updated_at
    Matching,       \* those whose text matches the query
    Tags,           \* the ids of tags
    TagName,        \* the name of each
    StoredLinks,    \* the links between notes and tags when the run starts
    Launch,         \* the time at which the run starts
    MaxTime         \* bound on the clock

AllKinds == {"none", "exact", "semantic"}

ASSUME ArgsAssumption ==
    /\ Kinds \subseteq AllKinds
    /\ \A names \in TagLists : names \in Seq({names[i] : i \in DOMAIN names})
    /\ Pages \subseteq Int /\ Limits \subseteq Int
    /\ MinLimit \in Nat \ {0} /\ MaxLimit \in Nat /\ MaxLimit <= MaxInt

ASSUME StoredAssumption ==
    /\ Stored \subseteq Notes /\ IsFiniteSet(Stored)
    /\ Launch \in Nat /\ StoredTime \in [Stored -> 0 .. Launch]
    /\ \A m, n \in Stored : StoredTime[m] = StoredTime[n] => m = n
    /\ Matching \subseteq Notes /\ StoredLinks \subseteq Stored \X Tags

VARIABLES
    row,        \* of each note: not inserted yet, live or gone
    time,       \* updated_at of each note
    hits,       \* the notes whose text matches the query
    links,      \* note_tags
    clock,      \* the present time
    job,        \* the present request: who asks for what
    pc,         \* its next step
    answer,     \* how it was answered
    ids,        \* note_ids
    page,       \* the page it answers with, and the rows it was cut from
    last        \* the page that the client had when he asked for the next one

dbVars == <<row, time, hits, links, clock>>
vars   == <<row, time, hits, links, clock, job, pc, answer, ids, page, last>>

NoJob == [user |-> "none", kind |-> "none", tags |-> << >>, page |-> 1, limit |-> 1]

NoPage == [shown |-> {}, listed |-> {}, time |-> << >>]

NoneSearch == <<"ids", "rows">>

SemanticUnfiltered == <<"ask", "rows">>

SemanticSearch == <<"ask", "ids", "rows">>

Program(kind) == IF kind = "semantic" THEN SemanticSearch ELSE NoneSearch

Running == answer = "none"

At(step) == Running /\ Program(job.kind)[pc] = step

Answer(code) == answer' = code /\ UNCHANGED pc

Advance == pc' = pc + 1 /\ UNCHANGED answer

-----------------------------------------------------------------------------
(* The statements.                                                         *)

Live == {n \in Notes : row[n] = "live"}

OwnedBy(u) == {n \in Live : Owner[n] = u}

(* t.name = ANY($2), whoever the tag belongs to.                           *)
NamesFound(n, names) ==
    {TagName[t] : t \in {t \in Tags : /\ <<n, t>> \in links
                                      /\ \E i \in DOMAIN names : names[i] = TagName[t]}}

TagRowsFound(n, names) ==
    {t \in Tags : <<n, t>> \in links /\ \E i \in DOMAIN names : names[i] = TagName[t]}

CarriesByRows(n, names) ==
    names = << >> \/ Cardinality(TagRowsFound(n, names)) = Len(names)

(* HAVING COUNT(DISTINCT t.name) = array_length($2, 1); no filter without *)
(* names.                                                                  *)
Carries(n, names) == names = << >> \/ Cardinality(NamesFound(n, names)) = Len(names)

(* How many rows ORDER BY updated_at DESC puts before n.                   *)
Before(n, S, t) == Cardinality({m \in S : t[m] > t[n]})

OffsetOfNextPage(p, limit) == OffsetOf(p + 1, limit)

OffsetOfLongerPages(p, limit) == OffsetOf(p, limit + 1)

Offset(p, limit) == OffsetOf(p, limit)

PageOf(S, t, p, limit) ==
    {n \in S : /\ Offset(p, limit) <= Before(n, S, t)
               /\ Before(n, S, t) < Offset(p, limit) + limit}

-----------------------------------------------------------------------------
(* The steps of a request.                                                 *)

AcceptedAnyPage(p, limit) == p <= MaxInt /\ limit \in MinLimit .. MaxLimit

(* std::stoi throws for what is no int.                                    *)
Accepted(p, limit) == p \in 1 .. MaxInt /\ limit \in MinLimit .. MaxLimit

Receive(j, before) ==
    /\ ~ Running
    /\ IF Accepted(j.page, j.limit)
       THEN job' = j /\ last' = before /\ answer' = "none"
       ELSE answer' = "400" /\ UNCHANGED <<job, last>>
    /\ pc' = 1
    /\ page' = NoPage
    /\ UNCHANGED <<dbVars, ids>>

Jobs == [user : Callers, kind : Kinds, tags : TagLists, page : Pages, limit : Limits]

AskAnew == \E j \in Jobs : Receive(j, NoPage)

TurnPage == answer = "200" /\ Receive([job EXCEPT !.page = @ + 1], page)

(* External: the AI service names notes, of any user, also deleted ones.  *)
AskAI ==
    /\ At("ask")
    /\ ids' \in SUBSET {n \in Notes : row[n] # "free"}
    /\ Advance
    /\ UNCHANGED <<dbVars, job, page, last>>

Found ==
    CASE job.kind = "none"     -> OwnedBy(job.user)
      [] job.kind = "exact"    -> OwnedBy(job.user) \cap hits
      [] job.kind = "semantic" -> OwnedBy(job.user) \cap ids

SearchNotes ==
    /\ At("ids")
    /\ ids' = Found
    /\ Advance
    /\ UNCHANGED <<dbVars, job, page, last>>

Listed == {n \in ids : row[n] = "live" /\ Carries(n, job.tags)}

(* No statement is needed for no ids; PostgreSQL refuses OFFSET -1.        *)
FilterByTags ==
    /\ At("rows")
    /\ IF ids # {} /\ Offset(job.page, job.limit) < 0
       THEN Answer("500") /\ UNCHANGED page
       ELSE /\ page' = [shown  |-> PageOf(Listed, time, job.page, job.limit),
                        listed |-> Listed,
                        time   |-> [n \in Listed |-> time[n]]]
            /\ Answer("200")
    /\ ids' = {}
    /\ UNCHANGED <<dbVars, job, last>>

(* A statement or the call fails: time limit, lost connection.             *)
Throw ==
    /\ Running
    /\ Answer("500")
    /\ ids' = {}
    /\ UNCHANGED <<dbVars, job, page, last>>

Restart ==
    /\ Running
    /\ Answer("lost")
    /\ ids' = {}
    /\ UNCHANGED <<dbVars, job, page, last>>

Serve == AskAI \/ SearchNotes \/ FilterByTags

-----------------------------------------------------------------------------
(* What other requests commit.                                             *)

Commits == clock < MaxTime /\ clock' = clock + 1 /\ UNCHANGED <<job, pc, answer, ids, page, last>>

(* The text of the note is another one afterwards.                         *)
TextChanges(n) == hits' \in {hits \cup {n}, hits \ {n}}

CreateNote(n) ==
    /\ row[n] = "free"
    /\ row' = [row EXCEPT ![n] = "live"]
    /\ time' = [time EXCEPT ![n] = clock + 1]
    /\ TextChanges(n)
    /\ Commits
    /\ UNCHANGED links

ChangeNote(n) ==
    /\ row[n] = "live"
    /\ time' = [time EXCEPT ![n] = clock + 1]
    /\ TextChanges(n)
    /\ Commits
    /\ UNCHANGED <<row, links>>

(* The trigger on a deleted item hands its updated_at on to the note.     *)
DeleteItem(n) ==
    /\ row[n] = "live"
    /\ \E t \in 0 .. clock :
          /\ \A m \in Live : time[m] # t
          /\ time' = [time EXCEPT ![n] = t]
    /\ TextChanges(n)
    /\ Commits
    /\ UNCHANGED <<row, links>>

(* A checklist is created or removed, which no trigger passes on.          *)
ChangeLists(n) ==
    /\ row[n] = "live"
    /\ TextChanges(n)
    /\ Commits
    /\ UNCHANGED <<row, time, links>>

DeleteNote(n) ==
    /\ row[n] = "live"
    /\ row' = [row EXCEPT ![n] = "gone"]
    /\ links' = {l \in links : l[1] # n}
    /\ Commits
    /\ UNCHANGED <<time, hits>>

AddTag(n, t) ==
    /\ row[n] = "live"
    /\ links' = links \cup {<<n, t>>}
    /\ Commits
    /\ UNCHANGED <<row, time, hits>>

RemoveTag(n, t) ==
    /\ <<n, t>> \in links
    /\ links' = links \ {<<n, t>>}
    /\ Commits
    /\ UNCHANGED <<row, time, hits>>

Others ==
    \E n \in Notes :
        \/ CreateNote(n) \/ ChangeNote(n) \/ DeleteItem(n) \/ ChangeLists(n) \/ DeleteNote(n)
        \/ \E t \in Tags : AddTag(n, t) \/ RemoveTag(n, t)

Init ==
    /\ row = [n \in Notes |-> IF n \in Stored THEN "live" ELSE "free"]
    /\ time = [n \in Notes |-> IF n \in Stored THEN StoredTime[n] ELSE 0]
    /\ hits = Matching
    /\ links = StoredLinks
    /\ clock = Launch
    /\ job = NoJob
    /\ pc = 1
    /\ answer = "lost"
    /\ ids = {}
    /\ page = NoPage
    /\ last = NoPage

Next == AskAnew \/ TurnPage \/ Serve \/ Throw \/ Restart \/ Others

Spec == Init /\ [][Next]_vars

-----------------------------------------------------------------------------
(* Properties.                                                             *)

NameLists == TagLists \cup {<< >>}

IsResult(p) ==
    /\ p.listed \subseteq Notes /\ p.shown \subseteq p.listed
    /\ p.time \in [p.listed -> Nat]

(* Every variable has its type, and a request that is served asks for a   *)
(* page and a length that are accepted.                                    *)
TypeOK ==
    /\ row \in [Notes -> {"free", "live", "gone"}]
    /\ time \in [Notes -> Nat]
    /\ hits \subseteq Notes
    /\ links \subseteq Notes \X Tags
    /\ clock \in Nat
    /\ job \in [user : Callers \cup {"none"}, kind : AllKinds, tags : NameLists,
               page : 1 .. MaxInt, limit : 1 .. MaxInt]
    /\ pc \in 1 .. 3
    /\ answer \in {"none", "200", "400", "500", "lost"}
    /\ ids \subseteq Notes
    /\ IsResult(page) /\ IsResult(last)

(* The statement that reads the rows does not ask whose they are, and the *)
(* AI service names notes of all users: still a caller is shown none but   *)
(* his own (semantic_search.cpp:15-18).                                    *)
OwnNotesOnly == \A n \in page.shown : Owner[n] = job.user

HasName(n, name) == \E t \in Tags : <<n, t>> \in links /\ TagName[t] = name

HasNames(n, names) == \A i \in DOMAIN names : HasName(n, names[i])

(* Two tags may have one name, and a list may name a tag twice: whatever  *)
(* is counted, a note is shown only if it has every name of the list       *)
(* (sql.hpp:289).                                                          *)
OnlyWithAllNames ==
    [][\A n \in page'.shown : HasNames(n, job.tags)]_page

NoRepeats(names) == \A i, j \in DOMAIN names : names[i] = names[j] => i = j

Wanted == {n \in ids : row[n] = "live" /\ HasNames(n, job.tags)}

(* Page p of length l shows exactly the rows (p - 1) * l to p * l - 1 of  *)
(* the notes found that have all the names, as long as that offset fits an *)
(* int and no name is given twice.  A larger offset shows other rows, a    *)
(* name given twice shows none (search_strategy.cpp:25, sql.hpp:289).      *)
PageAsAsked ==
    [][ answer' = "200" /\ Fits(job.page, job.limit) /\ NoRepeats(job.tags) =>
           LET first == (job.page - 1) * job.limit
           IN page'.shown = {n \in Wanted :
                  Before(n, Wanted, time) \in first .. first + job.limit - 1} ]_answer

Ahead(n, p) == {m \in p.listed : p.time[m] > p.time[n]}

(* n comes after a row of the last page, and not after all of this one.   *)
Skipped(n) ==
    /\ n \in last.listed \cap page.listed
    /\ n \notin last.shown \cup page.shown
    /\ \E m \in last.shown : n \notin Ahead(m, last)
    /\ page.shown = {} \/ \E m \in page.shown : m \notin Ahead(n, page)

(* Notes are created and changed while a client turns the pages, and rows *)
(* move.  A note that is on the list all the time is passed over only if   *)
(* another one that was ahead of it is no longer: it was deleted, lost a   *)
(* tag, or moved behind it; or the note itself moved forward.              *)
NoSkippedNote ==
    answer = "200" => \A n \in Notes : Skipped(n) => ~ (Ahead(n, last) \subseteq Ahead(n, page))

=============================================================================
