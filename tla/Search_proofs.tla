---------------------------- MODULE Search_proofs ----------------------------
(***************************************************************************)
(* Proofs about Search for every width of int, every set of requests and   *)
(* every database: the type invariant, that a client is shown his own      *)
(* notes and only with the names that he gave, that the page is the one he *)
(* asked for, and that turning the pages skips no note that keeps its      *)
(* place.                                                                  *)
(***************************************************************************)
EXTENDS Search, Paging_proofs, FiniteSetTheorems

-----------------------------------------------------------------------------
(* The parts of the inductive invariant.                                   *)

(* A request that is served is at a step of its program.                   *)
Progress == Running => pc \in 1 .. Len(Program(job.kind))

(* No two live notes have one updated_at, and none is of the future.       *)
Clocked ==
    /\ IsFiniteSet({n \in Notes : row[n] # "free"})
    /\ \A n \in Live : time[n] <= clock
    /\ \A m, n \in Live : time[m] = time[n] => m = n

(* Past the second statement the ids are those of the caller's notes.      *)
OwnIds ==
    /\ At("rows") => \A n \in ids : Owner[n] = job.user
    /\ \A n \in page.listed : Owner[n] = job.user

IsCut(p, n, limit) ==
    /\ p.shown = PageOf(p.listed, p.time, n, limit)
    /\ IsFiniteSet(p.listed)
    /\ \A x, y \in p.listed : p.time[x] = p.time[y] => x = y
    /\ p.listed # {} => Offset(n, limit) >= 0

(* The page and the one before are cut with the page number of the job.    *)
Cuts ==
    /\ IsCut(page, job.page, job.limit)
    /\ \/ last = NoPage
       \/ job.page > 1 /\ IsCut(last, job.page - 1, job.limit)

IndInv == TypeOK /\ Progress /\ Clocked /\ OwnIds /\ Cuts

-----------------------------------------------------------------------------
(* Finite sets.                                                            *)

LEMMA LeastValue ==
    ASSUME NEW A, IsFiniteSet(A), A # {}, NEW f \in [A -> Int]
    PROVE  \E x \in A : \A y \in A : f[x] <= f[y]
<1> DEFINE Below(x) == {y \in A : f[y] < f[x]}
           F == {Below(x) : x \in A}
<1>1. F \subseteq FiniteSubsetsOf(A) /\ F # {}
  <2>1. FiniteSubsetsOf(A) = SUBSET A
    BY FS_FiniteSubsetsOfFinite
  <2>2. F \subseteq SUBSET A
    OBVIOUS
  <2>3. PICK x : x \in A
    OBVIOUS
  <2>4. Below(x) \in F
    BY <2>3
  <2> QED
    BY <2>1, <2>2, <2>4
<1>2. IsWellFoundedOn(StrictSubsetOrdering(A), FiniteSubsetsOf(A))
  BY FS_StrictSubsetOrderingWellFounded
<1>3. PICK B \in F : \A C \in F : ~ (<<C, B>> \in StrictSubsetOrdering(A))
  <2> HIDE DEF F
  <2> QED
    BY <1>1, <1>2, WFMin
<1>4. PICK x \in A : B = Below(x)
  OBVIOUS
<1>5. ASSUME NEW y \in A, f[y] < f[x]
      PROVE  FALSE
  <2>1. Below(y) \subseteq Below(x) /\ y \in Below(x) /\ y \notin Below(y)
    BY <1>5
  <2>2. <<Below(y), Below(x)>> \in StrictSubsetOrdering(A)
    BY <2>1 DEF StrictSubsetOrdering
  <2> QED
    BY <1>3, <1>4, <2>2
<1> QED
  BY <1>5

LEMMA BeforeType ==
    ASSUME NEW S, IsFiniteSet(S), NEW t, NEW n
    PROVE  Before(n, S, t) \in Nat
<1>1. IsFiniteSet({m \in S : t[m] > t[n]})
  BY FS_Subset
<1> QED
  BY <1>1, FS_CardinalityType DEF Before

(* Where times differ, a list with a row of rank k or more has one of rank *)
(* k.                                                                      *)
LEMMA RankReached ==
    ASSUME NEW S, IsFiniteSet(S), NEW t, \A x \in S : t[x] \in Nat,
           \A x, y \in S : t[x] = t[y] => x = y,
           NEW n \in S, NEW k \in Nat, Before(n, S, t) >= k
    PROVE  \E m \in S : Before(m, S, t) = k
<1> DEFINE A == {m \in S : Before(m, S, t) >= k}
           f == [m \in A |-> Before(m, S, t)]
<1>1. \A m \in S : Before(m, S, t) \in Nat
  BY BeforeType
<1>2. IsFiniteSet(A) /\ A # {} /\ f \in [A -> Int]
  BY <1>1, FS_Subset
<1>3. PICK m \in A : \A y \in A : f[m] <= f[y]
  <2> HIDE DEF A, f
  <2> QED
    BY <1>2, LeastValue
<1>4. \A y \in S : Before(y, S, t) >= k => Before(m, S, t) <= Before(y, S, t)
  BY <1>3
<1>5. SUFFICES ASSUME Before(m, S, t) > k
               PROVE  FALSE
  BY <1>1
<1> DEFINE Ahd == {x \in S : t[x] > t[m]}
           g == [x \in Ahd |-> t[x]]
<1>6. IsFiniteSet(Ahd) /\ Ahd # {} /\ g \in [Ahd -> Int] /\ Cardinality(Ahd) = Before(m, S, t)
  <2>1. IsFiniteSet(Ahd) /\ Cardinality(Ahd) = Before(m, S, t)
    BY FS_Subset DEF Before
  <2>2. Ahd # {}
    <3> HIDE DEF Ahd
    <3> QED
      BY <1>1, <1>5, <2>1, FS_EmptySet
  <2> QED
    BY <2>1, <2>2
<1>7. PICK x \in Ahd : \A y \in Ahd : g[x] <= g[y]
  <2> HIDE DEF Ahd, g
  <2> QED
    BY <1>6, LeastValue
<1>8. {y \in S : t[y] > t[x]} = Ahd \ {x}
  BY <1>7
<1>9. Before(x, S, t) = Before(m, S, t) - 1
  <2>1. Cardinality(Ahd \ {x}) = Cardinality(Ahd) - 1
    <3> HIDE DEF Ahd
    <3> QED
      BY <1>6, FS_RemoveElement
  <2> QED
    BY <1>6, <1>8, <2>1 DEF Before
<1> QED
  BY <1>1, <1>4, <1>5, <1>9

-----------------------------------------------------------------------------
(* The actions.                                                            *)

LEMMA StepsOfNext ==
    ASSUME [Next]_vars
    PROVE  \/ AskAnew \/ TurnPage \/ AskAI \/ SearchNotes \/ FilterByTags
           \/ Throw \/ Restart \/ Others \/ UNCHANGED vars
BY DEF Next, Serve

(* What others commit does not touch the request.                          *)
LEMMA RequestFrame ==
    ASSUME Others \/ UNCHANGED vars
    PROVE  UNCHANGED <<job, pc, answer, ids, page, last>>
<1>1. CASE Others
  <2>1. PICK n \in Notes :
          \/ CreateNote(n) \/ ChangeNote(n) \/ DeleteItem(n) \/ ChangeLists(n) \/ DeleteNote(n)
          \/ \E t \in Tags : AddTag(n, t) \/ RemoveTag(n, t)
    BY <1>1 DEF Others
  <2>2. CASE CreateNote(n) \/ ChangeNote(n) \/ DeleteItem(n) \/ ChangeLists(n) \/ DeleteNote(n)
    BY <2>2 DEF CreateNote, ChangeNote, DeleteItem, ChangeLists, DeleteNote, Commits
  <2>3. CASE \E t \in Tags : AddTag(n, t) \/ RemoveTag(n, t)
    BY <2>3 DEF AddTag, RemoveTag, Commits
  <2> QED
    BY <2>1, <2>2, <2>3
<1>2. CASE UNCHANGED vars
  BY <1>2 DEF vars
<1> QED
  BY <1>1, <1>2

(* A request writes nothing.                                               *)
LEMMA DbFrame ==
    ASSUME [Next]_vars
    PROVE  Others \/ UNCHANGED dbVars
<1>1. AskAnew \/ TurnPage => UNCHANGED dbVars
  BY DEF AskAnew, TurnPage, Receive
<1>2. AskAI \/ SearchNotes \/ FilterByTags \/ Throw \/ Restart => UNCHANGED dbVars
  BY DEF AskAI, SearchNotes, FilterByTags, Throw, Restart
<1>3. UNCHANGED vars => UNCHANGED dbVars
  BY DEF vars, dbVars
<1> QED
  BY <1>1, <1>2, <1>3, StepsOfNext

(* A client begins, or goes on with the page that he has.                  *)
LEMMA WhatIsReceived ==
    ASSUME TypeOK, AskAnew \/ TurnPage
    PROVE  \E j \in [user : Callers \cup {"none"}, kind : AllKinds, tags : NameLists,
                     page : Int, limit : Int] :
           \E before \in {NoPage, page} :
              /\ Receive(j, before)
              /\ before = NoPage \/ (j = [job EXCEPT !.page = @ + 1] /\ before = page)
<1>1. CASE AskAnew
  <2>1. PICK j \in Jobs : Receive(j, NoPage)
    BY <1>1 DEF AskAnew
  <2> QED
    BY <2>1, ArgsAssumption DEF Jobs, NameLists
<1>2. CASE TurnPage
  <2> DEFINE j == [job EXCEPT !.page = @ + 1]
  <2>1. Receive(j, page)
    BY <1>2 DEF TurnPage
  <2>2. j \in [user : Callers \cup {"none"}, kind : AllKinds, tags : NameLists,
               page : Int, limit : Int]
    BY MaxIntAssumption DEF TypeOK
  <2> QED
    BY <2>1, <2>2
<1> QED
  BY <1>1, <1>2

(* A request that is served does its steps.                                *)
LEMMA Reading ==
    ASSUME TypeOK, Progress, Running
    PROVE  /\ pc = 1 => Program(job.kind)[pc] \in {"ids", "ask"}
           /\ pc = 2 => Program(job.kind)[pc] \in {"ids", "rows"}
           /\ pc = 3 => Program(job.kind)[pc] = "rows"
           /\ Program(job.kind)[pc] # "rows" => pc + 1 \in 1 .. Len(Program(job.kind))
           /\ Program(job.kind)[pc] = "ask" => Program(job.kind)[pc + 1] # "rows"
           /\ Program(job.kind)[pc] # "rows" => pc \in 1 .. 2
<1>1. CASE job.kind = "semantic"
  <2>1. Program(job.kind) = <<"ask", "ids", "rows">>
    BY <1>1 DEF Program, SemanticSearch
  <2>2. pc \in 1 .. 3
    BY <2>1 DEF Progress
  <2> QED
    BY <2>1, <2>2
<1>2. CASE job.kind # "semantic"
  <2>1. Program(job.kind) = <<"ids", "rows">>
    BY <1>2 DEF Program, NoneSearch
  <2>2. pc \in 1 .. 2
    BY <2>1 DEF Progress
  <2> QED
    BY <2>1, <2>2
<1> QED
  BY <1>1, <1>2

-----------------------------------------------------------------------------
(* Types.                                                                  *)

LEMMA NoPageIsResult == IsResult(NoPage)
BY DEF IsResult, NoPage

LEMMA ListedIsResult ==
    ASSUME TypeOK, NEW shown \in SUBSET Listed
    PROVE  IsResult([shown |-> shown, listed |-> Listed, time |-> [n \in Listed |-> time[n]]])
<1>1. Listed \subseteq Notes
  BY DEF Listed, TypeOK
<1> QED
  BY <1>1 DEF IsResult, TypeOK

LEMMA PageIsListed == ASSUME NEW S, NEW t, NEW p, NEW l PROVE PageOf(S, t, p, l) \subseteq S
BY DEF PageOf

LEMMA DbTypes ==
    ASSUME TypeOK, [Next]_vars
    PROVE  /\ row' \in [Notes -> {"free", "live", "gone"}]
           /\ time' \in [Notes -> Nat]
           /\ hits' \subseteq Notes
           /\ links' \subseteq Notes \X Tags
           /\ clock' \in Nat
<1>1. CASE UNCHANGED dbVars
  BY <1>1 DEF TypeOK, dbVars
<1>2. CASE Others
  <2>1. PICK n \in Notes :
          \/ CreateNote(n) \/ ChangeNote(n) \/ DeleteItem(n) \/ ChangeLists(n) \/ DeleteNote(n)
          \/ \E t \in Tags : AddTag(n, t) \/ RemoveTag(n, t)
    BY <1>2 DEF Others
  <2>2. CASE CreateNote(n) \/ ChangeNote(n) \/ ChangeLists(n)
    BY <2>2 DEF CreateNote, ChangeNote, ChangeLists, Commits, TextChanges, TypeOK
  <2>3. CASE DeleteItem(n)
    BY <2>3 DEF DeleteItem, Commits, TextChanges, TypeOK
  <2>4. CASE DeleteNote(n)
    BY <2>4 DEF DeleteNote, Commits, TypeOK
  <2>5. CASE \E t \in Tags : AddTag(n, t) \/ RemoveTag(n, t)
    BY <2>5 DEF AddTag, RemoveTag, Commits, TypeOK
  <2> QED
    BY <2>1, <2>2, <2>3, <2>4, <2>5
<1> QED
  BY <1>1, <1>2, DbFrame

LEMMA RequestTypes ==
    ASSUME TypeOK, Progress, [Next]_vars
    PROVE  /\ job' \in [user : Callers \cup {"none"}, kind : AllKinds, tags : NameLists,
                        page : 1 .. MaxInt, limit : 1 .. MaxInt]
           /\ pc' \in 1 .. 3
           /\ answer' \in {"none", "200", "400", "500", "lost"}
           /\ ids' \subseteq Notes
           /\ IsResult(page') /\ IsResult(last')
           /\ Progress'
<1>1. CASE AskAnew \/ TurnPage
  <2>1. PICK j \in [user : Callers \cup {"none"}, kind : AllKinds, tags : NameLists,
                    page : Int, limit : Int] :
        \E before \in {NoPage, page} : Receive(j, before)
    BY <1>1, WhatIsReceived
  <2>2. PICK before \in {NoPage, page} : Receive(j, before)
    BY <2>1
  <2>3. IsResult(page') /\ IsResult(before)
    BY <2>2, NoPageIsResult DEF Receive, TypeOK
  <2>4. CASE Accepted(j.page, j.limit)
    <3>1. j.page \in 1 .. MaxInt /\ j.limit \in 1 .. MaxInt
      BY <2>4, ArgsAssumption, MaxIntAssumption DEF Accepted
    <3>2. job' = j /\ last' = before /\ answer' = "none" /\ pc' = 1 /\ ids' = ids
      BY <2>2, <2>4 DEF Receive
    <3>3. 1 \in 1 .. Len(Program(j.kind))
      BY DEF Program, SemanticSearch, NoneSearch
    <3>4. Progress'
      BY <3>2, <3>3 DEF Progress, Program, SemanticSearch, NoneSearch
    <3> QED
      BY <2>3, <3>1, <3>2, <3>4 DEF TypeOK
  <2>5. CASE ~ Accepted(j.page, j.limit)
    <3>1. answer' = "400" /\ pc' = 1 /\ UNCHANGED <<job, last, ids>>
      BY <2>2, <2>5 DEF Receive
    <3> QED
      BY <2>3, <3>1 DEF TypeOK, Progress, Running
  <2> QED
    BY <2>4, <2>5
<1>2. CASE AskAI \/ SearchNotes
  <2>1. At("ask") \/ At("ids")
    BY <1>2 DEF AskAI, SearchNotes
  <2>2. pc + 1 \in 1 .. Len(Program(job.kind)) /\ pc \in 1 .. 2
    BY <2>1, Reading DEF At
  <2>3. pc' = pc + 1 /\ UNCHANGED <<answer, job, page, last>>
    BY <1>2 DEF AskAI, SearchNotes, Advance
  <2>4. ids' \subseteq Notes
    BY <1>2 DEF AskAI, SearchNotes, Found, OwnedBy, Live, TypeOK, AllKinds
  <2>5. Progress'
    BY <2>2, <2>3 DEF Progress, Program, SemanticSearch, NoneSearch
  <2> QED
    BY <2>2, <2>3, <2>4, <2>5 DEF TypeOK
<1>3. CASE FilterByTags
  <2>1. UNCHANGED <<pc, job, last>> /\ ids' = {} /\ answer' \in {"200", "500"}
    BY <1>3 DEF FilterByTags, Answer
  <2>2. IsResult(page')
    <3>1. PageOf(Listed, time, job.page, job.limit) \subseteq Listed
      BY PageIsListed
    <3> QED
      BY <1>3, <3>1, ListedIsResult DEF FilterByTags, TypeOK
  <2> QED
    BY <2>1, <2>2 DEF TypeOK, Progress, Running
<1>4. CASE Throw \/ Restart
  BY <1>4 DEF Throw, Restart, Answer, TypeOK, Progress, Running
<1>5. CASE Others \/ UNCHANGED vars
  BY <1>5, RequestFrame DEF TypeOK, Progress, Running, Program, SemanticSearch, NoneSearch
<1> QED
  BY <1>1, <1>2, <1>3, <1>4, <1>5, StepsOfNext

LEMMA TypesInvariant ==
    ASSUME TypeOK, Progress, [Next]_vars
    PROVE  TypeOK' /\ Progress'
<1>1. TypeOK'
  BY DbTypes, RequestTypes DEF TypeOK, IsResult, NameLists, AllKinds
<1> QED
  BY <1>1, RequestTypes

-----------------------------------------------------------------------------
(* The database.                                                           *)

(* Each commit takes the next time, or one that no live note has.          *)
LEMMA ClockedInvariant ==
    ASSUME TypeOK, Clocked, [Next]_vars
    PROVE  Clocked'
<1> USE DEF Live
<1>1. CASE UNCHANGED dbVars
  BY <1>1 DEF Clocked, dbVars
<1>2. CASE Others
  <2>1. PICK n \in Notes :
          \/ CreateNote(n) \/ ChangeNote(n) \/ DeleteItem(n) \/ ChangeLists(n) \/ DeleteNote(n)
          \/ \E t \in Tags : AddTag(n, t) \/ RemoveTag(n, t)
    BY <1>2 DEF Others
  <2>2. CASE CreateNote(n)
    <3>1. /\ row' = [row EXCEPT ![n] = "live"] /\ time' = [time EXCEPT ![n] = clock + 1]
          /\ clock' = clock + 1
      BY <2>2 DEF CreateNote, Commits
    <3>2. {m \in Notes : row'[m] # "free"} = {m \in Notes : row[m] # "free"} \cup {n}
      BY <3>1 DEF TypeOK
    <3>3. IsFiniteSet({m \in Notes : row'[m] # "free"})
      BY <3>2, FS_AddElement DEF Clocked
    <3> QED
      BY <3>1, <3>3 DEF Clocked, TypeOK
  <2>3. CASE ChangeNote(n)
    BY <2>3 DEF ChangeNote, Commits, Clocked, TypeOK
  <2>4. CASE DeleteItem(n)
    <3>1. PICK t \in 0 .. clock : /\ \A m \in Live : time[m] # t
                                  /\ time' = [time EXCEPT ![n] = t]
      BY <2>4 DEF DeleteItem
    <3> QED
      BY <2>4, <3>1 DEF DeleteItem, Commits, Clocked, TypeOK
  <2>5. CASE DeleteNote(n)
    <3>1. row' = [row EXCEPT ![n] = "gone"] /\ time' = time /\ clock' = clock + 1
      BY <2>5 DEF DeleteNote, Commits
    <3>2. {m \in Notes : row'[m] # "free"} = {m \in Notes : row[m] # "free"} \cup {n}
      BY <3>1 DEF TypeOK
    <3>3. IsFiniteSet({m \in Notes : row'[m] # "free"})
      BY <3>2, FS_AddElement DEF Clocked
    <3> QED
      BY <3>1, <3>3 DEF Clocked, TypeOK
  <2>6. CASE \E t \in Tags : AddTag(n, t) \/ RemoveTag(n, t)
    <3>1. row' = row /\ time' = time /\ clock' = clock + 1
      BY <2>6 DEF AddTag, RemoveTag, Commits
    <3> QED
      BY <3>1 DEF Clocked, TypeOK
  <2>7. CASE ChangeLists(n)
    BY <2>7 DEF ChangeLists, Commits, Clocked, TypeOK
  <2> QED
    BY <2>1, <2>2, <2>3, <2>4, <2>5, <2>6, <2>7
<1> QED
  BY <1>1, <1>2, DbFrame

LEMMA ListedIsFinite ==
    ASSUME TypeOK, Clocked
    PROVE  /\ IsFiniteSet(Listed)
           /\ \A x, y \in Listed : time[x] = time[y] => x = y
<1>1. Listed \subseteq Live /\ Live \subseteq {n \in Notes : row[n] # "free"}
  BY DEF Listed, Live, TypeOK
<1> QED
  BY <1>1, FS_Subset DEF Clocked

-----------------------------------------------------------------------------
(* Whose notes they are.                                                   *)

(* Both searches without the AI service take the caller's notes, and the   *)
(* ids that the AI service names pass a statement that does.               *)
LEMMA OwnIdsInvariant ==
    ASSUME TypeOK, Progress, OwnIds, [Next]_vars
    PROVE  OwnIds'
<1>1. CASE AskAnew \/ TurnPage
  <2>1. PICK j \in [user : Callers \cup {"none"}, kind : AllKinds, tags : NameLists,
                    page : Int, limit : Int] :
        \E before \in {NoPage, page} : Receive(j, before)
    BY <1>1, WhatIsReceived
  <2>2. pc' = 1 /\ page'.listed = {} /\ (answer' = "none" => job' = j) /\ (answer' = "none" \/ answer' = "400")
    BY <2>1 DEF Receive, NoPage
  <2>3. answer' = "none" => Program(job'.kind)[pc'] # "rows"
    BY <2>2 DEF Program, SemanticSearch, NoneSearch
  <2> QED
    BY <2>2, <2>3 DEF OwnIds, At, Running, Program, SemanticSearch, NoneSearch
<1>2. CASE AskAI
  <2>1. At("ask") /\ pc' = pc + 1 /\ UNCHANGED <<job, page>>
    BY <1>2 DEF AskAI, Advance
  <2>2. Program(job.kind)[pc + 1] # "rows"
    BY <2>1, Reading DEF At
  <2> QED
    BY <2>1, <2>2 DEF OwnIds, At, Program, SemanticSearch, NoneSearch
<1>3. CASE SearchNotes
  <2>1. ids' = Found /\ UNCHANGED <<job, page>>
    BY <1>3 DEF SearchNotes
  <2>2. job.kind \in AllKinds
    BY <1>3, Reading DEF SearchNotes, At, TypeOK
  <2>3. \A n \in Found : Owner[n] = job.user
    BY <2>2 DEF Found, OwnedBy, AllKinds
  <2> QED
    BY <2>1, <2>3 DEF OwnIds
<1>4. CASE FilterByTags
  <2>1. At("rows") /\ ids' = {} /\ UNCHANGED job /\ answer' # "none"
    BY <1>4 DEF FilterByTags, Answer
  <2>2. page'.listed \subseteq page.listed \cup ids
    BY <1>4 DEF FilterByTags, Listed
  <2> QED
    BY <2>1, <2>2 DEF OwnIds, At, Running
<1>5. CASE Throw \/ Restart
  BY <1>5 DEF Throw, Restart, Answer, OwnIds, At, Running
<1>6. CASE Others \/ UNCHANGED vars
  BY <1>6, RequestFrame DEF OwnIds, At, Running, Program, SemanticSearch, NoneSearch
<1> QED
  BY <1>1, <1>2, <1>3, <1>4, <1>5, <1>6, StepsOfNext

-----------------------------------------------------------------------------
(* Pages.                                                                  *)

LEMMA NoPageIsCut == ASSUME NEW n, NEW limit PROVE IsCut(NoPage, n, limit)
BY FS_EmptySet DEF IsCut, NoPage, PageOf

LEMMA CutsNext ==
    /\ IsCut(page', job'.page, job'.limit)
    /\ last' = NoPage \/ (job'.page > 1 /\ IsCut(last', job'.page - 1, job'.limit))
    => Cuts'
BY DEF Cuts, IsCut, NoPage, PageOf, Before, Offset, OffsetOf, ToInt, Span

LEMMA CutsInvariant ==
    ASSUME TypeOK, Progress, Clocked, Cuts, [Next]_vars
    PROVE  Cuts'
<1>1. CASE AskAnew \/ TurnPage
  <2>1. PICK j \in [user : Callers \cup {"none"}, kind : AllKinds, tags : NameLists,
                    page : Int, limit : Int] :
        \E before \in {NoPage, page} :
              /\ Receive(j, before)
              /\ before = NoPage \/ (j = [job EXCEPT !.page = @ + 1] /\ before = page)
    BY <1>1, WhatIsReceived
  <2>2. PICK before \in {NoPage, page} :
              /\ Receive(j, before)
              /\ before = NoPage \/ (j = [job EXCEPT !.page = @ + 1] /\ before = page)
    BY <2>1
  <2>3. page' = NoPage
    BY <2>2 DEF Receive
  <2>4. CASE Accepted(j.page, j.limit)
    <3>1. job' = j /\ last' = before
      BY <2>2, <2>4 DEF Receive
    <3>2. last' = NoPage \/ (job'.page > 1 /\ IsCut(last', job'.page - 1, job'.limit))
      <4>1. CASE before = NoPage
        BY <3>1, <4>1
      <4>2. CASE j = [job EXCEPT !.page = @ + 1] /\ before = page
        <5>1. j.page - 1 = job.page /\ j.limit = job.limit /\ j.page > 1
          BY <4>2, MaxIntAssumption DEF TypeOK
        <5> QED
          BY <3>1, <4>2, <5>1 DEF Cuts
      <4> QED
        BY <2>2, <4>1, <4>2
    <3>3. IsCut(page', job'.page, job'.limit)
      BY <2>3, NoPageIsCut
    <3> QED
      BY <3>2, <3>3, CutsNext
  <2>5. CASE ~ Accepted(j.page, j.limit)
    <3>1. UNCHANGED <<job, last>>
      BY <2>2, <2>5 DEF Receive
    <3>2. IsCut(page', job'.page, job'.limit)
      BY <2>3, NoPageIsCut
    <3> QED
      BY <3>1, <3>2, CutsNext DEF Cuts
  <2> QED
    BY <2>4, <2>5
<1>2. CASE FilterByTags
  <2>1. UNCHANGED <<job, last>>
    BY <1>2 DEF FilterByTags
  <2>2. CASE ids # {} /\ Offset(job.page, job.limit) < 0
    <3>1. UNCHANGED page
      BY <1>2, <2>2 DEF FilterByTags
    <3> QED
      BY <2>1, <3>1, CutsNext DEF Cuts
  <2>3. CASE ~ (ids # {} /\ Offset(job.page, job.limit) < 0)
    <3> DEFINE t == [n \in Listed |-> time[n]]
    <3>1. page' = [shown |-> PageOf(Listed, time, job.page, job.limit), listed |-> Listed, time |-> t]
      BY <1>2, <2>3 DEF FilterByTags
    <3>2. PageOf(Listed, time, job.page, job.limit) = PageOf(Listed, t, job.page, job.limit)
      <4>1. \A n \in Listed : Before(n, Listed, time) = Before(n, Listed, t)
        <5> SUFFICES ASSUME NEW n \in Listed
                     PROVE  {m \in Listed : time[m] > time[n]} = {m \in Listed : t[m] > t[n]}
          BY DEF Before
        <5> QED
          OBVIOUS
      <4> QED
        BY <4>1 DEF PageOf
    <3>3. Listed # {} => Offset(job.page, job.limit) >= 0
      <4>1. Offset(job.page, job.limit) \in Int
        BY OffsetType, MaxIntAssumption DEF Offset, TypeOK
      <4> QED
        BY <2>3, <4>1 DEF Listed
    <3>4. IsCut(page', job'.page, job'.limit)
      BY <2>1, <3>1, <3>2, <3>3, ListedIsFinite DEF IsCut
    <3> QED
      BY <2>1, <3>4, CutsNext DEF Cuts
  <2> QED
    BY <2>2, <2>3
<1>3. CASE AskAI \/ SearchNotes \/ Throw \/ Restart
  <2>1. UNCHANGED <<job, page, last>>
    BY <1>3 DEF AskAI, SearchNotes, Throw, Restart
  <2> QED
    BY <2>1, CutsNext DEF Cuts
<1>4. CASE Others \/ UNCHANGED vars
  <2>1. UNCHANGED <<job, page, last>>
    BY <1>4, RequestFrame
  <2> QED
    BY <2>1, CutsNext DEF Cuts
<1> QED
  BY <1>1, <1>2, <1>3, <1>4, StepsOfNext

-----------------------------------------------------------------------------
(* The theorems.                                                           *)

LEMMA InitInvariant == Init => IndInv
<1> SUFFICES ASSUME Init
             PROVE  IndInv
  OBVIOUS
<1> USE DEF Init
<1>1. TypeOK
  BY StoredAssumption, MaxIntAssumption, NoPageIsResult
     DEF TypeOK, NoJob, NameLists, AllKinds
<1>2. Progress
  BY DEF Progress, Running
<1>3. Clocked
  <2>1. {n \in Notes : row[n] # "free"} = Stored /\ Live = Stored
    BY StoredAssumption DEF Live
  <2> QED
    BY <2>1, StoredAssumption DEF Clocked
<1>4. OwnIds
  BY DEF OwnIds, At, Running, NoPage
<1>5. Cuts
  BY NoPageIsCut DEF Cuts
<1> QED
  BY <1>1, <1>2, <1>3, <1>4, <1>5 DEF IndInv

LEMMA NextInvariant == IndInv /\ [Next]_vars => IndInv'
BY TypesInvariant, ClockedInvariant, OwnIdsInvariant, CutsInvariant DEF IndInv

(* Every reachable state satisfies the inductive invariant.                *)
THEOREM Inductive == Spec => []IndInv
BY InitInvariant, NextInvariant, PTL DEF Spec

(* Variables keep their types, and a request that is served asks for a     *)
(* page and a length that fit an int (dto/search_params.cpp).              *)
THEOREM TypeCorrect == Spec => []TypeOK
<1>1. IndInv => TypeOK
  BY DEF IndInv
<1> QED
  BY <1>1, Inductive, PTL

(* A caller is shown none but his own notes, whatever ids the AI service   *)
(* names (semantic_search.cpp, search_strategy.cpp).                       *)
THEOREM OwnNotes == Spec => []OwnNotesOnly
<1>1. IndInv => OwnNotesOnly
  BY DEF IndInv, OwnIds, TypeOK, IsResult, OwnNotesOnly
<1> QED
  BY <1>1, Inductive, PTL

(* The names of the list are as many as its places only when each is       *)
(* found, and only then the counts agree.                                  *)
LEMMA CountOfNames ==
    ASSUME NEW S, NEW names \in Seq(S), NEW found \in SUBSET {names[i] : i \in DOMAIN names}
    PROVE  /\ Cardinality(found) = Len(names) => found = {names[i] : i \in DOMAIN names}
           /\ found = {names[i] : i \in DOMAIN names} /\ NoRepeats(names)
                => Cardinality(found) = Len(names)
<1> DEFINE D == 1 .. Len(names)
           R == {names[i] : i \in D}
           f == [i \in D |-> names[i]]
<1>1. D = DOMAIN names /\ Len(names) \in Nat
  OBVIOUS
<1>2. IsFiniteSet(D) /\ Cardinality(D) = Len(names)
  BY <1>1, FS_Interval
<1>3. f \in Surjection(D, R)
  BY DEF Surjection
<1> HIDE DEF D, f
<1>4. /\ IsFiniteSet(R) /\ Cardinality(R) <= Cardinality(D)
      /\ Cardinality(R) = Cardinality(D) <=> f \in Injection(D, R)
  <2> HIDE DEF R
  <2> QED
    BY <1>2, <1>3, FS_Surjection
<1>5. Cardinality(found) <= Cardinality(R) /\ (Cardinality(R) = Cardinality(found) => R = found)
  <2>1. found \in SUBSET R
    BY <1>1
  <2> HIDE DEF R
  <2> QED
    BY <1>4, <2>1, FS_Subset
<1>6. Cardinality(R) \in Nat /\ Cardinality(found) \in Nat
  <2>1. found \in SUBSET R
    BY <1>1
  <2> HIDE DEF R
  <2> QED
    BY <1>4, <2>1, FS_Subset, FS_CardinalityType
<1>7. NoRepeats(names) => f \in Injection(D, R)
  BY <1>1, <1>3 DEF Injection, IsInjective, Surjection, NoRepeats, f
<1>8. Cardinality(found) = Len(names) => found = R
  BY <1>1, <1>2, <1>4, <1>5, <1>6
<1>9. found = R /\ NoRepeats(names) => Cardinality(found) = Len(names)
  BY <1>2, <1>4, <1>7
<1> QED
  BY <1>1, <1>8, <1>9

(* The tag filter is exact for lists without repetition, and never too     *)
(* generous.                                                               *)
LEMMA CarriesNames ==
    ASSUME NEW n, NEW names \in NameLists
    PROVE  /\ Carries(n, names) => HasNames(n, names)
           /\ HasNames(n, names) /\ NoRepeats(names) => Carries(n, names)
<1> DEFINE R == {names[i] : i \in DOMAIN names}
<1>1. NamesFound(n, names) \in SUBSET R
  BY DEF NamesFound
<1>2. NamesFound(n, names) = R <=> HasNames(n, names)
  <2>1. ASSUME NamesFound(n, names) = R, NEW i \in DOMAIN names
        PROVE  HasName(n, names[i])
    <3>1. names[i] \in NamesFound(n, names)
      BY <2>1
    <3> QED
      BY <3>1 DEF NamesFound, HasName
  <2>2. ASSUME HasNames(n, names), NEW i \in DOMAIN names
        PROVE  names[i] \in NamesFound(n, names)
    <3>1. PICK t \in Tags : <<n, t>> \in links /\ TagName[t] = names[i]
      BY <2>2 DEF HasNames, HasName
    <3> QED
      BY <3>1 DEF NamesFound
  <2> QED
    BY <1>1, <2>1, <2>2 DEF HasNames
<1>3. CASE names = << >>
  BY <1>3 DEF Carries, HasNames
<1>4. CASE names # << >>
  <2>1. names \in Seq(R)
    BY <1>4, ArgsAssumption DEF NameLists
  <2>2. /\ Cardinality(NamesFound(n, names)) = Len(names) => NamesFound(n, names) = R
        /\ NamesFound(n, names) = R /\ NoRepeats(names)
             => Cardinality(NamesFound(n, names)) = Len(names)
    BY <1>1, <2>1, CountOfNames
  <2> QED
    BY <1>2, <1>4, <2>2 DEF Carries
<1> QED
  BY <1>3, <1>4

LEMMA ListedIsWanted ==
    ASSUME TypeOK
    PROVE  /\ \A n \in Listed : HasNames(n, job.tags)
           /\ NoRepeats(job.tags) => Listed = Wanted
<1>1. job.tags \in NameLists
  BY DEF TypeOK
<1> QED
  BY <1>1, CarriesNames DEF Listed, Wanted

(* Whatever the filter counts, a note is shown only with every name of the *)
(* list (kFilterByTags).                                                   *)
THEOREM AllNames == Spec => OnlyWithAllNames
<1>1. IndInv /\ [Next]_vars => [\A n \in page'.shown : HasNames(n, job.tags)]_page
  <2> SUFFICES ASSUME IndInv, [Next]_vars, page' # page, NEW n \in page'.shown
               PROVE  HasNames(n, job.tags)
    OBVIOUS
  <2>1. CASE FilterByTags
    <3>1. n \in Listed
      BY <2>1, PageIsListed DEF FilterByTags
    <3> QED
      BY <3>1, ListedIsWanted DEF IndInv
  <2>2. CASE AskAnew \/ TurnPage
    BY <2>2 DEF AskAnew, TurnPage, Receive, NoPage
  <2>3. ~ (AskAI \/ SearchNotes \/ Throw \/ Restart \/ Others \/ UNCHANGED vars)
    BY RequestFrame DEF AskAI, SearchNotes, Throw, Restart
  <2> QED
    BY <2>1, <2>2, <2>3, StepsOfNext
<1> QED
  BY <1>1, Inductive, PTL DEF Spec, OnlyWithAllNames

(* A page whose offset fits an int shows the rows of these ranks, of the   *)
(* notes found that have all the names (SearchStrategy::filterByTags).     *)
THEOREM RightPage == Spec => PageAsAsked
<1> DEFINE first == (job.page - 1) * job.limit
           Shows == page'.shown = {n \in Wanted :
                        Before(n, Wanted, time) \in first .. first + job.limit - 1}
           Premise == answer' = "200" /\ Fits(job.page, job.limit) /\ NoRepeats(job.tags)
<1>1. IndInv /\ [Next]_vars => [Premise => Shows]_answer
  <2> SUFFICES ASSUME IndInv, [Next]_vars, answer' # answer, Premise
               PROVE  Shows
    OBVIOUS
  <2>1. FilterByTags
    <3>1. AskAnew \/ TurnPage => answer' # "200"
      BY DEF AskAnew, TurnPage, Receive
    <3>2. ~ (AskAI \/ SearchNotes \/ Throw \/ Restart \/ Others \/ UNCHANGED vars)
      BY RequestFrame DEF AskAI, SearchNotes, Throw, Restart, Answer, Advance
    <3> QED
      BY <3>1, <3>2, StepsOfNext
  <2>2. Listed = Wanted /\ IsFiniteSet(Listed)
    BY ListedIsWanted, ListedIsFinite DEF IndInv
  <2>3. page'.shown = PageOf(Listed, time, job.page, job.limit)
    BY <2>1 DEF FilterByTags, Answer
  <2>4. Offset(job.page, job.limit) = first /\ first \in Int /\ job.limit \in Int
    BY OffsetThatFits, MaxIntAssumption DEF IndInv, TypeOK, Offset
  <2>5. \A n : Before(n, Listed, time) \in Nat
    BY <2>2, BeforeType
  <2> HIDE DEF first
  <2> QED
    BY <2>2, <2>3, <2>4, <2>5 DEF PageOf
<1> QED
  BY <1>1, Inductive, PTL DEF Spec, PageAsAsked

(* A client who turns the pages misses a note only if one that was ahead   *)
(* of it no longer is; this holds even where the offset overflows, because *)
(* it then becomes negative before it comes back (SearchStrategy::find).   *)
THEOREM NoneSkipped == Spec => []NoSkippedNote
<1>1. IndInv => NoSkippedNote
  <2> SUFFICES ASSUME IndInv, NEW n \in Notes, Skipped(n), Ahead(n, last) \subseteq Ahead(n, page)
               PROVE  FALSE
    BY DEF NoSkippedNote
  <2> DEFINE S == last.listed
             T == page.listed
             s == last.time
             t == page.time
             p == job.page
             l == job.limit
  <2>1. /\ n \in S /\ n \in T /\ n \notin last.shown /\ n \notin page.shown
        /\ \E m \in last.shown : n \notin Ahead(m, last)
        /\ page.shown = {} \/ \E m \in page.shown : m \notin Ahead(n, page)
    BY DEF Skipped
  <2>2. p > 1 /\ IsCut(last, p - 1, l) /\ IsCut(page, p, l)
    BY <2>1 DEF IndInv, Cuts, NoPage
  <2>3. /\ S \subseteq Notes /\ s \in [S -> Nat] /\ T \subseteq Notes /\ t \in [T -> Nat]
        /\ p \in Nat /\ l \in 1 .. MaxInt
    BY MaxIntAssumption DEF IndInv, TypeOK, IsResult
  <2>4. \A x : Before(x, S, s) \in Nat /\ Before(x, T, t) \in Nat
    BY <2>2, BeforeType DEF IsCut
  <2>5. Offset(p - 1, l) >= 0 /\ Offset(p, l) >= 0 /\ Offset(p - 1, l) \in Int /\ Offset(p, l) \in Int
    <3>1. Offset(p - 1, l) \in Int /\ Offset(p, l) \in Int
      <4>1. p \in Int /\ p - 1 \in Int /\ l \in Int
        BY <2>3, MaxIntAssumption
      <4> HIDE DEF p, l
      <4> QED
        BY <4>1, OffsetType DEF Offset
    <3> QED
      BY <2>1, <2>2, <3>1 DEF IsCut
  <2>6. Offset(p, l) = Offset(p - 1, l) + l
    <3>1. p - 1 \in Nat \ {0} /\ (p - 1) + 1 = p
      BY <2>2, <2>3
    <3>2. OffsetOf((p - 1) + 1, l) = OffsetOf(p - 1, l) + l \/ OffsetOf((p - 1) + 1, l) < 0
      <4> HIDE DEF p, l
      <4> QED
        BY <2>3, <2>5, <3>1, NextOffset DEF Offset
    <3> QED
      BY <2>5, <3>1, <3>2 DEF Offset
  <2>7. Before(n, S, s) >= Offset(p, l)
    <3>1. PICK m \in last.shown : n \notin Ahead(m, last)
      BY <2>1
    <3>2. m \in S /\ Offset(p - 1, l) <= Before(m, S, s)
      BY <2>2, <3>1 DEF IsCut, PageOf
    <3>3. {x \in S : s[x] > s[m]} \subseteq {x \in S : s[x] > s[n]}
      BY <2>1, <2>3, <3>1, <3>2 DEF Ahead
    <3>4. Before(m, S, s) <= Before(n, S, s)
      <4>1. IsFiniteSet({x \in S : s[x] > s[n]})
        BY <2>2, FS_Subset DEF IsCut
      <4> QED
        BY <3>3, <4>1, FS_Subset DEF Before
    <3>5. ~ (Offset(p - 1, l) <= Before(n, S, s) /\ Before(n, S, s) < Offset(p - 1, l) + l)
      BY <2>1, <2>2 DEF IsCut, PageOf
    <3> QED
      BY <2>3, <2>4, <2>5, <2>6, <3>2, <3>4, <3>5
  <2>8. Before(n, T, t) >= Before(n, S, s)
    <3>1. {x \in S : s[x] > s[n]} \subseteq {x \in T : t[x] > t[n]}
      BY DEF Ahead
    <3>2. IsFiniteSet({x \in T : t[x] > t[n]})
      BY <2>2, FS_Subset DEF IsCut
    <3> QED
      BY <3>1, <3>2, FS_Subset DEF Before
  <2>9. Before(n, T, t) >= Offset(p, l) + l
    <3>1. ~ (Offset(p, l) <= Before(n, T, t) /\ Before(n, T, t) < Offset(p, l) + l)
      BY <2>1, <2>2 DEF IsCut, PageOf
    <3> QED
      BY <2>3, <2>4, <2>5, <2>7, <2>8, <3>1
  <2>10. page.shown # {}
    <3>1. \E m \in T : Before(m, T, t) = Offset(p, l)
      <4>1. /\ IsFiniteSet(T) /\ \A x \in T : t[x] \in Nat
            /\ \A x, y \in T : t[x] = t[y] => x = y
            /\ Offset(p, l) \in Nat /\ Before(n, T, t) >= Offset(p, l)
        BY <2>2, <2>3, <2>4, <2>5, <2>9, MaxIntAssumption DEF IsCut
      <4> HIDE DEF T, t, p, l
      <4> QED
        BY <2>1, <4>1, RankReached
    <3> QED
      BY <2>2, <2>3, <2>5, <3>1 DEF IsCut, PageOf
  <2>11. PICK m \in page.shown : m \notin Ahead(n, page)
    BY <2>1, <2>10
  <2>12. m \in T /\ Before(m, T, t) < Offset(p, l) + l
    BY <2>2, <2>11 DEF IsCut, PageOf
  <2>13. {x \in T : t[x] > t[n]} \subseteq {x \in T : t[x] > t[m]}
    BY <2>1, <2>3, <2>11, <2>12 DEF Ahead
  <2>14. Before(n, T, t) <= Before(m, T, t)
    <3>1. IsFiniteSet({x \in T : t[x] > t[m]})
      BY <2>2, FS_Subset DEF IsCut
    <3> QED
      BY <2>13, <3>1, FS_Subset DEF Before
  <2> QED
    BY <2>3, <2>4, <2>5, <2>9, <2>12, <2>14
<1> QED
  BY <1>1, Inductive, PTL

=============================================================================
