-------------------------- MODULE Accounts_proofs --------------------------
(***************************************************************************)
(* Proofs about Accounts for every set of requests, names, passwords and  *)
(* pages: the type invariant, that a name is registered once and stays     *)
(* good for a login, that a history is shown to its owner only, and that   *)
(* turning pages skips no row.                                             *)
(***************************************************************************)
EXTENDS Accounts, Paging_proofs, FiniteSetTheorems, TLAPS

StepNames == {"find", "add", "check", "auth", "call", "begin", "keep", "list"}

Codes == {"200", "201", "401", "404", "409", "500", "lost"}

-----------------------------------------------------------------------------
(* The parts of the inductive invariant.                                   *)

Types ==
    /\ users \subseteq UserRows
    /\ history \subseteq HistoryRows
    /\ now \in Nat
    /\ job \in [Reqs -> JobRecords]
    /\ pc \in [Reqs -> 0 .. 4]
    /\ answer \in [Reqs -> {"none"} \cup Codes]
    /\ found \in [Reqs -> UserRows \cup {None}]
    /\ userId \in [Reqs -> UserIds \cup {None}]
    /\ stamp \in [Reqs -> Nat]
    /\ token \in [Reqs -> Tokens \cup {None}]
    /\ page \in [Reqs -> [shown : SUBSET HistoryRows, listed : SUBSET HistoryRows]]

(* A request is at a step of its program until it is answered, has its     *)
(* result only then, and a user_id only after it is received.              *)
Progress ==
    \A r \in Reqs :
        /\ pc[r] = 0 <=> job[r].op = "none"
        /\ pc[r] # 0 /\ answer[r] = "none" => pc[r] \in DOMAIN Program(job[r].op)
        /\ pc[r] = 0 => userId[r] = None
        /\ answer[r] = "none" => token[r] = None /\ page[r] = NoPage

(* A registration and a login give a name and a password.                  *)
Arguments ==
    \A r \in Reqs : job[r].op \in {"register", "login"} =>
        job[r].name \in Names /\ job[r].password \in Passwords

(* One row for each name; who was answered 201 has one.                    *)
Owners ==
    /\ \A u, v \in users : u.username = v.username => u = v
    /\ \A r \in Registered : NewUser(r) \in users

(* What was answered before a request arrived is still answered.           *)
Later == \A r \in Reqs : job[r].after \subseteq Registered

(* A login checks the password of the user it names.                       *)
FoundByName ==
    \A r \in Reqs : At(r, "check") => found[r] \in users /\ found[r].username = job[r].name

(* The password of a's account is that of login q.                         *)
OpenedBy(a, q) ==
    \E u \in users :
        u.id = a /\ u.username = job[q].name /\ u.hash = Hash(job[q].password, u.hash.salt)

(* A token was issued to a login with the password of its user, and a      *)
(* request carries a token that was issued.                                *)
Issued ==
    /\ \A q \in Reqs : token[q] # None => pc[q] # 0 /\ OpenedBy(token[q].user, q)
    /\ \A r \in Reqs : job[r].bearer \in {None, OldToken} \cup {token[q] : q \in Reqs}

(* The user_id of the context is that of the token, and the handlers that  *)
(* use it have it.                                                         *)
Context ==
    \A r \in Reqs :
        /\ userId[r] # None => job[r].bearer # None /\ userId[r] = job[r].bearer.user
        /\ (\E step \in {"call", "begin", "keep", "list"} : At(r, step)) => userId[r] # None

(* What a listing shows is a page of the user's own rows.                  *)
Listings ==
    /\ IsFiniteSet(history)
    /\ \A r \in Reqs :
          \/ page[r] = NoPage
          \/ /\ page[r].shown = PageOf(page[r].listed, job[r].page)
             /\ Offset(job[r].page) >= 0
             /\ IsFiniteSet(page[r].listed)
             /\ userId[r] # None
             /\ \A x \in page[r].listed : x.user = userId[r]

IndInv ==
    /\ Types /\ Progress /\ Arguments /\ Owners /\ Later /\ FoundByName
    /\ RegisteredCanLogin
    /\ Issued /\ Context /\ Listings

-----------------------------------------------------------------------------
(* The programs of the handlers.                                           *)

(* The handler that a step belongs to, and the step that comes next.       *)
LEMMA Steps ==
    ASSUME Types, Progress, NEW r \in Reqs, NEW s, At(r, s)
    PROVE  /\ Running(r) /\ s \in StepNames
           /\ s = "add" => job[r].op = "register"
           /\ s = "check" => job[r].op = "login"
           /\ s = "find" => job[r].op \in {"register", "login"}
           /\ s \in {"auth", "call", "begin", "keep", "list"} => job[r].op \in {"ask", "history"}
           /\ s = "list" => job[r].op = "history"
           /\ s \in {"find", "auth", "call", "begin"} =>
                 /\ pc[r] + 1 \in DOMAIN Program(job[r].op)
                 /\ pc[r] + 1 \in 1 .. 4
           /\ s = "find" /\ job[r].op = "register" => Program(job[r].op)[pc[r] + 1] = "add"
<1> USE DEF StepNames, Program
<1>1. Running(r) /\ pc[r] \in DOMAIN Program(job[r].op) /\ Program(job[r].op)[pc[r]] = s
  BY DEF At, Running, Progress
<1>2. job[r].op \in {"register", "login", "ask", "history"}
  BY <1>1 DEF Types, JobRecords, Running, Progress
<1>3. CASE job[r].op = "register"
  BY <1>1, <1>3 DEF Register
<1>4. CASE job[r].op = "login"
  BY <1>1, <1>4 DEF Login
<1>5. CASE job[r].op = "ask"
  BY <1>1, <1>5 DEF Ask
<1>6. CASE job[r].op = "history"
  BY <1>1, <1>6 DEF History
<1> QED
  BY <1>2, <1>3, <1>4, <1>5, <1>6

(* A request that is served stays in its program or is answered; nothing   *)
(* changes for the others.                                                 *)
LEMMA Moves ==
    ASSUME Types, Progress, NEW r \in Reqs, Serve(r) \/ Throw(r)
    PROVE  /\ job' = job /\ Running(r)
           /\ pc' \in [Reqs -> 0 .. 4] /\ answer' \in [Reqs -> {"none"} \cup Codes]
           /\ \A q \in Reqs \ {r} : pc'[q] = pc[q] /\ answer'[q] = answer[q]
           /\ pc'[r] # 0
           /\ answer'[r] = "none" => pc'[r] \in DOMAIN Program(job[r].op)
<1> USE DEF Types, Codes
<1>1. ASSUME Advance(r), NEW s \in {"find", "auth", "call", "begin"}, At(r, s), job' = job
      PROVE  /\ job' = job /\ Running(r)
             /\ pc' \in [Reqs -> 0 .. 4] /\ answer' \in [Reqs -> {"none"} \cup Codes]
             /\ \A q \in Reqs \ {r} : pc'[q] = pc[q] /\ answer'[q] = answer[q]
             /\ pc'[r] # 0
             /\ answer'[r] = "none" => pc'[r] \in DOMAIN Program(job[r].op)
  <2>1. Running(r) /\ pc[r] + 1 \in DOMAIN Program(job[r].op) /\ pc[r] + 1 \in 1 .. 4
    BY <1>1, Steps
  <2> QED
    BY <1>1, <2>1 DEF Advance
<1>2. ASSUME NEW code \in Codes, Answer(r, code), NEW s, At(r, s), job' = job
      PROVE  /\ job' = job /\ Running(r)
             /\ pc' \in [Reqs -> 0 .. 4] /\ answer' \in [Reqs -> {"none"} \cup Codes]
             /\ \A q \in Reqs \ {r} : pc'[q] = pc[q] /\ answer'[q] = answer[q]
             /\ pc'[r] # 0
             /\ answer'[r] = "none" => pc'[r] \in DOMAIN Program(job[r].op)
  BY <1>2 DEF Answer, At, Running
<1>3. \/ \E s \in {"find", "auth", "call", "begin"} : At(r, s) /\ Advance(r) /\ job' = job
      \/ \E s \in StepNames : \E code \in Codes : At(r, s) /\ Answer(r, code) /\ job' = job
  <2>1. CASE FindToRegister(r) \/ AddUser(r) \/ FindToLogin(r) \/ CheckPassword(r)
    BY <2>1 DEF FindToRegister, AddUser, FindToLogin, CheckPassword, StepNames
  <2>2. CASE CheckAuth(r) \/ GenerateAnswer(r) \/ BeginInsert(r) \/ KeepAnswer(r)
    BY <2>2 DEF CheckAuth, GenerateAnswer, BeginInsert, KeepAnswer, StepNames
  <2>3. CASE ListHistory(r) \/ Throw(r)
    BY <2>3 DEF ListHistory, Throw, StepNames
  <2> QED
    BY <2>1, <2>2, <2>3 DEF Serve
<1> QED
  BY <1>1, <1>2, <1>3

-----------------------------------------------------------------------------
(* What every step keeps.                                                  *)

(* A step of the system, request by request.                               *)
LEMMA StepsOfNext ==
    ASSUME [Next]_vars
    PROVE  \/ \E r \in Reqs : Receive(r)
           \/ \E r \in Reqs : Serve(r) \/ Throw(r)
           \/ UNCHANGED <<users, history, job, pc, locals>> /\ (Tick \/ Restart)
           \/ UNCHANGED vars
BY DEF Next, Rest, Tick, Restart, tables

(* Of a request that is not served nothing changes, and the answer only by *)
(* a restart.                                                              *)
LEMMA ProgressInvariant ==
    ASSUME Types, Progress, [Next]_vars
    PROVE  /\ Progress'
           /\ pc' \in [Reqs -> 0 .. 4] /\ answer' \in [Reqs -> {"none"} \cup Codes]
<1> USE DEF Types
<1>1. ASSUME NEW r \in Reqs, Receive(r)
      PROVE  /\ Progress'
             /\ pc' \in [Reqs -> 0 .. 4] /\ answer' \in [Reqs -> {"none"} \cup Codes]
  <2>1. PICK op \in {"register", "login", "ask", "history"} : \E j \in Jobs(op) :
          job' = [job EXCEPT ![r] =
                     [op |-> op, name |-> j.name, password |-> j.password,
                      bearer |-> j.bearer, page |-> j.page, after |-> Registered]]
    BY <1>1 DEF Receive
  <2>2. 1 \in DOMAIN Program(op) /\ op # "none"
    BY DEF Program, Register, Login, Ask, History
  <2>3. job'[r].op = op /\ \A q \in Reqs \ {r} : job'[q] = job[q]
    BY <2>1
  <2>4. pc' = [pc EXCEPT ![r] = 1] /\ UNCHANGED <<answer, userId, token, page>>
    BY <1>1 DEF Receive, locals
  <2>5. \A q \in Reqs : pc'[q] = IF q = r THEN 1 ELSE pc[q]
    BY <2>4
  <2>6. pc' \in [Reqs -> 0 .. 4]
    BY <2>4
  <2>7. answer' \in [Reqs -> {"none"} \cup Codes]
    BY <2>4
  <2> QED
    BY <2>2, <2>3, <2>4, <2>5, <2>6, <2>7 DEF Progress
<1>2. ASSUME NEW r \in Reqs, Serve(r) \/ Throw(r)
      PROVE  /\ Progress'
             /\ pc' \in [Reqs -> 0 .. 4] /\ answer' \in [Reqs -> {"none"} \cup Codes]
  <2>1. /\ job' = job /\ Running(r)
        /\ \A q \in Reqs \ {r} : pc'[q] = pc[q] /\ answer'[q] = answer[q]
        /\ pc'[r] # 0
        /\ answer'[r] = "none" => pc'[r] \in DOMAIN Program(job[r].op)
    BY <1>2, Moves
  <2>2. \A q \in Reqs \ {r} : userId'[q] = userId[q] /\ token'[q] = token[q] /\ page'[q] = page[q]
    <3>1. CASE FindToRegister(r) \/ AddUser(r) \/ FindToLogin(r) \/ CheckPassword(r)
      BY <3>1 DEF FindToRegister, AddUser, FindToLogin, CheckPassword, locals
    <3>2. CASE CheckAuth(r) \/ GenerateAnswer(r) \/ BeginInsert(r) \/ KeepAnswer(r)
      BY <3>2 DEF CheckAuth, GenerateAnswer, BeginInsert, KeepAnswer, locals
    <3>3. CASE ListHistory(r) \/ Throw(r)
      BY <3>3 DEF ListHistory, Throw, locals
    <3> QED
      BY <1>2, <3>1, <3>2, <3>3 DEF Serve
  <2>3. answer'[r] = "none" => UNCHANGED <<token, page>>
    <3>1. CASE FindToRegister(r) \/ AddUser(r) \/ FindToLogin(r)
      BY <3>1 DEF FindToRegister, AddUser, FindToLogin, locals
    <3>2. CASE CheckPassword(r)
      BY <3>2 DEF CheckPassword, Answer
    <3>3. CASE CheckAuth(r) \/ GenerateAnswer(r) \/ BeginInsert(r) \/ KeepAnswer(r)
      BY <3>3 DEF CheckAuth, GenerateAnswer, BeginInsert, KeepAnswer, locals
    <3>4. CASE ListHistory(r) \/ Throw(r)
      BY <3>4 DEF ListHistory, Throw, Answer, locals
    <3> QED
      BY <1>2, <3>1, <3>2, <3>3, <3>4 DEF Serve
  <2>4. pc[r] # 0 /\ answer[r] = "none"
    BY <2>1 DEF Running
  <2>5. Progress'
    BY <2>1, <2>2, <2>3, <2>4 DEF Progress
  <2> QED
    BY <1>2, <2>5, Moves
<1>3. CASE UNCHANGED <<users, history, job, pc, locals>> /\ (Tick \/ Restart)
  <2>1. answer' \in [Reqs -> {"none"} \cup Codes]
    BY <1>3 DEF Tick, Restart, Codes
  <2>2. \A r \in Reqs : answer'[r] = "none" => answer[r] = "none"
    BY <1>3 DEF Tick, Restart
  <2>3. UNCHANGED <<job, pc, userId, token, page>>
    BY <1>3 DEF locals
  <2>4. Progress'
    BY <2>2, <2>3 DEF Progress
  <2> QED
    BY <2>1, <2>3, <2>4
<1>4. CASE UNCHANGED vars
  BY <1>4 DEF vars, Progress
<1> QED
  BY <1>1, <1>2, <1>3, <1>4, StepsOfNext

(* Accounts stay, a request that was received keeps its arguments, and     *)
(* one that was answered its answer.                                       *)
LEMMA Kept ==
    ASSUME Types, Progress, [Next]_vars
    PROVE  /\ users \subseteq users'
           /\ \A q \in Reqs : pc[q] # 0 => job'[q] = job[q]
           /\ \A q \in Reqs : answer[q] # "none" => answer'[q] = answer[q] /\ token'[q] = token[q]
<1> USE DEF Types
<1>1. ASSUME NEW r \in Reqs, Receive(r)
      PROVE  /\ users \subseteq users'
             /\ \A q \in Reqs : pc[q] # 0 => job'[q] = job[q]
             /\ \A q \in Reqs : answer[q] # "none" => answer'[q] = answer[q] /\ token'[q] = token[q]
  BY <1>1 DEF Receive, tables, locals
<1>2. ASSUME NEW r \in Reqs, Serve(r) \/ Throw(r)
      PROVE  /\ users \subseteq users'
             /\ \A q \in Reqs : pc[q] # 0 => job'[q] = job[q]
             /\ \A q \in Reqs : answer[q] # "none" => answer'[q] = answer[q] /\ token'[q] = token[q]
  <2>1. job' = job /\ Running(r) /\ \A q \in Reqs \ {r} : answer'[q] = answer[q]
    BY <1>2, Moves
  <2>2. users \subseteq users' /\ \A q \in Reqs \ {r} : token'[q] = token[q]
    <3>1. CASE FindToRegister(r) \/ AddUser(r) \/ FindToLogin(r) \/ CheckPassword(r)
      BY <3>1 DEF FindToRegister, AddUser, UsersWith, FindToLogin, CheckPassword, locals, tables
    <3>2. CASE CheckAuth(r) \/ GenerateAnswer(r) \/ BeginInsert(r) \/ KeepAnswer(r)
      BY <3>2 DEF CheckAuth, GenerateAnswer, BeginInsert, KeepAnswer, locals, tables
    <3>3. CASE ListHistory(r) \/ Throw(r)
      BY <3>3 DEF ListHistory, Throw, locals, tables
    <3> QED
      BY <1>2, <3>1, <3>2, <3>3 DEF Serve
  <2> QED
    BY <2>1, <2>2 DEF Running
<1>3. CASE UNCHANGED <<users, history, job, pc, locals>> /\ (Tick \/ Restart)
  BY <1>3 DEF Tick, Restart, Running, locals
<1>4. CASE UNCHANGED vars
  BY <1>4 DEF vars
<1> QED
  BY <1>1, <1>2, <1>3, <1>4, StepsOfNext

-----------------------------------------------------------------------------
(* Accounts.                                                               *)

(* An account is made only by an INSERT that finds its name free.          *)
LEMMA UsersFrame ==
    ASSUME [Next]_vars
    PROVE  \/ \E r \in Reqs : AddUser(r)
           \/ users' = users
<1>1. ASSUME NEW r \in Reqs, Serve(r) \/ Throw(r)
      PROVE  AddUser(r) \/ users' = users
  <2>1. CASE FindToRegister(r) \/ FindToLogin(r) \/ CheckPassword(r) \/ CheckAuth(r)
    BY <2>1 DEF FindToRegister, FindToLogin, CheckPassword, CheckAuth, tables
  <2>2. CASE GenerateAnswer(r) \/ BeginInsert(r) \/ KeepAnswer(r) \/ ListHistory(r) \/ Throw(r)
    BY <2>2 DEF GenerateAnswer, BeginInsert, KeepAnswer, ListHistory, Throw, tables
  <2> QED
    BY <1>1, <2>1, <2>2 DEF Serve
<1>2. ASSUME NEW r \in Reqs, Receive(r)
      PROVE  users' = users
  BY <1>2 DEF Receive, tables
<1> QED
  BY <1>1, <1>2, StepsOfNext DEF vars

(* Only AddUser answers 201, and it has made the account.                  *)
LEMMA OnlyAddUserRegisters ==
    ASSUME Types, Progress, [Next]_vars,
           NEW r \in Reqs, answer'[r] = "201", answer[r] # "201"
    PROVE  AddUser(r) /\ NewUser(r) \in users'
<1> USE DEF Types, Answer, Advance
<1>1. \A q \in Reqs : ~ Receive(q)
  BY DEF Receive
<1>2. CASE Tick \/ Restart \/ UNCHANGED vars
  BY <1>2 DEF Tick, Restart, vars
<1>3. ASSUME NEW q \in Reqs, Serve(q) \/ Throw(q)
      PROVE  AddUser(r) /\ NewUser(r) \in users'
  <2>1. q = r
    BY <1>3, Moves
  <2>2. ~ FindToRegister(r) /\ ~ FindToLogin(r) /\ ~ CheckPassword(r) /\ ~ CheckAuth(r)
    BY DEF FindToRegister, FindToLogin, CheckPassword, CheckAuth
  <2>3. ~ GenerateAnswer(r) /\ ~ BeginInsert(r) /\ ~ KeepAnswer(r) /\ ~ ListHistory(r) /\ ~ Throw(r)
    BY DEF GenerateAnswer, BeginInsert, KeepAnswer, ListHistory, Throw
  <2>4. AddUser(r)
    BY <1>3, <2>1, <2>2, <2>3 DEF Serve
  <2>5. users' # users
    BY <2>4 DEF AddUser
  <2> QED
    BY <2>4, <2>5 DEF AddUser, UsersWith
<1> QED
  BY <1>1, <1>2, <1>3, StepsOfNext

LEMMA LaterInvariant ==
    ASSUME Types, Progress, Later, [Next]_vars
    PROVE  Registered \subseteq Registered' /\ Later'
<1>1. Registered \subseteq Registered'
  BY Kept DEF Registered, Types, Progress
<1>2. ASSUME NEW r \in Reqs
      PROVE  job'[r].after \subseteq Registered'
  <2>1. CASE job'[r] = job[r]
    BY <1>1, <2>1 DEF Later
  <2>2. CASE Receive(r)
    <3>1. job'[r].after = Registered
      BY <2>2 DEF Receive, Types
    <3> QED
      BY <1>1, <3>1
  <2>3. ASSUME NEW q \in Reqs, q # r, Receive(q)
        PROVE  job'[r] = job[r]
    BY <2>3 DEF Receive, Types
  <2> QED
    BY <2>1, <2>2, <2>3, StepsOfNext, Moves DEF vars
<1> QED
  BY <1>1, <1>2 DEF Later

LEMMA OwnersInvariant ==
    ASSUME Types, Progress, Owners, [Next]_vars
    PROVE  Owners'
<1>1. ASSUME NEW u \in users', NEW v \in users', u.username = v.username
      PROVE  u = v
  <2>1. CASE users' = users
    BY <1>1, <2>1 DEF Owners
  <2>2. ASSUME NEW r \in Reqs, AddUser(r)
        PROVE  u = v
    <3>1. users' = UsersWith(r)
      BY <2>2 DEF AddUser
    <3>2. CASE Named(job[r].name) = {}
      <4>1. \A w \in users : w.username # job[r].name
        BY <3>2 DEF Named
      <4>2. NewUser(r).username = job[r].name
        BY DEF NewUser
      <4> QED
        BY <1>1, <3>1, <3>2, <4>1, <4>2 DEF UsersWith, Owners
    <3>3. CASE Named(job[r].name) # {}
      BY <1>1, <3>1, <3>3 DEF UsersWith, Owners
    <3> QED
      BY <3>2, <3>3
  <2> QED
    BY <2>1, <2>2, UsersFrame
<1>2. ASSUME NEW r \in Registered'
      PROVE  NewUser(r)' \in users'
  <2>1. r \in Reqs /\ answer'[r] = "201" /\ job'[r].op = "register"
    BY <1>2 DEF Registered
  <2>2. CASE answer[r] = "201"
    <3>1. pc[r] # 0 /\ job'[r] = job[r] => r \in Registered
      BY <2>1, <2>2 DEF Registered
    <3>2. CASE pc[r] # 0
      <4>1. job'[r] = job[r] /\ NewUser(r) \in users /\ users \subseteq users'
        BY <2>1, <3>1, <3>2, Kept DEF Owners
      <4> QED
        BY <4>1 DEF NewUser
    <3>3. CASE pc[r] = 0
      <4>1. ~ Receive(r)
        BY <2>2 DEF Receive
      <4>2. job'[r] = job[r]
        BY <2>1, <3>3, <4>1, StepsOfNext, Moves DEF vars, Receive, Types
      <4> QED
        BY <2>1, <3>3, <4>2 DEF Progress
    <3> QED
      BY <3>2, <3>3
  <2>3. CASE answer[r] # "201"
    <3>1. AddUser(r) /\ NewUser(r) \in users'
      BY <2>1, <2>3, OnlyAddUserRegisters
    <3>2. job' = job
      BY <3>1 DEF AddUser
    <3> QED
      BY <3>1, <3>2 DEF NewUser
  <2> QED
    BY <2>2, <2>3
<1> QED
  BY <1>1, <1>2 DEF Owners

-----------------------------------------------------------------------------
(* Logins.                                                                 *)

(* What comes to stand before the password check has just been found.      *)
LEMMA FoundByNameInvariant ==
    ASSUME Types, Progress, FoundByName, [Next]_vars
    PROVE  FoundByName'
<1> USE DEF Types
<1>1. SUFFICES ASSUME NEW r \in Reqs, At(r, "check")'
               PROVE  found'[r] \in users' /\ found'[r].username = job'[r].name
  BY DEF FoundByName
<1>2. Running(r)' /\ Program(job'[r].op)[pc'[r]] = "check"
  BY <1>1 DEF At
<1>3. users \subseteq users'
  BY Kept
<1>4. ASSUME At(r, "check"), found'[r] = found[r], job'[r] = job[r]
      PROVE  found'[r] \in users' /\ found'[r].username = job'[r].name
  BY <1>3, <1>4 DEF FoundByName
<1>5. CASE Receive(r)
  <2>1. pc'[r] = 1
    BY <1>5 DEF Receive
  <2>2. job'[r].op \in {"register", "login", "ask", "history"}
    BY <1>5 DEF Receive
  <2> QED
    BY <1>2, <2>1, <2>2 DEF Program, Register, Login, Ask, History
<1>6. CASE Serve(r) \/ Throw(r)
  <2>1. Running(r) /\ job' = job /\ answer'[r] = "none"
    BY <1>2, <1>6, Moves DEF Running
  <2>2. pc'[r] \in DOMAIN Program(job[r].op) /\ job[r].op = "login" /\ pc'[r] = 2
    <3>1. job[r].op \in {"register", "login", "ask", "history"}
      BY <2>1 DEF Running, Progress, JobRecords
    <3>2. pc'[r] \in DOMAIN Program(job[r].op)
      BY <1>6, <2>1, Moves
    <3> QED
      BY <1>2, <2>1, <3>1, <3>2 DEF Program, Register, Login, Ask, History
  <2>3. CASE FindToLogin(r)
    <3>1. Named(job[r].name) # {} /\ users' = users
      BY <2>1, <2>3 DEF FindToLogin, Answer, tables
    <3>2. PICK u \in Named(job[r].name) : found' = [found EXCEPT ![r] = u]
      BY <2>3, <3>1 DEF FindToLogin
    <3> QED
      BY <2>1, <3>1, <3>2 DEF Named
  <2>4. CASE ~ FindToLogin(r)
    <3>1. Advance(r) => pc'[r] = pc[r] + 1
      BY <2>1 DEF Advance
    <3>2. At(r, "find") \/ At(r, "check")
      BY <2>1, <2>2 DEF At, Running, Progress, Program, Login
    <3>3. CASE At(r, "check")
      <4>1. CheckPassword(r) \/ Throw(r)
        BY <1>6, <3>3 DEF At, Serve, FindToRegister, AddUser, FindToLogin, CheckAuth, GenerateAnswer,
                 BeginInsert, KeepAnswer, ListHistory
      <4>2. answer'[r] \in Codes
        BY <4>1 DEF CheckPassword, Throw, Answer, Codes
      <4> QED
        BY <2>1, <4>2 DEF Codes
    <3>4. CASE At(r, "find")
      <4>1. Throw(r)
        BY <1>6, <2>2, <2>4, <3>4 DEF At, Serve, FindToRegister, AddUser, CheckPassword, CheckAuth,
                 GenerateAnswer, BeginInsert, KeepAnswer, ListHistory
      <4> QED
        BY <2>1, <4>1 DEF Throw, Answer
    <3> QED
      BY <3>2, <3>3, <3>4
  <2> QED
    BY <2>3, <2>4
<1>7. ASSUME NEW q \in Reqs, q # r, Receive(q)
      PROVE  At(r, "check") /\ found'[r] = found[r] /\ job'[r] = job[r]
  BY <1>2, <1>7 DEF Receive, At, Running, locals
<1>8. ASSUME NEW q \in Reqs, q # r, Serve(q) \/ Throw(q)
      PROVE  At(r, "check") /\ found'[r] = found[r] /\ job'[r] = job[r]
  <2>1. job' = job /\ pc'[r] = pc[r] /\ answer'[r] = answer[r]
    BY <1>8, Moves
  <2>2. found'[r] = found[r]
    <3>1. CASE FindToRegister(q) \/ AddUser(q) \/ FindToLogin(q) \/ CheckPassword(q)
      BY <1>8, <3>1 DEF FindToRegister, AddUser, FindToLogin, CheckPassword, locals
    <3>2. CASE CheckAuth(q) \/ GenerateAnswer(q) \/ BeginInsert(q) \/ KeepAnswer(q)
      BY <3>2 DEF CheckAuth, GenerateAnswer, BeginInsert, KeepAnswer, locals
    <3>3. CASE ListHistory(q) \/ Throw(q)
      BY <3>3 DEF ListHistory, Throw, locals
    <3> QED
      BY <1>8, <3>1, <3>2, <3>3 DEF Serve
  <2> QED
    BY <1>2, <2>1, <2>2 DEF At, Running
<1>9. CASE (UNCHANGED <<users, history, job, pc, locals>> /\ (Tick \/ Restart)) \/ UNCHANGED vars
  <2>1. At(r, "check") /\ found'[r] = found[r] /\ job'[r] = job[r]
    BY <1>2, <1>9 DEF Tick, Restart, vars, locals, At, Running
  <2> QED
    BY <1>4, <2>1
<1> QED
  BY <1>4, <1>5, <1>6, <1>7, <1>8, <1>9, StepsOfNext

(* The row of a registered name matches the registered password.           *)
LEMMA RegisteredIsFound ==
    ASSUME Owners, NEW q \in Registered, NEW u \in users, u.username = job[q].name
    PROVE  Matches(job[q].password, u.hash)
<1>1. NewUser(q) \in users /\ NewUser(q).username = job[q].name
  BY DEF Owners, NewUser
<1>2. u = NewUser(q)
  BY <1>1 DEF Owners
<1> QED
  BY <1>2 DEF NewUser, Matches, Hash

LEMMA LoginsInvariant ==
    ASSUME Types, Progress, Owners, Later, FoundByName, RegisteredCanLogin, [Next]_vars
    PROVE  RegisteredCanLogin'
<1> USE DEF Types
<1>1. SUFFICES ASSUME NEW r \in Reqs, NEW q \in job'[r].after, job'[r].op = "login",
                      job'[r].name = job'[q].name, job'[r].password = job'[q].password,
                      answer'[r] \in {"401", "404"}
               PROVE  FALSE
  BY DEF RegisteredCanLogin
<1>2. CASE Receive(r)
  BY <1>1, <1>2 DEF Receive
<1>3. CASE job'[r] = job[r]
  <2>1. q \in Registered /\ q \in Reqs
    BY <1>1, <1>3 DEF Later, Registered
  <2>2. job'[q] = job[q]
    BY <2>1, Kept DEF Registered, Progress
  <2>3. answer[r] \notin {"401", "404"}
    BY <1>1, <1>3, <2>1, <2>2 DEF RegisteredCanLogin
  <2>4. Serve(r) \/ Throw(r)
    <3>1. ASSUME NEW p \in Reqs, p # r, Serve(p) \/ Throw(p)
          PROVE  answer'[r] = answer[r]
      BY <3>1, Moves
    <3>2. ASSUME NEW p \in Reqs, Receive(p)
          PROVE  answer'[r] = answer[r]
      BY <3>2 DEF Receive
    <3> QED
      BY <1>1, <2>3, <3>1, <3>2, StepsOfNext DEF Tick, Restart, vars
  <2>5. FindToLogin(r) \/ CheckPassword(r) \/ CheckAuth(r)
    BY <1>1, <2>3, <2>4 DEF Serve, Throw, FindToRegister, AddUser, GenerateAnswer, BeginInsert,
                KeepAnswer, ListHistory, Answer, Advance
  <2>6. CASE FindToLogin(r)
    <3>1. Named(job[r].name) = {}
      BY <1>1, <2>3, <2>6 DEF FindToLogin, Advance, Answer
    <3>2. NewUser(q) \in users /\ NewUser(q).username = job[r].name
      BY <1>1, <1>3, <2>1, <2>2 DEF Owners, NewUser
    <3> QED
      BY <3>1, <3>2 DEF Named
  <2>7. CASE CheckPassword(r)
    <3>1. ~ Matches(job[r].password, found[r].hash)
      BY <1>1, <2>7 DEF CheckPassword, Answer
    <3>2. found[r] \in users /\ found[r].username = job[r].name
      BY <2>7 DEF CheckPassword, FoundByName
    <3> QED
      BY <1>1, <1>3, <2>1, <2>2, <3>1, <3>2, RegisteredIsFound
  <2>8. CASE CheckAuth(r)
    <3>1. At(r, "auth")
      BY <2>8 DEF CheckAuth
    <3>2. job[r].op \in {"ask", "history"}
      BY <3>1, Steps
    <3> QED
      BY <1>1, <1>3, <3>2
  <2> QED
    BY <2>5, <2>6, <2>7, <2>8
<1>4. ASSUME NEW p \in Reqs, p # r, Receive(p)
      PROVE  job'[r] = job[r]
  BY <1>4 DEF Receive
<1> QED
  BY <1>2, <1>3, <1>4, StepsOfNext, Moves DEF vars

-----------------------------------------------------------------------------
(* Tokens.                                                                 *)

(* What a client can send.                                                 *)
LEMMA WhatIsAsked ==
    ASSUME NEW op \in {"register", "login", "ask", "history"}, NEW j \in Jobs(op)
    PROVE  /\ j.name \in Names \cup {None} /\ j.password \in Passwords \cup {None}
           /\ j.bearer \in Bearers /\ j.page \in 1 .. MaxInt
<1> USE HistoryAssumption, MaxIntAssumption DEF Jobs, Bearers
<1>1. CASE op = "register"
  BY <1>1
<1>2. CASE op = "login"
  BY <1>2
<1>3. CASE op = "ask"
  BY <1>3
<1>4. CASE op = "history"
  BY <1>4
<1> QED
  BY <1>1, <1>2, <1>3, <1>4

(* The arguments of a request when it is received, and otherwise.          *)
LEMMA JobsFrame ==
    ASSUME Types, Progress, [Next]_vars, NEW r \in Reqs
    PROVE  \/ job'[r] = job[r]
           \/ /\ Receive(r)
              /\ \E op \in {"register", "login", "ask", "history"} : \E j \in Jobs(op) :
                    job'[r] = [op |-> op, name |-> j.name, password |-> j.password,
                               bearer |-> j.bearer, page |-> j.page, after |-> Registered]
<1> USE DEF Types
<1>1. CASE Receive(r)
  BY <1>1 DEF Receive
<1>2. ASSUME NEW q \in Reqs, q # r, Receive(q)
      PROVE  job'[r] = job[r]
  BY <1>2 DEF Receive
<1> QED
  BY <1>1, <1>2, StepsOfNext, Moves DEF vars

(* A token is issued by a password check only, and user_id set by the      *)
(* check of the token.                                                     *)
LEMMA ContextFrame ==
    ASSUME Types, Progress, [Next]_vars, NEW r \in Reqs
    PROVE  /\ token'[r] = token[r] \/ CheckPassword(r)
           /\ userId'[r] = userId[r] \/ CheckAuth(r)
           /\ page'[r] = page[r] \/ ListHistory(r)
<1> USE DEF Types
<1>1. ASSUME NEW q \in Reqs, Serve(q) \/ Throw(q)
      PROVE  /\ token'[r] = token[r] \/ CheckPassword(r)
             /\ userId'[r] = userId[r] \/ CheckAuth(r)
             /\ page'[r] = page[r] \/ ListHistory(r)
  <2>1. CASE FindToRegister(q) \/ AddUser(q) \/ FindToLogin(q)
    BY <2>1 DEF FindToRegister, AddUser, FindToLogin, locals
  <2>2. CASE CheckPassword(q)
    BY <2>2 DEF CheckPassword
  <2>3. CASE CheckAuth(q)
    BY <2>3 DEF CheckAuth
  <2>4. CASE GenerateAnswer(q) \/ BeginInsert(q) \/ KeepAnswer(q) \/ Throw(q)
    BY <2>4 DEF GenerateAnswer, BeginInsert, KeepAnswer, Throw, locals
  <2>5. CASE ListHistory(q)
    BY <2>5 DEF ListHistory
  <2> QED
    BY <1>1, <2>1, <2>2, <2>3, <2>4, <2>5 DEF Serve
<1>2. ASSUME NEW q \in Reqs, Receive(q)
      PROVE  token' = token /\ userId' = userId /\ page' = page
  BY <1>2 DEF Receive, locals
<1> QED
  BY <1>1, <1>2, StepsOfNext DEF vars, locals

LEMMA IssuedInvariant ==
    ASSUME Types, Progress, FoundByName, Issued, [Next]_vars
    PROVE  Issued'
<1> USE DEF Types
<1>1. ASSUME NEW q \in Reqs, token'[q] # None
      PROVE  pc'[q] # 0 /\ OpenedBy(token[q].user, q)'
  <2>1. CASE token'[q] = token[q]
    <3>1. pc[q] # 0 /\ OpenedBy(token[q].user, q)
      BY <1>1, <2>1 DEF Issued
    <3>2. job'[q] = job[q] /\ users \subseteq users'
      BY <3>1, Kept
    <3>3. PICK u \in users : /\ u.id = token[q].user /\ u.username = job[q].name
                             /\ u.hash = Hash(job[q].password, u.hash.salt)
      BY <3>1 DEF OpenedBy
    <3>4. u \in users' /\ u.id = token'[q].user /\ u.username = job'[q].name
          /\ u.hash = Hash(job'[q].password, u.hash.salt)
      BY <2>1, <3>2, <3>3
    <3>5. pc'[q] # 0
      BY <3>1, <3>2, ProgressInvariant DEF Progress
    <3> QED
      BY <3>4, <3>5 DEF OpenedBy, Hash
  <2>2. CASE CheckPassword(q) /\ token'[q] # token[q]
    <3>1. At(q, "check") /\ Matches(job[q].password, found[q].hash)
          /\ token'[q] = NewToken(found[q]) /\ users' = users /\ job' = job
      BY <2>2 DEF CheckPassword, tables
    <3>2. found[q] \in users /\ found[q].username = job[q].name
      BY <3>1 DEF FoundByName
    <3>3. token'[q].user = found[q].id /\ found[q].hash = Hash(job[q].password, found[q].hash.salt)
      BY <3>1 DEF NewToken, Matches
    <3>4. pc'[q] # 0
      BY <2>2, Moves DEF Serve
    <3> QED
      BY <3>1, <3>2, <3>3, <3>4 DEF OpenedBy, Hash
  <2> QED
    BY <2>1, <2>2, ContextFrame
<1>2. ASSUME NEW r \in Reqs, job[r].bearer \in {None, OldToken} \cup {token[q] : q \in Reqs}
      PROVE  job[r].bearer \in {None, OldToken} \cup {token'[q] : q \in Reqs}
  <2>1. ASSUME NEW q \in Reqs, token[q] # None
        PROVE  token'[q] = token[q]
    BY <2>1, Kept DEF Progress
  <2> QED
    BY <1>2, <2>1
<1>3. ASSUME NEW r \in Reqs
      PROVE  job'[r].bearer \in {None, OldToken} \cup {token'[q] : q \in Reqs}
  <2>1. CASE job'[r] = job[r]
    BY <1>2, <2>1 DEF Issued
  <2>2. CASE job'[r] # job[r]
    <3>1. token' = token
      BY <2>2, JobsFrame DEF Receive, locals
    <3>2. PICK op \in {"register", "login", "ask", "history"} : \E j \in Jobs(op) :
            job'[r] = [op |-> op, name |-> j.name, password |-> j.password,
                       bearer |-> j.bearer, page |-> j.page, after |-> Registered]
      BY <2>2, JobsFrame
    <3>3. job'[r].bearer \in Bearers
      BY <3>2, WhatIsAsked
    <3> QED
      BY <3>1, <3>3 DEF Bearers
  <2> QED
    BY <2>1, <2>2
<1>4. OldToken' = OldToken
  BY DEF OldToken
<1> QED
  BY <1>1, <1>3, <1>4 DEF Issued

(* A handler comes to a step that uses user_id from CheckAuth, or from an  *)
(* earlier one of these steps.                                             *)
LEMMA ContextInvariant ==
    ASSUME Types, Progress, Context, Issued, [Next]_vars
    PROVE  Context'
<1> USE DEF Types
<1>1. ASSUME NEW r \in Reqs, userId'[r] # None
      PROVE  job'[r].bearer # None /\ userId'[r] = job'[r].bearer.user
  <2>1. CASE userId'[r] = userId[r]
    <3>1. pc[r] # 0
      BY <1>1, <2>1 DEF Progress
    <3> QED
      BY <1>1, <2>1, <3>1, Kept DEF Context
  <2>2. CASE CheckAuth(r) /\ userId'[r] # userId[r]
    BY <2>2 DEF CheckAuth
  <2> QED
    BY <2>1, <2>2, ContextFrame
<1>2. ASSUME NEW r \in Reqs, NEW step \in {"call", "begin", "keep", "list"}, At(r, step)'
      PROVE  userId'[r] # None
  <2>1. Running(r)' /\ Program(job'[r].op)[pc'[r]] = step
    BY <1>2 DEF At
  <2>2. CASE At(r, step)
    <3>1. userId[r] # None
      BY <2>2 DEF Context
    <3>2. ~ CheckAuth(r)
      BY <2>2 DEF CheckAuth, At
    <3> QED
      BY <3>1, <3>2, ContextFrame
  <2>3. CASE Receive(r)
    <3>1. pc'[r] = 1 /\ job'[r].op \in {"register", "login", "ask", "history"}
      BY <2>3 DEF Receive
    <3> QED
      BY <2>1, <3>1 DEF Program, Register, Login, Ask, History
  <2>4. CASE CheckAuth(r)
    <3>1. userId'[r] = job[r].bearer.user /\ job[r].bearer # None
      BY <2>1, <2>4 DEF CheckAuth, Answer, Running
    <3>2. job[r].bearer \in Tokens
      BY <3>1 DEF JobRecords
    <3> QED
      BY <3>1, <3>2, NoneAssumption DEF Tokens
  <2>5. CASE GenerateAnswer(r) \/ BeginInsert(r)
    <3>1. userId[r] # None
      BY <2>5 DEF GenerateAnswer, BeginInsert, Context
    <3> QED
      BY <2>5, <3>1 DEF GenerateAnswer, BeginInsert, locals
  <2>6. CASE FindToRegister(r) \/ FindToLogin(r)
    <3>1. job' = job /\ At(r, "find") /\ job[r].op \in {"register", "login"}
      BY <2>6, Steps DEF FindToRegister, FindToLogin
    <3>2. pc'[r] \in DOMAIN Program(job[r].op)
      BY <2>1, <2>6, Moves DEF Serve, Running
    <3> QED
      BY <2>1, <3>1, <3>2 DEF Program, Register, Login
  <2>7. CASE AddUser(r) \/ CheckPassword(r) \/ KeepAnswer(r) \/ ListHistory(r) \/ Throw(r)
    BY <2>1, <2>7 DEF AddUser, CheckPassword, KeepAnswer, ListHistory, Throw, Answer, Running
  <2>8. ASSUME NEW q \in Reqs, q # r, Receive(q) \/ Serve(q) \/ Throw(q)
        PROVE  At(r, step)
    <3>1. CASE Receive(q)
      BY <2>1, <2>8, <3>1 DEF Receive, At, Running
    <3>2. CASE Serve(q) \/ Throw(q)
      BY <2>1, <2>8, <3>2, Moves DEF At, Running
    <3> QED
      BY <2>8, <3>1, <3>2
  <2>9. CASE (UNCHANGED <<users, history, job, pc, locals>> /\ (Tick \/ Restart)) \/ UNCHANGED vars
    BY <2>1, <2>2, <2>9 DEF Tick, Restart, vars, At, Running
  <2> QED
    BY <2>2, <2>3, <2>4, <2>5, <2>6, <2>7, <2>8, <2>9, StepsOfNext DEF Serve
<1> QED
  BY <1>1, <1>2 DEF Context

-----------------------------------------------------------------------------
(* The history.                                                            *)

(* A row is added to the history when an INSERT commits, and only then.    *)
LEMMA HistoryFrame ==
    ASSUME Types, [Next]_vars
    PROVE  \/ history' = history
           \/ \E r \in Reqs : KeepAnswer(r)
<1>1. ASSUME NEW r \in Reqs, Serve(r) \/ Throw(r), ~ KeepAnswer(r)
      PROVE  history' = history
  <2>1. CASE FindToRegister(r) \/ AddUser(r) \/ FindToLogin(r) \/ CheckPassword(r)
    BY <2>1 DEF FindToRegister, AddUser, FindToLogin, CheckPassword, tables
  <2>2. CASE CheckAuth(r) \/ GenerateAnswer(r) \/ BeginInsert(r) \/ ListHistory(r) \/ Throw(r)
    BY <2>2 DEF CheckAuth, GenerateAnswer, BeginInsert, ListHistory, Throw, tables
  <2> QED
    BY <1>1, <2>1, <2>2 DEF Serve
<1>2. ASSUME NEW r \in Reqs, Receive(r)
      PROVE  history' = history
  BY <1>2 DEF Receive, tables
<1> QED
  BY <1>1, <1>2, StepsOfNext DEF vars

LEMMA ListingsInvariant ==
    ASSUME Types, Progress, Context, Listings, [Next]_vars
    PROVE  Listings'
<1> USE DEF Types
<1>1. IsFiniteSet(history')
  <2>1. ASSUME NEW r \in Reqs, KeepAnswer(r)
        PROVE  IsFiniteSet(history')
    <3>1. PICK x : history' = history \cup {x}
      BY <2>1 DEF KeepAnswer
    <3> QED
      BY <3>1, FS_AddElement DEF Listings
  <2> QED
    BY <2>1, HistoryFrame DEF Listings
<1>2. ASSUME NEW r \in Reqs, page'[r] # NoPage
      PROVE  /\ page'[r].shown = PageOf(page'[r].listed, job'[r].page)
             /\ Offset(job'[r].page) >= 0
             /\ IsFiniteSet(page'[r].listed)
             /\ userId'[r] # None
             /\ \A x \in page'[r].listed : x.user = userId'[r]
  <2>1. CASE page'[r] = page[r]
    <3>1. answer[r] # "none" /\ pc[r] # 0
      BY <1>2, <2>1 DEF Listings, Progress
    <3>2. job'[r] = job[r]
      BY <3>1, Kept
    <3>3. userId'[r] = userId[r]
      BY <3>1, ContextFrame DEF CheckAuth, At, Running
    <3> QED
      BY <1>2, <2>1, <3>2, <3>3 DEF Listings
  <2>2. CASE ListHistory(r)
    <3> DEFINE all == HistoryOf(userId[r])
    <3>1. page'[r] = [shown |-> PageOf(all, job[r].page), listed |-> all]
          /\ job' = job /\ userId' = userId /\ Offset(job[r].page) >= 0
      <4>1. Offset(job[r].page) \in Int
        BY OffsetType, HistoryAssumption DEF Offset, JobRecords
      <4>2. ~ (Offset(job[r].page) < 0)
        BY <1>2, <2>2 DEF ListHistory, Progress, At, Running
      <4> QED
        BY <2>2, <4>1, <4>2 DEF ListHistory
    <3>2. userId[r] # None
      BY <2>2 DEF ListHistory, Context
    <3>3. IsFiniteSet(all) /\ \A x \in all : x.user = userId[r]
      BY FS_Subset DEF Listings, HistoryOf
    <3> QED
      BY <3>1, <3>2, <3>3
  <2> QED
    BY <2>1, <2>2, ContextFrame
<1>3. NoPage' = NoPage
  BY DEF NoPage
<1>4. \A r \in Reqs :
          /\ PageOf(page[r].listed, job[r].page)' = PageOf(page'[r].listed, job'[r].page)
          /\ Offset(job[r].page)' = Offset(job'[r].page)
  BY DEF PageOf, Before, Offset, OffsetOf, ToInt, Span
<1> QED
  BY <1>1, <1>2, <1>3, <1>4 DEF Listings

-----------------------------------------------------------------------------
(* Types.                                                                  *)

-----------------------------------------------------------------------------
(* Types.                                                                  *)

LEMMA ArgumentsInvariant ==
    ASSUME Types, Progress, Arguments, [Next]_vars
    PROVE  Arguments'
<1>1. ASSUME NEW r \in Reqs, job'[r].op \in {"register", "login"}
      PROVE  job'[r].name \in Names /\ job'[r].password \in Passwords
  <2>1. CASE job'[r] = job[r]
    BY <1>1, <2>1 DEF Arguments
  <2>2. CASE job'[r] # job[r]
    <3>1. PICK op \in {"register", "login", "ask", "history"} : \E j \in Jobs(op) :
            job'[r] = [op |-> op, name |-> j.name, password |-> j.password,
                       bearer |-> j.bearer, page |-> j.page, after |-> Registered]
      BY <2>2, JobsFrame
    <3>2. op \in {"register", "login"}
      BY <1>1, <3>1
    <3>3. \A j \in Jobs(op) : j.name \in Names /\ j.password \in Passwords
      BY <3>2 DEF Jobs
    <3> QED
      BY <3>1, <3>3
  <2> QED
    BY <2>1, <2>2
<1> QED
  BY <1>1 DEF Arguments

LEMMA JobTypes ==
    ASSUME Types, NEW r \in Reqs, Receive(r)
    PROVE  job' \in [Reqs -> JobRecords]
<1>1. OldToken \in Tokens
  BY HistoryAssumption DEF OldToken, Tokens, UserIds
<1>2. Bearers \subseteq Tokens \cup {None}
  BY <1>1 DEF Bearers, Types
<1>3. PICK op \in {"register", "login", "ask", "history"} : \E j \in Jobs(op) :
        job' = [job EXCEPT ![r] =
                   [op |-> op, name |-> j.name, password |-> j.password,
                    bearer |-> j.bearer, page |-> j.page, after |-> Registered]]
  BY DEF Receive
<1>4. PICK j \in Jobs(op) :
        job' = [job EXCEPT ![r] =
                   [op |-> op, name |-> j.name, password |-> j.password,
                    bearer |-> j.bearer, page |-> j.page, after |-> Registered]]
  BY <1>3
<1>5. /\ j.name \in Names \cup {None} /\ j.password \in Passwords \cup {None}
      /\ j.bearer \in Tokens \cup {None} /\ j.page \in 1 .. MaxInt
  BY <1>2, WhatIsAsked
<1>6. Registered \subseteq Reqs
  BY DEF Registered
<1>7. [op |-> op, name |-> j.name, password |-> j.password,
       bearer |-> j.bearer, page |-> j.page, after |-> Registered] \in JobRecords
  BY <1>5, <1>6 DEF JobRecords
<1> QED
  BY <1>4, <1>7 DEF Types

LEMMA TypesInvariant ==
    ASSUME Types, Progress, Arguments, FoundByName, Context, [Next]_vars
    PROVE  Types'
<1>1. pc' \in [Reqs -> 0 .. 4] /\ answer' \in [Reqs -> {"none"} \cup Codes]
  BY ProgressInvariant
<1>2. users' \subseteq UserRows
  <2>1. ASSUME NEW r \in Reqs, AddUser(r)
        PROVE  NewUser(r) \in UserRows
    <3>1. job[r].name \in Names /\ job[r].password \in Passwords
      BY <2>1, Steps DEF AddUser, Arguments
    <3> QED
      BY <3>1 DEF NewUser, UserRows, Hashes, Hash, UserIds
  <2> QED
    BY <2>1, UsersFrame DEF AddUser, UsersWith, Types
<1>3. history' \subseteq HistoryRows
  <2>1. ASSUME NEW r \in Reqs, KeepAnswer(r)
        PROVE  [user |-> userId[r], by |-> r, createdAt |-> stamp[r]] \in HistoryRows
    <3>1. userId[r] \in UserIds /\ stamp[r] \in Nat
      BY <2>1 DEF KeepAnswer, Context, Types
    <3> QED
      BY <3>1 DEF HistoryRows
  <2> QED
    BY <2>1, HistoryFrame DEF KeepAnswer, Types
<1>4. now' \in Nat /\ stamp' \in [Reqs -> Nat]
  <2>1. ASSUME NEW r \in Reqs, BeginInsert(r)
        PROVE  now' \in Nat /\ stamp' \in [Reqs -> Nat]
    BY <2>1 DEF BeginInsert, Types
  <2>2. ASSUME NEW r \in Reqs, Serve(r) \/ Throw(r), ~ BeginInsert(r)
        PROVE  now' = now /\ stamp' = stamp
    <3>1. CASE FindToRegister(r) \/ AddUser(r) \/ FindToLogin(r) \/ CheckPassword(r)
      BY <3>1 DEF FindToRegister, AddUser, FindToLogin, CheckPassword, locals
    <3>2. CASE CheckAuth(r) \/ GenerateAnswer(r) \/ KeepAnswer(r) \/ ListHistory(r) \/ Throw(r)
      BY <3>2 DEF CheckAuth, GenerateAnswer, KeepAnswer, ListHistory, Throw, locals
    <3> QED
      BY <2>2, <3>1, <3>2 DEF Serve
  <2>3. ASSUME NEW r \in Reqs, Receive(r)
        PROVE  now' = now /\ stamp' = stamp
    BY <2>3 DEF Receive, locals
  <2>4. CASE (UNCHANGED <<users, history, job, pc, locals>> /\ (Tick \/ Restart)) \/ UNCHANGED vars
    BY <2>4 DEF Tick, Restart, vars, locals, Types
  <2> QED
    BY <2>1, <2>2, <2>3, <2>4, StepsOfNext DEF Types
<1>5. job' \in [Reqs -> JobRecords]
  BY JobTypes, Moves, StepsOfNext DEF vars, Types
<1>6. found' \in [Reqs -> UserRows \cup {None}]
  <2>1. ASSUME NEW r \in Reqs, FindToLogin(r)
        PROVE  found' \in [Reqs -> UserRows \cup {None}]
    BY <2>1 DEF FindToLogin, Named, Types
  <2>2. ASSUME NEW r \in Reqs, Serve(r) \/ Throw(r), ~ FindToLogin(r)
        PROVE  found' = found
    <3>1. CASE FindToRegister(r) \/ AddUser(r) \/ CheckPassword(r) \/ CheckAuth(r)
      BY <3>1 DEF FindToRegister, AddUser, CheckPassword, CheckAuth, locals
    <3>2. CASE GenerateAnswer(r) \/ BeginInsert(r) \/ KeepAnswer(r) \/ ListHistory(r) \/ Throw(r)
      BY <3>2 DEF GenerateAnswer, BeginInsert, KeepAnswer, ListHistory, Throw, locals
    <3> QED
      BY <2>2, <3>1, <3>2 DEF Serve
  <2>3. ASSUME NEW r \in Reqs, Receive(r)
        PROVE  found' = found
    BY <2>3 DEF Receive, locals
  <2> QED
    BY <2>1, <2>2, <2>3, StepsOfNext DEF vars, locals, Types
<1>7. userId' \in [Reqs -> UserIds \cup {None}] /\ token' \in [Reqs -> Tokens \cup {None}]
  <2>1. ASSUME NEW r \in Reqs, CheckAuth(r)
        PROVE  userId' \in [Reqs -> UserIds \cup {None}] /\ token' = token
    <3>1. job[r].bearer # None => job[r].bearer.user \in UserIds
      BY DEF Types, JobRecords, Tokens
    <3> QED
      BY <2>1, <3>1 DEF CheckAuth, Types
  <2>2. ASSUME NEW r \in Reqs, CheckPassword(r)
        PROVE  token' \in [Reqs -> Tokens \cup {None}] /\ userId' = userId
    <3>1. now + Lifetime \in Nat
      BY HistoryAssumption DEF Types
    <3>2. found[r] \in UserRows
      BY <2>2 DEF CheckPassword, FoundByName, Types
    <3>3. NewToken(found[r]) \in Tokens
      BY <3>1, <3>2 DEF NewToken, Tokens, UserRows
    <3> QED
      BY <2>2, <3>3 DEF CheckPassword, Types
  <2>3. ASSUME NEW r \in Reqs, Serve(r) \/ Throw(r), ~ CheckAuth(r), ~ CheckPassword(r)
        PROVE  userId' = userId /\ token' = token
    <3>1. CASE FindToRegister(r) \/ AddUser(r) \/ FindToLogin(r) \/ GenerateAnswer(r)
      BY <3>1 DEF FindToRegister, AddUser, FindToLogin, GenerateAnswer, locals
    <3>2. CASE BeginInsert(r) \/ KeepAnswer(r) \/ ListHistory(r) \/ Throw(r)
      BY <3>2 DEF BeginInsert, KeepAnswer, ListHistory, Throw, locals
    <3> QED
      BY <2>3, <3>1, <3>2 DEF Serve
  <2>4. ASSUME NEW r \in Reqs, Receive(r)
        PROVE  userId' = userId /\ token' = token
    BY <2>4 DEF Receive, locals
  <2> QED
    BY <2>1, <2>2, <2>3, <2>4, StepsOfNext DEF vars, locals, Types
<1>8. page' \in [Reqs -> [shown : SUBSET HistoryRows, listed : SUBSET HistoryRows]]
  <2>1. ASSUME NEW r \in Reqs, ListHistory(r)
        PROVE  page' \in [Reqs -> [shown : SUBSET HistoryRows, listed : SUBSET HistoryRows]]
    <3>1. HistoryOf(userId[r]) \subseteq HistoryRows
      BY DEF HistoryOf, Types
    <3>2. PageOf(HistoryOf(userId[r]), job[r].page) \subseteq HistoryRows
      BY <3>1 DEF PageOf
    <3> QED
      BY <2>1, <3>1, <3>2 DEF ListHistory, Types
  <2>2. ASSUME NEW r \in Reqs, Serve(r) \/ Throw(r), ~ ListHistory(r)
        PROVE  page' = page
    <3>1. CASE FindToRegister(r) \/ AddUser(r) \/ FindToLogin(r) \/ CheckPassword(r)
      BY <3>1 DEF FindToRegister, AddUser, FindToLogin, CheckPassword, locals
    <3>2. CASE CheckAuth(r) \/ GenerateAnswer(r) \/ BeginInsert(r) \/ KeepAnswer(r) \/ Throw(r)
      BY <3>2 DEF CheckAuth, GenerateAnswer, BeginInsert, KeepAnswer, Throw, locals
    <3> QED
      BY <2>2, <3>1, <3>2 DEF Serve
  <2>3. ASSUME NEW r \in Reqs, Receive(r)
        PROVE  page' = page
    BY <2>3 DEF Receive, locals
  <2> QED
    BY <2>1, <2>2, <2>3, StepsOfNext DEF vars, locals, Types
<1> QED
  BY <1>1, <1>2, <1>3, <1>4, <1>5, <1>6, <1>7, <1>8 DEF Types

-----------------------------------------------------------------------------
(* The inductive invariant.                                                *)

(* The history a run starts with is finite: it has one row for each of the *)
(* times in Asked, and these are numbers up to Launch.                     *)
LEMMA OldHistoryIsFinite ==
    IsFiniteSet({[user |-> OldUser, by |-> None, createdAt |-> n] : n \in Asked})
<1> DEFINE row == [n \in Asked |-> [user |-> OldUser, by |-> None, createdAt |-> n]]
           rows == {[user |-> OldUser, by |-> None, createdAt |-> n] : n \in Asked}
<1>1. IsFiniteSet(0 .. Launch)
  BY HistoryAssumption, FS_Interval
<1>2. IsFiniteSet(Asked)
  BY <1>1, HistoryAssumption, FS_Subset
<1>3. row \in [Asked -> rows]
  OBVIOUS
<1>4. \A x \in rows : \E n \in Asked : row[n] = x
  OBVIOUS
<1>5. row \in Surjection(Asked, rows)
  BY <1>3, <1>4 DEF Surjection
<1> QED
  BY <1>2, <1>5, FS_Surjection

LEMMA InitIndInv == Init => IndInv
<1> SUFFICES ASSUME Init PROVE IndInv
  OBVIOUS
<1> USE DEF Init
<1>1. /\ \A r \in Reqs : pc[r] = 0 /\ answer[r] = "none" /\ job[r] = NoJob
      /\ \A r \in Reqs : userId[r] = None /\ token[r] = None /\ page[r] = NoPage
  OBVIOUS
<1>2. Types
  <2>1. users \subseteq UserRows
    BY DEF UserRows, Hashes, Hash, UserIds
  <2>2. history \subseteq HistoryRows
    BY HistoryAssumption DEF HistoryRows, UserIds
  <2>3. NoJob \in JobRecords
    BY MaxIntAssumption DEF NoJob, JobRecords
  <2>4. NoPage \in [shown : SUBSET HistoryRows, listed : SUBSET HistoryRows]
    BY DEF NoPage
  <2> QED
    BY <2>1, <2>2, <2>3, <2>4, HistoryAssumption DEF Types
<1>3. Progress
  BY <1>1 DEF Progress, NoJob
<1>4. Arguments /\ Later
  BY <1>1 DEF Arguments, Later, NoJob
<1>5. Owners
  BY <1>1 DEF Owners, Registered
<1>6. FoundByName /\ Context
  BY <1>1 DEF FoundByName, Context, At, Running
<1>7. RegisteredCanLogin
  BY <1>1 DEF RegisteredCanLogin, NoJob
<1>8. Issued
  BY <1>1 DEF Issued, NoJob
<1>9. Listings
  BY <1>1, OldHistoryIsFinite DEF Listings
<1> QED
  BY <1>2, <1>3, <1>4, <1>5, <1>6, <1>7, <1>8, <1>9 DEF IndInv

LEMMA NextIndInv == IndInv /\ [Next]_vars => IndInv'
<1> SUFFICES ASSUME IndInv, [Next]_vars PROVE IndInv'
  OBVIOUS
<1>1. /\ Types /\ Progress /\ Arguments /\ Owners /\ Later /\ FoundByName
      /\ RegisteredCanLogin /\ Issued /\ Context /\ Listings
  BY DEF IndInv
<1>2. Types' /\ Progress' /\ Arguments'
  BY <1>1, TypesInvariant, ProgressInvariant, ArgumentsInvariant
<1>3. Owners' /\ Later' /\ FoundByName' /\ RegisteredCanLogin'
  BY <1>1, OwnersInvariant, LaterInvariant, FoundByNameInvariant, LoginsInvariant
<1>4. Issued' /\ Context' /\ Listings'
  BY <1>1, IssuedInvariant, ContextInvariant, ListingsInvariant
<1> QED
  BY <1>2, <1>3, <1>4 DEF IndInv

(* The inductive invariant holds in every state.                           *)
THEOREM Inductive == Spec => []IndInv
BY InitIndInv, NextIndInv, PTL DEF Spec

-----------------------------------------------------------------------------
(* The theorems.                                                           *)

(* Every variable has its type, a password is compared only with that of a *)
(* user who was found, and past CheckAuth a handler has a user_id.         *)
THEOREM TypeCorrect == Spec => []TypeOK
<1>1. IndInv => TypeOK
  <2> SUFFICES ASSUME IndInv PROVE TypeOK
    OBVIOUS
  <2>1. \A r \in Reqs : At(r, "check") => found[r] # None
    BY NoneAssumption DEF IndInv, FoundByName, Types
  <2> QED
    BY <2>1 DEF IndInv, Types, Codes, Context, TypeOK
<1> QED
  BY <1>1, Inductive, PTL

(* Of the registrations of one name at most one is answered 201, however  *)
(* the look-ups and INSERTs of several interleave (register.cpp:38-43).    *)
THEOREM RegisteredOnce == Spec => []OneAccountPerName
<1>1. IndInv => OneAccountPerName
  BY DEF IndInv, OneAccountPerName, Owners, NewUser
<1> QED
  BY <1>1, Inductive, PTL

(* Whoever was answered 201 can log in from then on, whatever other        *)
(* registrations of the name are tried: login.cpp finds his row, and its   *)
(* hash matches.                                                           *)
THEOREM LoginWorks == Spec => []RegisteredCanLogin
<1>1. IndInv => RegisteredCanLogin
  BY DEF IndInv
<1> QED
  BY <1>1, Inductive, PTL

(* A row of the history is shown only to someone with a token of the user  *)
(* who asked, and such a token was issued before the run or to a login     *)
(* that gave the password of his account.                                  *)
THEOREM OwnHistory == Spec => []OwnHistoryOnly
<1>1. IndInv => OwnHistoryOnly
  <2> SUFFICES ASSUME IndInv, NEW r \in Reqs, NEW x \in page[r].shown
               PROVE  \/ job[r].bearer = OldToken /\ x.user = OldUser
                      \/ \E q \in Reqs : \E u \in users :
                            /\ token[q] = job[r].bearer
                            /\ u.id = x.user /\ u.username = job[q].name
                            /\ u.hash = Hash(job[q].password, u.hash.salt)
    BY DEF OwnHistoryOnly
  <2>1. x \in page[r].listed /\ userId[r] # None /\ x.user = userId[r]
    BY DEF IndInv, Listings, NoPage, PageOf
  <2>2. job[r].bearer # None /\ x.user = job[r].bearer.user
    BY <2>1 DEF IndInv, Context
  <2>3. CASE job[r].bearer = OldToken
    BY <2>2, <2>3 DEF OldToken
  <2>4. CASE job[r].bearer # OldToken
    <3>1. PICK q \in Reqs : token[q] = job[r].bearer
      BY <2>2, <2>4 DEF IndInv, Issued
    <3>2. OpenedBy(token[q].user, q)
      BY <2>2, <3>1 DEF IndInv, Issued
    <3> QED
      BY <2>2, <3>1, <3>2 DEF OpenedBy
  <2> QED
    BY <2>3, <2>4
<1> QED
  BY <1>1, Inductive, PTL

(* What comes before x among the rows S comes before it among more rows,   *)
(* and before every row that is not later.                                 *)
LEMMA BeforeMonotone ==
    ASSUME NEW T, IsFiniteSet(T), NEW S \in SUBSET T, NEW x, NEW y,
           \A z \in S : z.createdAt > y.createdAt => z.createdAt > x.createdAt
    PROVE  Before(y, S) \in Nat /\ Before(x, T) \in Nat /\ Before(y, S) <= Before(x, T)
<1> DEFINE A == {z \in S : z.createdAt > y.createdAt}
           B == {z \in T : z.createdAt > x.createdAt}
<1>1. IsFiniteSet(B) /\ A \subseteq B
  BY FS_Subset
<1>2. Cardinality(A) \in Nat /\ Cardinality(B) \in Nat /\ Cardinality(A) <= Cardinality(B)
  BY <1>1, FS_Subset, FS_CardinalityType
<1> QED
  BY <1>2 DEF Before

(* A page and the next one, which lists the rows of the first and maybe    *)
(* others, have no gap between them: ListHistory turns a page number into  *)
(* an offset and a limit (handlers/history.cpp).                           *)
THEOREM NoGaps == Spec => []NoGapBetweenPages
<1>1. IndInv => NoGapBetweenPages
  <2> SUFFICES ASSUME IndInv, NEW q \in Reqs, NEW r \in Reqs,
                      job[r].page = job[q].page + 1,
                      page[q].listed \subseteq page[r].listed,
                      NEW x \in page[q].listed,
                      NEW y \in page[q].shown, y.createdAt >= x.createdAt,
                      NEW z \in page[r].shown, x.createdAt >= z.createdAt
               PROVE  x \in page[q].shown \cup page[r].shown
    BY DEF NoGapBetweenPages
  <2> DEFINE S == page[q].listed
             T == page[r].listed
             n == job[q].page
  <2>1. page[q].shown = PageOf(S, n) /\ page[r].shown = PageOf(T, n + 1)
        /\ Offset(n) >= 0 /\ Offset(n + 1) >= 0
        /\ IsFiniteSet(S) /\ IsFiniteSet(T)
    BY DEF IndInv, Listings, NoPage
  <2>2. S \subseteq HistoryRows /\ T \subseteq HistoryRows /\ n \in Nat /\ S \subseteq T
        /\ page[q].shown \subseteq HistoryRows /\ page[r].shown \subseteq HistoryRows
    BY DEF IndInv, Types, JobRecords
  <2>3. \A w \in HistoryRows : w.createdAt \in Nat
    BY DEF HistoryRows
  <2>4. Offset(n) <= Before(y, S) /\ Before(z, T) < Offset(n + 1) + Limit
    BY <2>1 DEF PageOf
  <2>5. Before(y, S) <= Before(x, S) /\ Before(x, S) \in Nat /\ Before(y, S) \in Nat
    BY <2>1, <2>2, <2>3, BeforeMonotone
  <2>6. Before(x, S) <= Before(x, T) /\ Before(x, T) \in Nat
    BY <2>1, <2>2, <2>3, BeforeMonotone
  <2>7. Before(x, T) <= Before(z, T) /\ Before(z, T) \in Nat
    BY <2>1, <2>2, <2>3, BeforeMonotone
  <2>8. Offset(n + 1) = Offset(n) + Limit /\ Offset(n) \in Int
    <3>1. Offset(n) \in Int /\ Offset(n + 1) \in Int
      <4>1. n \in Int /\ n + 1 \in Int /\ Limit \in Int
        BY <2>2, HistoryAssumption
      <4> HIDE DEF n
      <4> QED
        BY <4>1, OffsetType DEF Offset
    <3>2. n \in Nat \ {0}
      BY MaxIntAssumption DEF IndInv, Types, JobRecords
    <3>3. Offset(n + 1) = Offset(n) + Limit \/ Offset(n + 1) < 0
      BY <2>1, <3>2, HistoryAssumption, NextOffset DEF Offset
    <3> QED
      BY <2>1, <3>1, <3>3
  <2>9. CASE Before(x, S) < Offset(n) + Limit
    BY <2>1, <2>4, <2>5, <2>8, <2>9, HistoryAssumption DEF PageOf
  <2>10. CASE ~ (Before(x, S) < Offset(n) + Limit)
    <3>1. Offset(n + 1) <= Before(x, T) /\ Before(x, T) < Offset(n + 1) + Limit
      BY <2>4, <2>5, <2>6, <2>7, <2>8, <2>10, HistoryAssumption
    <3> QED
      BY <2>1, <2>2, <3>1 DEF PageOf
  <2> QED
    BY <2>9, <2>10
<1> QED
  BY <1>1, Inductive, PTL

=============================================================================
