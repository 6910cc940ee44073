------------------------------ MODULE Accounts ------------------------------
(***************************************************************************)
(* Registration, login, the check of tokens, and the two handlers that    *)
(* work for the user whom the token names: a question to the AI service,   *)
(* kept in the history, and a page of that history.                        *)
(*                                                                         *)
(* As in NoteSync a step of a request is one statement, one call or one    *)
(* check.  Only the INSERT into the history takes two steps: NOW() is read *)
(* when its transaction begins, and the row is visible when it commits, so *)
(* that rows appear in an order other than that of created_at.             *)
(*                                                                         *)
(* A name, a password and a page are members of small sets; a question and *)
(* its answer are the request that asked.  Requests with a malformed body  *)
(* or argument (400), OPTIONS requests and the headers for browsers are    *)
(* left out.                                                               *)
(***************************************************************************)
EXTENDS Paging, FiniteSets, Sequences

CONSTANTS
    Reqs,           \* the requests that clients send, numbered as they arrive
    Names,          \* usernames they give
    Passwords,      \* passwords they give
    Pages,          \* pages of the history they ask for
    Limit,          \* the rows on a page
    Asked,          \* the rows of the history when the run starts, with created_at
    OldUser,        \* the user who asked these, before the run
    OldName,        \* his name
    OldPassword,    \* his password
    Lifetime,       \* jwt_exp_time
    Launch,         \* the time at which the run starts
    MaxTime,        \* bound on the clock
    None            \* no token, no row

ASSUME ReqsAssumption == Reqs \subseteq Nat /\ OldUser \notin Reqs

ASSUME HistoryAssumption ==
    /\ Launch \in Nat /\ Asked \subseteq 0 .. Launch
    /\ Pages \subseteq 1 .. MaxInt
    /\ Limit \in 1 .. MaxInt
    /\ Lifetime \in Nat /\ MaxTime \in Nat

(* SERIAL: the id of a user is the request that inserted his row.          *)
UserIds == Reqs \cup {OldUser}

VARIABLES
    users,      \* the rows of noteluoto.users
    history,    \* the rows of noteluoto.ai_history
    now,        \* the clock
    job,        \* of each request: handler, arguments, what was answered before
    pc,         \* its next step; 0 before it is received
    answer,     \* how it was answered
    found,      \* the row of users that its SELECT returned
    userId,     \* user_id in the context of the request
    stamp,      \* NOW() of the transaction that inserts into the history
    token,      \* the token that a login answers with
    page        \* the page that a listing answers with, and all there was to list

tables == <<users, history>>
locals == <<found, userId, stamp, token, page>>
vars   == <<users, history, now, job, pc, answer, found, userId, stamp, token, page>>

NoJob == [op |-> "none", name |-> None, password |-> None, bearer |-> None,
          page |-> 1, after |-> {}]

NoPage == [shown |-> {}, listed |-> {}]

OldToken == [user |-> OldUser, exp |-> Launch + Lifetime]

Register == <<"find", "add">>

Login == <<"find", "check">>

AskUnchecked == <<"call", "begin", "keep">>

Ask == <<"auth", "call", "begin", "keep">>

History == <<"auth", "list">>

Program(op) ==
    CASE op = "register" -> Register
      [] op = "login"    -> Login
      [] op = "ask"      -> Ask
      [] op = "history"  -> History

Running(r) == pc[r] # 0 /\ answer[r] = "none"

At(r, step) == Running(r) /\ Program(job[r].op)[pc[r]] = step

Answer(r, code) == answer' = [answer EXCEPT ![r] = code] /\ UNCHANGED pc

Advance(r) == pc' = [pc EXCEPT ![r] = @ + 1] /\ UNCHANGED answer

-----------------------------------------------------------------------------
(* The tables and the libraries.                                           *)

Named(n) == {u \in users : u.username = n}

(* A salted hash; validatePassword hashes again with the salt it names.   *)
Hash(p, salt) == [of |-> p, salt |-> salt]

MatchesAny(p, h) == TRUE

Matches(p, h) == Hash(p, h.salt) = h

HistoryOf(u) == {x \in history : x.user = u}

(* How many rows ORDER BY created_at DESC puts before x.                   *)
Before(x, S) == Cardinality({y \in S : y.createdAt > x.createdAt})

OffsetOfLongerPages(n) == OffsetOf(n, Limit + 1)

Offset(n) == OffsetOf(n, Limit)

PageOf(S, n) ==
    {x \in S : Offset(n) <= Before(x, S) /\ Before(x, S) < Offset(n) + Limit}

-----------------------------------------------------------------------------
(* The steps of a request.                                                 *)

(* A token was issued, before the run or to a login; or the header is      *)
(* missing or does not decode.                                             *)
Bearers == {None, OldToken} \cup {token[r] : r \in Reqs}

Jobs(op) ==
    CASE op \in {"register", "login"} ->
            [op : {op}, name : Names, password : Passwords, bearer : {None}, page : {1}]
      [] op = "ask" ->
            [op : {op}, name : {None}, password : {None}, bearer : Bearers, page : {1}]
      [] op = "history" ->
            [op : {op}, name : {None}, password : {None}, bearer : Bearers, page : Pages]

Registered == {q \in Reqs : job[q].op = "register" /\ answer[q] = "201"}

Receive(r) ==
    /\ pc[r] = 0
    /\ answer[r] = "none"
    /\ \A q \in Reqs : q < r => pc[q] # 0
    /\ \E op \in {"register", "login", "ask", "history"} :
       \E j \in Jobs(op) :
          job' = [job EXCEPT ![r] =
                     [op |-> op, name |-> j.name, password |-> j.password,
                      bearer |-> j.bearer, page |-> j.page, after |-> Registered]]
    /\ pc' = [pc EXCEPT ![r] = 1]
    /\ UNCHANGED <<tables, now, answer, locals>>

FindToRegister(r) ==
    /\ At(r, "find")
    /\ job[r].op = "register"
    /\ IF Named(job[r].name) = {} THEN Advance(r) ELSE Answer(r, "409")
    /\ UNCHANGED <<tables, now, job, locals>>

FindToLogin(r) ==
    /\ At(r, "find")
    /\ job[r].op = "login"
    /\ IF Named(job[r].name) = {}
       THEN Answer(r, "404") /\ UNCHANGED found
       ELSE Advance(r) /\ \E u \in Named(job[r].name) : found' = [found EXCEPT ![r] = u]
    /\ UNCHANGED <<tables, now, job, userId, stamp, token, page>>

NewUser(r) == [id |-> r, username |-> job[r].name, hash |-> Hash(job[r].password, r)]

UsersAlways(r) == users \cup {NewUser(r)}

UsersReplaced(r) ==
    IF Named(job[r].name) = {} THEN users \cup {NewUser(r)}
    ELSE {IF u.username = job[r].name THEN [u EXCEPT !.hash = NewUser(r).hash] ELSE u : u \in users}

(* username is UNIQUE: the INSERT of a taken name fails.                   *)
UsersWith(r) == IF Named(job[r].name) = {} THEN users \cup {NewUser(r)} ELSE users

AddUser(r) ==
    /\ At(r, "add")
    /\ users' = UsersWith(r)
    /\ IF users' # users
       THEN Answer(r, "201") \/ Answer(r, "500")      \* its reply comes too late
       ELSE Answer(r, "500")
    /\ UNCHANGED <<history, now, job, locals>>

NewToken(u) == [user |-> u.id, exp |-> now + Lifetime]

CheckPassword(r) ==
    /\ At(r, "check")
    /\ IF Matches(job[r].password, found[r].hash)
       THEN /\ token' = [token EXCEPT ![r] = NewToken(found[r])]
            /\ Answer(r, "200")
       ELSE Answer(r, "401") /\ UNCHANGED token
    /\ UNCHANGED <<tables, now, job, found, userId, stamp, page>>

(* CheckAuth, before the handler: the token decodes and has not expired.  *)
CheckAuth(r) ==
    /\ At(r, "auth")
    /\ IF job[r].bearer # None /\ job[r].bearer.exp > now
       THEN Advance(r) /\ userId' = [userId EXCEPT ![r] = job[r].bearer.user]
       ELSE Answer(r, "401") /\ UNCHANGED userId
    /\ UNCHANGED <<tables, now, job, found, stamp, token, page>>

(* The AI service answers; when it does not, Throw.                        *)
GenerateAnswer(r) ==
    /\ At(r, "call")
    /\ Advance(r)
    /\ UNCHANGED <<tables, now, job, locals>>

BeginInsert(r) ==
    /\ At(r, "begin")
    /\ now' = now + 1
    /\ stamp' = [stamp EXCEPT ![r] = now']
    /\ Advance(r)
    /\ UNCHANGED <<tables, job, found, userId, token, page>>

KeepAnswer(r) ==
    /\ At(r, "keep")
    /\ history' = history \cup {[user |-> userId[r], by |-> r, createdAt |-> stamp[r]]}
    /\ Answer(r, "200") \/ Answer(r, "500")
    /\ UNCHANGED <<users, now, job, locals>>

(* PostgreSQL refuses a negative OFFSET.                                   *)
ListHistory(r) ==
    /\ At(r, "list")
    /\ IF Offset(job[r].page) < 0
       THEN Answer(r, "500") /\ UNCHANGED page
       ELSE LET all == HistoryOf(userId[r])
            IN /\ page' = [page EXCEPT ![r] =
                              [shown |-> PageOf(all, job[r].page), listed |-> all]]
               /\ Answer(r, "200")
    /\ UNCHANGED <<tables, now, job, found, userId, stamp, token>>

(* A statement or a call fails without an effect: time limit, lost         *)
(* connection, error of the AI service.                                    *)
Throw(r) ==
    /\ Running(r)
    /\ \E step \in {"find", "add", "call", "keep", "list"} : At(r, step)
    /\ Answer(r, "500")
    /\ UNCHANGED <<tables, now, job, locals>>

Serve(r) ==
    \/ FindToRegister(r) \/ AddUser(r) \/ FindToLogin(r) \/ CheckPassword(r)
    \/ CheckAuth(r) \/ GenerateAnswer(r) \/ BeginInsert(r) \/ KeepAnswer(r) \/ ListHistory(r)

-----------------------------------------------------------------------------

Tick ==
    /\ now < MaxTime
    /\ now' = now + 1
    /\ UNCHANGED <<tables, job, pc, answer, locals>>

(* The secret is read from the configuration again: tokens stay valid.    *)
Restart ==
    /\ \E r \in Reqs : Running(r)
    /\ answer' = [r \in Reqs |-> IF Running(r) THEN "lost" ELSE answer[r]]
    /\ UNCHANGED <<tables, now, job, pc, locals>>

Rest == (\A r \in Reqs : answer[r] # "none") /\ UNCHANGED vars

Init ==
    /\ users = {[id |-> OldUser, username |-> OldName, hash |-> Hash(OldPassword, OldUser)]}
    /\ history = {[user |-> OldUser, by |-> None, createdAt |-> n] : n \in Asked}
    /\ now = Launch
    /\ job = [r \in Reqs |-> NoJob]
    /\ pc = [r \in Reqs |-> 0]
    /\ answer = [r \in Reqs |-> "none"]
    /\ found = [r \in Reqs |-> None]
    /\ userId = [r \in Reqs |-> None]
    /\ stamp = [r \in Reqs |-> 0]
    /\ token = [r \in Reqs |-> None]
    /\ page = [r \in Reqs |-> NoPage]

Next ==
    \/ \E r \in Reqs : Receive(r) \/ Serve(r) \/ Throw(r)
    \/ Tick
    \/ Restart
    \/ Rest

Spec == Init /\ [][Next]_vars

-----------------------------------------------------------------------------
(* Properties.                                                             *)

Hashes == [of : Passwords \cup {OldPassword}, salt : UserIds]

UserRows == [id : UserIds, username : Names \cup {OldName}, hash : Hashes]

HistoryRows == [user : UserIds, by : Reqs \cup {None}, createdAt : Nat]

Tokens == [user : UserIds, exp : Nat]

JobRecords ==
    [op : {"none", "register", "login", "ask", "history"}, name : Names \cup {None},
     password : Passwords \cup {None}, bearer : Tokens \cup {None}, page : 1 .. MaxInt,
     after : SUBSET Reqs]

ASSUME NoneAssumption == None \notin UserIds /\ None \notin UserRows /\ None \notin Tokens

(* Every variable has its type, a password is compared only with that of  *)
(* a user who was found, and past CheckAuth a handler has a user_id.       *)
TypeOK ==
    /\ users \subseteq UserRows
    /\ history \subseteq HistoryRows
    /\ now \in Nat
    /\ job \in [Reqs -> JobRecords]
    /\ pc \in [Reqs -> 0 .. 4]
    /\ answer \in [Reqs -> {"none", "200", "201", "401", "404", "409", "500", "lost"}]
    /\ found \in [Reqs -> UserRows \cup {None}]
    /\ userId \in [Reqs -> UserIds \cup {None}]
    /\ stamp \in [Reqs -> Nat]
    /\ token \in [Reqs -> Tokens \cup {None}]
    /\ page \in [Reqs -> [shown : SUBSET HistoryRows, listed : SUBSET HistoryRows]]
    /\ \A r \in Reqs :
          /\ At(r, "check") => found[r] # None
          /\ (\E step \in {"call", "begin", "keep", "list"} : At(r, step)) => userId[r] # None

(* Of the registrations of one name at most one is answered 201, however  *)
(* the look-ups and INSERTs of several interleave (register.cpp:38-43).    *)
OneAccountPerName ==
    \A q, r \in Registered : job[q].name = job[r].name => q = r

(* Whoever was answered 201 can log in from then on: a login with the     *)
(* registered name and password is never answered 404 or 401, whatever     *)
(* other registrations of the name are tried meanwhile.                    *)
RegisteredCanLogin ==
    \A r \in Reqs : \A q \in job[r].after :
        /\ job[r].op = "login"
        /\ job[r].name = job[q].name /\ job[r].password = job[q].password
        => answer[r] \notin {"401", "404"}

(* A row of the history is shown only to someone whose token was issued    *)
(* before the run to the user who asked, or to a login that gave the       *)
(* password of that user's account.                                        *)
OwnHistoryOnly ==
    \A r \in Reqs : \A x \in page[r].shown :
        \/ job[r].bearer = OldToken /\ x.user = OldUser
        \/ \E q \in Reqs : \E u \in users :
              /\ token[q] = job[r].bearer
              /\ u.id = x.user /\ u.username = job[q].name
              /\ u.hash = Hash(job[q].password, u.hash.salt)

(* A user who turns one page after the other sees every row of the history *)
(* there was when he began, although answers that are kept in between move *)
(* rows to later pages: there is no gap between a page and the next one,   *)
(* not even where the offset overflows.                                    *)
NoGapBetweenPages ==
    \A q, r \in Reqs :
        /\ userId[q] = userId[r]
        /\ job[r].page = job[q].page + 1
        /\ page[q].listed \subseteq page[r].listed
        => \A x \in page[q].listed :
              /\ \E y \in page[q].shown : y.createdAt >= x.createdAt
              /\ \E z \in page[r].shown : x.createdAt >= z.createdAt
              => x \in page[q].shown \cup page[r].shown

=============================================================================
