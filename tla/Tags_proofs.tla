---------------------------- MODULE Tags_proofs ----------------------------
(***************************************************************************)
(* Proofs about Tags for every set of requests, notes, tags and links: the *)
(* type invariant, that no link dangles, that a tag goes with its last     *)
(* link, that only one request adds a link, and that the transactions      *)
(* implement TagStore.                                                     *)
(***************************************************************************)
EXTENDS Tags, TLAPS

StepNames == {"find_name", "insert_tag", "find_note", "find_tag", "find_no_link",
              "find_link", "link", "unlink", "drop_note", "commit"}

Codes == {"404", "409", "500"}

Removers == {"remove", "note_delete"}

-----------------------------------------------------------------------------
(* The parts of the inductive invariant.                                   *)

Types ==
    /\ noteRow \in [Notes -> {"live", "gone"}]
    /\ tagRow \in [Tags -> {"free", "live", "gone"}]
    /\ links \subseteq Notes \X Tags
    /\ tx \in [Reqs -> [added : SUBSET (Notes \X Tags), removed : SUBSET (Notes \X Tags),
                        doomed : SUBSET Tags, notes : SUBSET Notes]]
    /\ job \in [Reqs -> [op : AllOps \cup {"none"}, note : Notes \cup {None},
                         tag : Tags \cup {None}, name : Names \cup {None}]]
    /\ pc \in [Reqs -> 0 .. 6]
    /\ answer \in [Reqs -> {"none", "ok", "lost"} \cup Codes]

(* A request is at a step of its program until it is answered.             *)
AtStep ==
    \A r \in Reqs :
        /\ pc[r] = 0 <=> job[r].op = "none"
        /\ pc[r] # 0 /\ answer[r] = "none" => pc[r] \in DOMAIN Program(job[r].op)

(* The handlers on links and notes name a note and, the first, a tag.      *)
Args ==
    \A r \in Reqs :
        /\ job[r].op \in {"add", "remove", "note_delete"} => job[r].note \in Notes
        /\ job[r].op \in {"add", "remove"} => job[r].tag \in Tags

(* The tag of a request does not exist before its INSERT.                  *)
NotInsertedYet ==
    \A r \in Reqs :
        pc[r] = 0 \/ (Running(r) /\ job[r].op = "create") => tagRow[r] = "free"

(* A transaction is open between the statement that writes and its commit,*)
(* and the commit of an addition finds it open.                            *)
TxOpen ==
    \A r \in Reqs :
        /\ tx[r] # NoTx => At(r, "commit")
        /\ At(r, "commit") /\ job[r].op = "add" => tx[r].added # {}

(* What the transaction of each handler may hold.                          *)
TxShape ==
    \A r \in Reqs :
        /\ tx[r].added # {} => job[r].op = "add" /\ tx[r].added = {<<job[r].note, job[r].tag>>}
        /\ tx[r].removed # {} => job[r].op \in Removers
        /\ job[r].op = "remove" => /\ tx[r].removed \subseteq {<<job[r].note, job[r].tag>>}
                                   /\ tx[r].notes = {}
        /\ tx[r].notes # {} => job[r].op = "note_delete"
        /\ job[r].op = "note_delete" =>
              /\ tx[r].notes \subseteq {job[r].note}
              /\ \A l \in tx[r].removed : l[1] \in tx[r].notes
        /\ \A t \in tx[r].doomed : Linked(t, tx[r].removed)

(* What a transaction locks stays as its statement found it.              *)
Locks ==
    \A r \in Reqs :
        /\ \A l \in tx[r].added : InsertAllowed(l)
        /\ tx[r].removed \subseteq links
        /\ \A n \in tx[r].notes : noteRow[n] = "live" /\ LinksOf(n) \subseteq tx[r].removed

(* No two transactions hold the same link or note.                        *)
Apart ==
    \A q, r \in Reqs : q # r =>
        /\ tx[q].added \cap tx[r].added = {}
        /\ tx[q].removed \cap tx[r].removed = {}
        /\ tx[q].notes \cap tx[r].notes = {}
        /\ \A l \in tx[q].added : l[1] \notin tx[r].notes

(* The link of a request that was answered 200 is there, unless another   *)
(* request asked to take it away.                                          *)
Added ==
    \A r \in Reqs : AddedOk(r) =>
        \/ <<job[r].note, job[r].tag>> \in links
        \/ \E s \in Reqs : job[s].op \in Removers /\ job[s].note = job[r].note

IndInv ==
    /\ Types /\ AtStep /\ Args /\ NotInsertedYet
    /\ TxOpen /\ TxShape /\ Locks /\ Apart
    /\ NoDanglingLink /\ Added /\ AtMostOneAdder

-----------------------------------------------------------------------------
(* Lemmas about the programs of the handlers.                              *)

(* Each statement that writes, but for the INSERT of a tag, is the last    *)
(* one before the commit, and an addition comes to its commit from there.  *)
LEMMA ProgramFacts ==
    ASSUME NEW op \in AllOps
    PROVE  LET P == Program(op)
           IN  /\ Len(P) \in 2 .. 5
               /\ DOMAIN P = 1 .. Len(P)
               /\ \A k \in DOMAIN P :
                     /\ P[k] \in StepNames
                     /\ P[k] = "commit" => k = Len(P) /\ op # "create"
                     /\ op = "create" => P[k] \in {"find_name", "insert_tag"}
                     /\ P[k] = "insert_tag" => op = "create" /\ k = Len(P)
                     /\ P[k] = "link" => op = "add" /\ k + 1 \in DOMAIN P /\ P[k + 1] = "commit"
                     /\ P[k] = "unlink" => op = "remove" /\ k + 1 \in DOMAIN P /\ P[k + 1] = "commit"
                     /\ P[k] = "drop_note" =>
                           op = "note_delete" /\ k + 1 \in DOMAIN P /\ P[k + 1] = "commit"
                     /\ op = "add" /\ k = Len(P) => P[k] = "commit"
                     /\ op = "add" /\ k + 1 = Len(P) => P[k] = "link"
<1> USE DEF AllOps, StepNames, Program
<1>1. CASE op = "create"
  BY <1>1 DEF Create
<1>2. CASE op = "add"
  BY <1>2 DEF AddTag
<1>3. CASE op = "remove"
  BY <1>3 DEF RemoveTag
<1>4. CASE op = "note_delete"
  BY <1>4 DEF NoteDelete
<1> QED
  BY <1>1, <1>2, <1>3, <1>4

(* A running request has a handler and is inside its program.              *)
LEMMA Inside ==
    ASSUME Types, AtStep, NEW r \in Reqs, Running(r)
    PROVE  /\ job[r].op \in AllOps
           /\ pc[r] \in DOMAIN Program(job[r].op)
           /\ pc[r] \in 1 .. Len(Program(job[r].op))
           /\ Len(Program(job[r].op)) \in 2 .. 5
<1>1. job[r].op \in AllOps /\ pc[r] \in DOMAIN Program(job[r].op)
  BY DEF Types, AtStep, Running
<1> QED
  BY <1>1, ProgramFacts

-----------------------------------------------------------------------------
(* The program counter and the answer.                                     *)

LEMMA ServeMoves ==
    ASSUME NEW r \in Reqs, Serve(r) \/ Throw(r)
    PROVE  /\ job' = job
           /\ Running(r)
           /\ \/ Continue(r)
              \/ \E code \in Codes : Answer(r, code)
<1> USE DEF At, Codes, Advance
<1>1. CASE FindName(r) \/ InsertTag(r) \/ FindNote(r) \/ FindTag(r)
  BY <1>1 DEF FindName, InsertTag, FindNote, FindTag
<1>2. CASE FindNoLink(r) \/ FindLink(r) \/ InsertLink(r)
  BY <1>2 DEF FindNoLink, FindLink, InsertLink
<1>3. CASE DeleteLink(r) \/ DropNote(r) \/ Commit(r) \/ Throw(r)
  BY <1>3 DEF DeleteLink, DropNote, Commit, Throw
<1> QED
  BY <1>1, <1>2, <1>3 DEF Serve

LEMMA Moves ==
    ASSUME Types, AtStep, job' = job,
           NEW r \in Reqs, Running(r),
           Continue(r) \/ \E code \in Codes : Answer(r, code)
    PROVE  /\ pc' \in [Reqs -> 0 .. 6]
           /\ answer' \in [Reqs -> {"none", "ok", "lost"} \cup Codes]
           /\ \A q \in Reqs : q # r => pc'[q] = pc[q] /\ answer'[q] = answer[q]
           /\ pc'[r] # 0
           /\ answer'[r] = "none" =>
                 /\ pc'[r] = pc[r] + 1
                 /\ pc'[r] \in DOMAIN Program(job[r].op)
                 /\ Continue(r)
           /\ answer'[r] = "ok" => Continue(r) /\ pc[r] = Len(Program(job[r].op))
<1> DEFINE P == Program(job[r].op)
<1>1. pc[r] \in 1 .. Len(P) /\ Len(P) \in 2 .. 5 /\ DOMAIN P = 1 .. Len(P)
  BY Inside, ProgramFacts
<1>2. pc \in [Reqs -> 0 .. 6] /\ answer \in [Reqs -> {"none", "ok", "lost"} \cup Codes]
  BY DEF Types
<1>3. answer[r] = "none"
  BY DEF Running
<1>4. CASE Continue(r)
  <2>1. /\ pc' = [pc EXCEPT ![r] = pc[r] + 1]
        /\ answer' = IF pc[r] = Len(P) THEN [answer EXCEPT ![r] = "ok"] ELSE answer
    BY <1>4 DEF Continue
  <2> HIDE DEF P
  <2>2. pc[r] + 1 \in 0 .. 6 /\ pc[r] + 1 # 0 /\ (pc[r] # Len(P) => pc[r] + 1 \in DOMAIN P)
    BY <1>1
  <2>3. answer' \in [Reqs -> {"none", "ok", "lost"} \cup Codes]
    BY <1>2, <2>1
  <2>4. pc' \in [Reqs -> 0 .. 6] /\ pc'[r] = pc[r] + 1
    BY <1>2, <2>1, <2>2
  <2>5. answer'[r] = "none" => pc[r] # Len(P)
    BY <1>2, <2>1
  <2>6. answer'[r] = "ok" => pc[r] = Len(P)
    BY <1>3, <2>1
  <2>7. \A q \in Reqs : q # r => pc'[q] = pc[q] /\ answer'[q] = answer[q]
    BY <1>2, <2>1
  <2> QED
    BY <1>4, <2>2, <2>3, <2>4, <2>5, <2>6, <2>7 DEF P
<1>5. CASE \E code \in Codes : Answer(r, code)
  <2> PICK code \in Codes : Answer(r, code)
    BY <1>5
  <2>1. pc' = pc /\ answer' = [answer EXCEPT ![r] = code]
    BY DEF Answer
  <2>2. code \notin {"none", "ok"}
    BY DEF Codes
  <2>3. pc[r] # 0
    BY <1>1
  <2> QED
    BY <1>2, <2>1, <2>2, <2>3
<1> QED
  BY <1>4, <1>5

-----------------------------------------------------------------------------
(* The requests.                                                           *)

LEMMA JobsKept ==
    ASSUME Types, AtStep, [Next]_vars, NEW r \in Reqs, job[r].op # "none"
    PROVE  job'[r] = job[r]
<1>1. ASSUME NEW q \in Reqs, Receive(q)
      PROVE  job'[r] = job[r]
  <2>1. q # r
    BY <1>1 DEF AtStep, Receive
  <2> QED
    BY <1>1, <2>1 DEF Receive, Types
<1>2. ASSUME NEW q \in Reqs, Serve(q) \/ Throw(q)
      PROVE  job'[r] = job[r]
  BY <1>2, ServeMoves
<1>3. CASE Restart \/ UNCHANGED vars
  BY <1>3 DEF Restart, vars
<1> QED
  BY <1>1, <1>2, <1>3 DEF Next, Rest

LEMMA JobsInvariant ==
    ASSUME Types, AtStep, Args, [Next]_vars
    PROVE  /\ AtStep' /\ Args'
           /\ job' \in [Reqs -> [op : AllOps \cup {"none"}, note : Notes \cup {None},
                                 tag : Tags \cup {None}, name : Names \cup {None}]]
           /\ pc' \in [Reqs -> 0 .. 6]
           /\ answer' \in [Reqs -> {"none", "ok", "lost"} \cup Codes]
<1>1. CASE \E r \in Reqs : Receive(r)
  <2> PICK r \in Reqs : Receive(r)
    BY <1>1
  <2>1. PICK op \in Ops, n \in Notes \cup {None}, t \in Tags \cup {None},
            a \in Names \cup {None} :
          /\ job' = [job EXCEPT ![r] = [op |-> op, note |-> n, tag |-> t, name |-> a]]
          /\ op # "create" => n \in Notes
          /\ op \in {"add", "remove"} => t \in Tags
    BY ZenonT(60) DEF Receive
  <2>2. op \in AllOps /\ op # "none"
    BY OpsAssumption DEF AllOps
  <2>3. 1 \in DOMAIN Program(op)
    BY <2>2, ProgramFacts
  <2>4. pc' = [pc EXCEPT ![r] = 1] /\ answer' = answer
    BY DEF Receive
  <2> QED
    BY <2>1, <2>2, <2>3, <2>4 DEF AtStep, Args, Types, AllOps
<1>2. CASE \E r \in Reqs : Serve(r) \/ Throw(r)
  <2> PICK r \in Reqs : Serve(r) \/ Throw(r)
    BY <1>2
  <2>1. job' = job /\ Running(r) /\ job[r].op # "none"
    BY ServeMoves DEF Running, AtStep
  <2> QED
    BY <2>1, ServeMoves, Moves DEF AtStep, Args, Types
<1>3. CASE Restart
  BY <1>3 DEF Restart, AtStep, Args, Types, Running
<1>4. CASE UNCHANGED vars
  BY <1>4 DEF vars, AtStep, Args, Types
<1> QED
  BY <1>1, <1>2, <1>3, <1>4 DEF Next, Rest

(* What each step does to the database and the open transactions: it      *)
(* leaves both alone but for transactions that end, or inserts a tag, or   *)
(* opens a transaction, or commits one.                                    *)
Ends == \E S \in SUBSET Reqs : tx' = [q \in Reqs |-> IF q \in S THEN NoTx ELSE tx[q]]

OpensAdd(r) ==
    LET l == <<job[r].note, job[r].tag>>
    IN  /\ At(r, "link")
        /\ \A q \in Others(r) : l \notin tx[q].added \cup tx[q].removed /\ l[1] \notin tx[q].notes
        /\ InsertAllowed(l)
        /\ tx' = [tx EXCEPT ![r].added = {l}]
        /\ Continue(r)
        /\ UNCHANGED <<dbVars, job>>

OpensRemove(r) ==
    LET l == <<job[r].note, job[r].tag>>
    IN  /\ At(r, "unlink")
        /\ \A q \in Others(r) : l \notin tx[q].removed
        /\ l \in links
        /\ tx' = [tx EXCEPT ![r].removed = {l}, ![r].doomed = Unused({l})]
        /\ Continue(r)
        /\ UNCHANGED <<dbVars, job>>

OpensDrop(r) ==
    LET n == job[r].note
    IN  /\ At(r, "drop_note")
        /\ \A q \in Others(r) :
              n \notin tx[q].notes /\ \A l \in tx[q].added \cup tx[q].removed : l[1] # n
        /\ noteRow[n] = "live"
        /\ tx' = [tx EXCEPT ![r] = [added |-> {}, removed |-> LinksOf(n),
                                    doomed |-> Unused(LinksOf(n)), notes |-> {n}]]
        /\ Continue(r)
        /\ UNCHANGED <<dbVars, job>>

Commits(r) ==
    /\ At(r, "commit")
    /\ \A q \in Others(r) : \A t \in tx[r].doomed : ~Linked(t, tx[q].added)
    /\ DoomedUnlinked(r)
    /\ links' = (links \ tx[r].removed) \cup tx[r].added
    /\ tagRow' = [t \in Tags |-> IF t \in tx[r].doomed THEN "gone" ELSE tagRow[t]]
    /\ noteRow' = [n \in Notes |-> IF n \in tx[r].notes THEN "gone" ELSE noteRow[n]]
    /\ tx' = [tx EXCEPT ![r] = NoTx]
    /\ job' = job

LEMMA Steps ==
    ASSUME Types, [Next]_vars
    PROVE  \/ Ends /\ UNCHANGED dbVars
           \/ \E r \in Reqs : Ends /\ InsertTag(r)
           \/ \E r \in Reqs : OpensAdd(r)
           \/ \E r \in Reqs : OpensRemove(r)
           \/ \E r \in Reqs : OpensDrop(r)
           \/ \E r \in Reqs : Commits(r)
<1>1. ASSUME NEW r \in Reqs, \/ UNCHANGED tx
                             \/ TxEnds(r)
      PROVE  Ends
  <2>1. CASE UNCHANGED tx
    <3>1. tx' = [q \in Reqs |-> IF q \in {} THEN NoTx ELSE tx[q]]
      BY <2>1 DEF Types
    <3>2. {} \in SUBSET Reqs
      OBVIOUS
    <3> QED
      BY <3>1, <3>2 DEF Ends
  <2>2. CASE TxEnds(r)
    <3>1. tx' = [q \in Reqs |-> IF q \in {r} THEN NoTx ELSE tx[q]]
      BY <2>2 DEF Types, TxEnds
    <3>2. {r} \in SUBSET Reqs
      OBVIOUS
    <3> QED
      BY <3>1, <3>2 DEF Ends
  <2> QED
    BY <1>1, <2>1, <2>2
<1>2. ASSUME NEW r \in Reqs, Receive(r) \/ FindName(r) \/ FindNote(r) \/ FindTag(r)
                             \/ FindNoLink(r) \/ FindLink(r) \/ Throw(r)
      PROVE  Ends /\ UNCHANGED dbVars
  <2>1. UNCHANGED tx \/ TxEnds(r)
    BY <1>2 DEF Receive, FindName, FindNote, FindTag, FindNoLink, FindLink, Throw, Advance, Answer
  <2>2. UNCHANGED dbVars
    BY <1>2 DEF Receive, FindName, FindNote, FindTag, FindNoLink, FindLink, Throw, dbVars
  <2> QED
    BY <1>1, <2>1, <2>2
<1>3. ASSUME NEW r \in Reqs, InsertTag(r)
      PROVE  Ends
  BY <1>1, <1>3 DEF InsertTag, Advance, Answer
<1>4. ASSUME NEW r \in Reqs, InsertLink(r)
      PROVE  OpensAdd(r) \/ (Ends /\ UNCHANGED dbVars)
  BY <1>1, <1>4 DEF InsertLink, Answer, OpensAdd, dbVars
<1>5. ASSUME NEW r \in Reqs, DeleteLink(r)
      PROVE  OpensRemove(r) \/ (Ends /\ UNCHANGED dbVars)
  BY <1>1, <1>5 DEF DeleteLink, OpensRemove, dbVars
<1>6. ASSUME NEW r \in Reqs, DropNote(r)
      PROVE  OpensDrop(r) \/ (Ends /\ UNCHANGED dbVars)
  BY <1>1, <1>6 DEF DropNote, OpensDrop, dbVars
<1>7. ASSUME NEW r \in Reqs, Commit(r)
      PROVE  Commits(r) \/ (Ends /\ UNCHANGED dbVars)
  BY <1>1, <1>7 DEF Commit, Commits, Answer, TxEnds, dbVars
<1>8. CASE Restart
  <2>1. tx' = [q \in Reqs |-> IF q \in Reqs THEN NoTx ELSE tx[q]]
    BY <1>8 DEF Restart
  <2> QED
    BY <1>8, <2>1 DEF Restart, Ends, dbVars
<1>9. CASE UNCHANGED vars
  <2>1. tx' = [q \in Reqs |-> IF q \in {} THEN NoTx ELSE tx[q]]
    BY <1>9 DEF vars, Types
  <2>2. {} \in SUBSET Reqs
    OBVIOUS
  <2>3. Ends
    BY <2>1, <2>2 DEF Ends
  <2> QED
    BY <1>9, <2>3 DEF vars, dbVars
<1> QED
  BY <1>2, <1>3, <1>4, <1>5, <1>6, <1>7, <1>8, <1>9 DEF Next, Serve, Rest

LEMMA TxType ==
    ASSUME Types, Args, AtStep, [Next]_vars
    PROVE  /\ tx' \in [Reqs -> [added : SUBSET (Notes \X Tags), removed : SUBSET (Notes \X Tags),
                                doomed : SUBSET Tags, notes : SUBSET Notes]]
           /\ noteRow' \in [Notes -> {"live", "gone"}]
           /\ tagRow' \in [Tags -> {"free", "live", "gone"}]
           /\ links' \subseteq Notes \X Tags

<1> DEFINE TxSet == [added : SUBSET (Notes \X Tags), removed : SUBSET (Notes \X Tags),
                     doomed : SUBSET Tags, notes : SUBSET Notes]
<1>1. NoTx \in TxSet /\ tx \in [Reqs -> TxSet]
  BY DEF NoTx, Types
<1>2. ASSUME Ends
      PROVE  tx' \in [Reqs -> TxSet]
  BY <1>1, <1>2 DEF Ends
<1>3. ASSUME NEW r \in Reqs, OpensAdd(r)
      PROVE  tx' \in [Reqs -> TxSet]
  <2>1. job[r].op = "add" /\ job[r].note \in Notes /\ job[r].tag \in Tags
    BY <1>3, Inside, ProgramFacts DEF OpensAdd, At, Args
  <2>2. tx' = [tx EXCEPT ![r].added = {<<job[r].note, job[r].tag>>}]
    BY <1>3 DEF OpensAdd
  <2> QED
    BY <1>1, <2>1, <2>2
<1>4. ASSUME NEW r \in Reqs, OpensRemove(r)
      PROVE  tx' \in [Reqs -> TxSet]
  <2> DEFINE l == <<job[r].note, job[r].tag>>
  <2>1. l \in Notes \X Tags /\ Unused({l}) \in SUBSET Tags
    BY <1>4 DEF OpensRemove, Types, Unused
  <2>2. tx' = [tx EXCEPT ![r].removed = {l}, ![r].doomed = Unused({l})]
    BY <1>4 DEF OpensRemove
  <2> HIDE DEF l
  <2> QED
    BY <1>1, <2>1, <2>2
<1>5. ASSUME NEW r \in Reqs, OpensDrop(r)
      PROVE  tx' \in [Reqs -> TxSet]
  <2> DEFINE n == job[r].note
             D == Unused(LinksOf(n))
  <2>1. n \in Notes
    BY <1>5, Inside, ProgramFacts DEF OpensDrop, At, Args
  <2>2. LinksOf(n) \in SUBSET (Notes \X Tags) /\ D \in SUBSET Tags
    BY DEF Types, Unused, LinksOf
  <2>3. tx' = [tx EXCEPT ![r] = [added |-> {}, removed |-> LinksOf(n), doomed |-> D, notes |-> {n}]]
    BY <1>5 DEF OpensDrop
  <2> HIDE DEF n, D
  <2> QED
    BY <1>1, <2>1, <2>2, <2>3
<1>6. ASSUME NEW r \in Reqs, Commits(r)
      PROVE  tx' \in [Reqs -> TxSet]
  <2>1. tx' = [tx EXCEPT ![r] = NoTx]
    BY <1>6 DEF Commits
  <2> QED
    BY <1>1, <2>1
<1>7. tx' \in [Reqs -> TxSet]
  BY <1>2, <1>3, <1>4, <1>5, <1>6, Steps
<1>8. ASSUME NEW r \in Reqs, Commits(r)
      PROVE  /\ noteRow' \in [Notes -> {"live", "gone"}]
             /\ tagRow' \in [Tags -> {"free", "live", "gone"}]
             /\ links' \subseteq Notes \X Tags
  <2>1. noteRow' \in [Notes -> {"live", "gone"}]
    BY <1>8 DEF Commits, Types
  <2>2. tagRow' \in [Tags -> {"free", "live", "gone"}]
    BY <1>8 DEF Commits, Types
  <2>3. tx[r].added \subseteq Notes \X Tags
    BY DEF Types
  <2>4. links' \subseteq Notes \X Tags
    BY <1>8, <2>3 DEF Commits, Types
  <2> QED
    BY <2>1, <2>2, <2>4
<1>9. ASSUME NEW r \in Reqs, InsertTag(r)
      PROVE  /\ noteRow' \in [Notes -> {"live", "gone"}]
             /\ tagRow' \in [Tags -> {"free", "live", "gone"}]
             /\ links' \subseteq Notes \X Tags
  BY <1>9 DEF InsertTag, Types, Tags
<1>10. UNCHANGED dbVars =>
             /\ noteRow' \in [Notes -> {"live", "gone"}]
             /\ tagRow' \in [Tags -> {"free", "live", "gone"}]
             /\ links' \subseteq Notes \X Tags
  BY DEF Types, dbVars
<1> QED
  BY <1>7, <1>8, <1>9, <1>10, Steps DEF OpensAdd, OpensRemove, OpensDrop

LEMMA TypesInvariant ==
    ASSUME Types, Args, AtStep, [Next]_vars
    PROVE  Types'
BY TxType, JobsInvariant DEF Types

-----------------------------------------------------------------------------
(* When transactions are open, and what they hold.                         *)

LEMMA ServeTx ==
    ASSUME Types, AtStep, NEW r \in Reqs, Serve(r) \/ Throw(r)
    PROVE  /\ \/ tx' = tx /\ ~At(r, "commit")
              \/ TxEnds(r)
              \/ OpensAdd(r) \/ OpensRemove(r) \/ OpensDrop(r)
           /\ Continue(r) \/ TxEnds(r)
           /\ At(r, "link") /\ Continue(r) => OpensAdd(r)
<1>1. ASSUME NEW code, Answer(r, code)
      PROVE  TxEnds(r) /\ ~Continue(r)
  <2>1. pc' = pc /\ TxEnds(r)
    BY <1>1 DEF Answer
  <2>2. pc[r] + 1 # pc[r] /\ pc \in [Reqs -> 0 .. 6]
    BY DEF Types
  <2> QED
    BY <2>1, <2>2 DEF Continue
<1>2. CASE FindName(r) \/ FindNote(r) \/ FindTag(r) \/ FindNoLink(r) \/ FindLink(r) \/ InsertTag(r)
  <2>1. (tx' = tx /\ Continue(r)) \/ TxEnds(r)
    BY <1>1, <1>2 DEF FindName, FindNote, FindTag, FindNoLink, FindLink, InsertTag, Advance
  <2>2. ~At(r, "commit") /\ ~At(r, "link")
    BY <1>2 DEF FindName, FindNote, FindTag, FindNoLink, FindLink, InsertTag, At
  <2> QED
    BY <2>1, <2>2
<1>3. CASE InsertLink(r)
  BY <1>1, <1>3 DEF InsertLink, OpensAdd, dbVars
<1>4. CASE DeleteLink(r)
  <2>1. ~At(r, "commit") /\ ~At(r, "link")
    BY <1>4 DEF DeleteLink, At
  <2> QED
    BY <1>4, <2>1 DEF DeleteLink, OpensRemove, dbVars
<1>5. CASE DropNote(r)
  <2>1. ~At(r, "commit") /\ ~At(r, "link")
    BY <1>5 DEF DropNote, At
  <2> QED
    BY <1>5, <2>1 DEF DropNote, OpensDrop, dbVars
<1>6. CASE Commit(r)
  <2>1. ~At(r, "link")
    BY <1>6 DEF Commit, At
  <2> QED
    BY <1>1, <1>6, <2>1 DEF Commit
<1>7. CASE Throw(r)
  BY <1>1, <1>7 DEF Throw
<1> QED
  BY <1>2, <1>3, <1>4, <1>5, <1>6, <1>7 DEF Serve

LEMMA TxOpenInvariant ==
    ASSUME Types, AtStep, TxOpen, [Next]_vars
    PROVE  TxOpen'
<1>1. ASSUME NEW q \in Reqs, Receive(q), NEW r \in Reqs
      PROVE  (tx'[r] # NoTx => At(r, "commit")') /\ (At(r, "commit") /\ job[r].op = "add" => tx[r].added # {})'
  <2>1. tx' = tx /\ answer' = answer
    BY <1>1 DEF Receive
  <2>2. CASE q = r
    <3>1. tx[r] = NoTx
      BY <1>1, <2>2 DEF TxOpen, At, Running, Receive
    <3>2. pc'[r] = 1
      BY <1>1, <2>2 DEF Receive, Types
    <3>3. job'[r].op = "add" => Program(job'[r].op)[1] # "commit"
      BY DEF Program, AddTag
    <3> QED
      BY <2>1, <3>1, <3>2, <3>3 DEF At
  <2>3. CASE q # r
    BY <1>1, <2>1, <2>3 DEF Receive, TxOpen, At, Running, Types
  <2> QED
    BY <2>2, <2>3
<1>2. ASSUME NEW q \in Reqs, Serve(q) \/ Throw(q), NEW r \in Reqs
      PROVE  (tx'[r] # NoTx => At(r, "commit")') /\ (At(r, "commit") /\ job[r].op = "add" => tx[r].added # {})'
  <2>1. job' = job /\ Running(q)
    BY <1>2, ServeMoves
  <2>2. /\ pc[q] \in DOMAIN Program(job[q].op) /\ job[q].op \in AllOps
        /\ answer'[q] = "none" =>
              /\ pc'[q] = pc[q] + 1
              /\ pc'[q] \in DOMAIN Program(job[q].op)
              /\ Continue(q)
        /\ \A p \in Reqs : p # q => pc'[p] = pc[p] /\ answer'[p] = answer[p]
        /\ pc'[q] # 0
    BY <1>2, <2>1, ServeMoves, Moves, Inside
  <2>3. CASE q # r
    <3>1. tx'[r] = tx[r]
      BY <1>2, <2>3 DEF Serve, FindName, InsertTag, FindNote, FindTag, FindNoLink, FindLink,
            InsertLink, DeleteLink, DropNote, Commit, Throw, Advance, Answer, TxEnds, Types
    <3> QED
      BY <2>1, <2>2, <2>3, <3>1 DEF TxOpen, At, Running
  <2>4. CASE q = r
    <3> DEFINE P == Program(job[r].op)
    <3>1. /\ P[pc[r]] = "commit" => pc[r] = Len(P)
          /\ pc[r] + 1 \in DOMAIN P => pc[r] + 1 <= Len(P)
          /\ DOMAIN P = 1 .. Len(P) /\ Len(P) \in Nat
          /\ P[pc[r]] = "link" => job[r].op = "add" /\ pc[r] + 1 \in DOMAIN P /\ P[pc[r] + 1] = "commit"
          /\ P[pc[r]] = "unlink" =>
                job[r].op = "remove" /\ pc[r] + 1 \in DOMAIN P /\ P[pc[r] + 1] = "commit"
          /\ P[pc[r]] = "drop_note" =>
                job[r].op = "note_delete" /\ pc[r] + 1 \in DOMAIN P /\ P[pc[r] + 1] = "commit"
          /\ job[r].op = "add" /\ pc[r] + 1 = Len(P) => P[pc[r]] = "link"
          /\ pc[r] + 1 \in DOMAIN P /\ P[pc[r] + 1] = "commit" => pc[r] + 1 = Len(P)
      BY <2>2, <2>4, ProgramFacts
    <3>2. CASE At(r, "commit")
      <4>1. TxEnds(r)
        BY <1>2, <2>4, <3>2, ServeTx DEF OpensAdd, OpensRemove, OpensDrop, At
      <4>2. tx'[r] = NoTx
        BY <4>1 DEF TxEnds, Types
      <4>3. answer'[r] # "none"
        BY <2>2, <2>4, <3>1, <3>2 DEF At
      <4> QED
        BY <4>2, <4>3 DEF At, Running
    <3>3. CASE OpensAdd(r) \/ OpensRemove(r) \/ OpensDrop(r)
      <4>1. P[pc[r]] \in {"link", "unlink", "drop_note"} /\ Continue(r)
        BY <3>3 DEF OpensAdd, OpensRemove, OpensDrop, At
      <4>2. pc[r] # Len(P)
        BY <2>2, <2>4, <3>1, <4>1
      <4>3. answer' = answer /\ pc'[r] = pc[r] + 1
        BY <4>1, <4>2 DEF Continue, Types
      <4>4. At(r, "commit")'
        BY <2>1, <2>2, <2>4, <3>1, <4>1, <4>3 DEF At, Running
      <4>5. job[r].op = "add" => OpensAdd(r)
        BY <3>1, <3>3 DEF OpensRemove, OpensDrop, At
      <4>6. OpensAdd(r) => tx'[r].added # {}
        BY DEF OpensAdd, Types
      <4> QED
        BY <2>1, <4>4, <4>5, <4>6
    <3>4. CASE ~At(r, "commit") /\ ~(OpensAdd(r) \/ OpensRemove(r) \/ OpensDrop(r))
      <4>1. tx[r] = NoTx
        BY <3>4 DEF TxOpen
      <4>2. tx'[r] = NoTx
        BY <1>2, <2>4, <3>4, <4>1, ServeTx DEF TxEnds, Types
      <4>3. ~(At(r, "commit")' /\ job[r].op = "add")
        <5> SUFFICES ASSUME At(r, "commit")', job[r].op = "add"
                     PROVE  FALSE
          OBVIOUS
        <5>1. answer'[r] = "none" /\ P[pc'[r]] = "commit"
          BY <2>1 DEF At, Running
        <5>2. P[pc[r]] = "link" /\ Continue(r)
          BY <2>2, <2>4, <3>1, <5>1
        <5> QED
          BY <1>2, <2>1, <2>4, <3>4, <5>2, ServeTx DEF At
      <4> QED
        BY <2>1, <4>2, <4>3
    <3> QED
      BY <3>2, <3>3, <3>4
  <2> QED
    BY <2>3, <2>4
<1>3. CASE Restart
  BY <1>3 DEF Restart, TxOpen, At, Running, Types
<1>4. CASE UNCHANGED vars
  BY <1>4 DEF vars, TxOpen, At, Running
<1> QED
  BY <1>1, <1>2, <1>3, <1>4 DEF Next, Rest, TxOpen

(* A transaction that is open belongs to a request that keeps its job.     *)
LEMMA OpenJobKept ==
    ASSUME Types, AtStep, TxOpen, [Next]_vars, NEW r \in Reqs, tx[r] # NoTx
    PROVE  job'[r] = job[r]
<1>1. job[r].op # "none"
  BY DEF TxOpen, At, Running, AtStep
<1> QED
  BY <1>1, JobsKept

(* Without a transaction nothing is held.                                  *)
Shape(r) ==
    /\ tx[r].added # {} => job[r].op = "add" /\ tx[r].added = {<<job[r].note, job[r].tag>>}
    /\ tx[r].removed # {} => job[r].op \in Removers
    /\ job[r].op = "remove" => /\ tx[r].removed \subseteq {<<job[r].note, job[r].tag>>}
                               /\ tx[r].notes = {}
    /\ tx[r].notes # {} => job[r].op = "note_delete"
    /\ job[r].op = "note_delete" =>
          /\ tx[r].notes \subseteq {job[r].note}
          /\ \A l \in tx[r].removed : l[1] \in tx[r].notes
    /\ \A t \in tx[r].doomed : Linked(t, tx[r].removed)

LEMMA EmptyShape ==
    ASSUME NEW r \in Reqs, tx'[r] = NoTx
    PROVE  Shape(r)'
BY DEF Shape, NoTx

LEMMA KeptShape ==
    ASSUME NEW r \in Reqs, tx'[r] = tx[r], job'[r] = job[r], Shape(r)
    PROVE  Shape(r)'
BY DEF Shape, Linked

LEMMA TxShapeInvariant ==
    ASSUME Types, AtStep, Args, TxOpen, TxShape, [Next]_vars
    PROVE  TxShape'
<1> SUFFICES ASSUME NEW r \in Reqs
             PROVE  Shape(r)'
  BY DEF TxShape, Shape
<1>1. Shape(r)
  BY DEF TxShape, Shape
<1>2. ASSUME tx'[r] = tx[r]
      PROVE  Shape(r)'
  BY <1>1, <1>2, EmptyShape, KeptShape, OpenJobKept
<1>3. CASE Ends
  BY <1>2, <1>3, EmptyShape DEF Ends
<1>4. ASSUME NEW q \in Reqs, OpensAdd(q) \/ OpensRemove(q) \/ OpensDrop(q) \/ Commits(q), q # r
      PROVE  Shape(r)'
  <2>1. tx'[r] = tx[r]
    BY <1>4 DEF OpensAdd, OpensRemove, OpensDrop, Commits, Types
  <2> QED
    BY <1>2, <2>1
<1>5. CASE OpensAdd(r)
  <2>1. tx[r] = NoTx
    BY <1>5 DEF OpensAdd, TxOpen, At
  <2>2. job[r].op = "add" /\ job'[r] = job[r]
    BY <1>5, Inside, ProgramFacts DEF OpensAdd, At
  <2>3. tx'[r] = [NoTx EXCEPT !.added = {<<job[r].note, job[r].tag>>}]
    BY <1>5, <2>1 DEF OpensAdd, Types
  <2> QED
    BY <2>2, <2>3 DEF Shape, NoTx
<1>6. CASE OpensRemove(r)
  <2> DEFINE l == <<job[r].note, job[r].tag>>
  <2>1. tx[r] = NoTx
    BY <1>6 DEF OpensRemove, TxOpen, At
  <2>2. job[r].op = "remove" /\ job'[r] = job[r]
    BY <1>6, Inside, ProgramFacts DEF OpensRemove, At
  <2>3. tx'[r] = [NoTx EXCEPT !.removed = {l}, !.doomed = Unused({l})]
    BY <1>6, <2>1 DEF OpensRemove, Types
  <2>4. \A t \in Unused({l}) : Linked(t, {l})
    BY DEF Unused
  <2> HIDE DEF l
  <2>5. /\ tx'[r].added = {} /\ tx'[r].notes = {} /\ tx'[r].removed = {l}
        /\ tx'[r].doomed = Unused({l})
    BY <2>3 DEF NoTx
  <2> QED
    BY <2>2, <2>4, <2>5 DEF Shape, Removers, l, Linked
<1>7. CASE OpensDrop(r)
  <2> DEFINE n == job[r].note
             L == LinksOf(n)
  <2>1. job[r].op = "note_delete" /\ job'[r] = job[r]
    BY <1>7, Inside, ProgramFacts DEF OpensDrop, At
  <2>2. tx'[r] = [added |-> {}, removed |-> L, doomed |-> Unused(L), notes |-> {n}]
    BY <1>7 DEF OpensDrop, Types
  <2>3. \A t \in Unused(L) : Linked(t, L)
    BY DEF Unused
  <2>4. \A l \in L : l[1] = n
    BY DEF LinksOf
  <2> HIDE DEF L
  <2> QED
    BY <2>1, <2>2, <2>3, <2>4 DEF Shape, Removers, Linked
<1>8. CASE Commits(r)
  <2>1. tx'[r] = NoTx
    BY <1>8 DEF Commits, Types
  <2> QED
    BY <2>1, EmptyShape
<1> QED
  BY <1>2, <1>3, <1>4, <1>5, <1>6, <1>7, <1>8, Steps DEF InsertTag

-----------------------------------------------------------------------------
(* The rows.                                                               *)

(* A tag is inserted once: its id was not used before.                     *)
LEMMA InsertIsFresh ==
    ASSUME Types, AtStep, NotInsertedYet, NEW r \in Reqs, InsertTag(r)
    PROVE  tagRow[r] = "free" /\ r \in Tags
BY Inside, ProgramFacts DEF InsertTag, At, NotInsertedYet, Tags

(* The tags that a commit removes were there.                              *)
LEMMA DoomedAreLive ==
    ASSUME Types, TxShape, Locks, NoDanglingLink, NEW r \in Reqs, NEW t \in tx[r].doomed
    PROVE  Linked(t, links) /\ tagRow[t] = "live"
<1>1. PICK n \in Notes : <<n, t>> \in tx[r].removed
  BY DEF TxShape, Linked
<1>2. <<n, t>> \in links
  BY <1>1 DEF Locks
<1> QED
  BY <1>2 DEF NoDanglingLink, Linked

LEMMA NotInsertedYetInvariant ==
    ASSUME Types, AtStep, TxShape, Locks, NoDanglingLink, NotInsertedYet, [Next]_vars
    PROVE  NotInsertedYet'
<1> SUFFICES ASSUME NEW r \in Reqs, (pc[r] = 0 \/ (Running(r) /\ job[r].op = "create"))'
             PROVE  tagRow'[r] = "free"
  BY DEF NotInsertedYet
<1>1. r \in Tags
  BY DEF Tags
<1>2. ASSUME NEW q \in Reqs, Receive(q)
      PROVE  tagRow'[r] = "free"
  <2>1. UNCHANGED dbVars
    BY <1>2 DEF Receive
  <2>2. CASE q = r
    BY <1>2, <2>1, <2>2 DEF Receive, NotInsertedYet, dbVars
  <2>3. CASE q # r
    <3>1. pc'[r] = pc[r] /\ answer'[r] = answer[r] /\ job'[r] = job[r]
      BY <1>2, <2>3 DEF Receive, Types
    <3> QED
      BY <2>1, <3>1 DEF NotInsertedYet, Running, dbVars
  <2> QED
    BY <2>2, <2>3
<1>3. ASSUME NEW q \in Reqs, Serve(q) \/ Throw(q)
      PROVE  tagRow[r] = "free" /\ ~(q = r /\ InsertTag(q))
  <2>1. /\ job' = job /\ Running(q)
        /\ answer'[q] = "none" =>
              pc'[q] \in DOMAIN Program(job[q].op) /\ pc'[q] = pc[q] + 1
        /\ \A p \in Reqs : p # q => pc'[p] = pc[p] /\ answer'[p] = answer[p]
        /\ pc'[q] # 0
    BY <1>3, ServeMoves, Moves
  <2>2. CASE q = r
    <3>1. answer'[r] = "none" /\ job[r].op = "create"
      BY <2>1, <2>2 DEF Running
    <3>2. tagRow[r] = "free"
      BY <2>1, <2>2, <3>1 DEF NotInsertedYet
    <3>3. ~InsertTag(q)
      <4> SUFFICES ASSUME InsertTag(q)
                   PROVE  FALSE
        OBVIOUS
      <4> DEFINE P == Program(job[q].op)
      <4>1. pc[q] = Len(P) /\ Len(P) \in Nat /\ DOMAIN P = 1 .. Len(P)
        BY <2>1, Inside, ProgramFacts DEF InsertTag, At
      <4>2. pc[q] + 1 \in DOMAIN P
        BY <2>1, <2>2, <3>1
      <4> HIDE DEF P
      <4> QED
        BY <4>1, <4>2
    <3> QED
      BY <3>2, <3>3
  <2>3. CASE q # r
    BY <2>1, <2>3 DEF NotInsertedYet, Running
  <2> QED
    BY <2>2, <2>3
<1>4. CASE \E q \in Reqs : Serve(q) \/ Throw(q)
  <2> PICK q \in Reqs : Serve(q) \/ Throw(q)
    BY <1>4
  <2>1. tagRow[r] = "free" /\ ~(q = r /\ InsertTag(q))
    BY <1>3
  <2>2. CASE InsertTag(q)
    BY <1>1, <2>1, <2>2 DEF InsertTag, Types, Tags
  <2>3. CASE Commit(q)
    <3>1. r \notin tx[q].doomed
      BY <2>1, DoomedAreLive
    <3> QED
      BY <1>1, <2>1, <2>3, <3>1 DEF Commit, dbVars
  <2>4. CASE ~InsertTag(q) /\ ~Commit(q)
    <3>1. UNCHANGED tagRow
      BY <2>4 DEF Serve, FindName, FindNote, FindTag, FindNoLink, FindLink, InsertLink,
                  DeleteLink, DropNote, Throw, dbVars
    <3> QED
      BY <2>1, <3>1
  <2> QED
    BY <2>2, <2>3, <2>4
<1>5. CASE Restart
  BY <1>5 DEF Restart, NotInsertedYet, Running, dbVars
<1>6. CASE UNCHANGED vars
  BY <1>6 DEF vars, NotInsertedYet, Running
<1> QED
  BY <1>2, <1>4, <1>5, <1>6 DEF Next, Rest

-----------------------------------------------------------------------------
(* What is locked stays as it was found.                                   *)

LEMMA ApartInvariant ==
    ASSUME Types, AtStep, Args, TxOpen, TxShape, Apart, [Next]_vars
    PROVE  Apart'
<1> USE DEF Apart
<1>1. CASE Ends
  <2> PICK S \in SUBSET Reqs : tx' = [q \in Reqs |-> IF q \in S THEN NoTx ELSE tx[q]]
    BY <1>1 DEF Ends
  <2> SUFFICES ASSUME NEW q \in Reqs, NEW r \in Reqs, q # r
               PROVE  /\ tx'[q].added \cap tx'[r].added = {}
                      /\ tx'[q].removed \cap tx'[r].removed = {}
                      /\ tx'[q].notes \cap tx'[r].notes = {}
                      /\ \A l \in tx'[q].added : l[1] \notin tx'[r].notes
    OBVIOUS
  <2>1. CASE q \in S
    BY <2>1 DEF NoTx
  <2>2. CASE r \in S
    BY <2>2 DEF NoTx
  <2>3. CASE q \notin S /\ r \notin S
    BY <2>3
  <2> QED
    BY <2>1, <2>2, <2>3
<1>2. ASSUME NEW r \in Reqs, OpensAdd(r)
      PROVE  Apart'
  <2> DEFINE l == <<job[r].note, job[r].tag>>
  <2>1. tx[r] = NoTx
    BY <1>2 DEF OpensAdd, TxOpen, At
  <2>2. /\ tx'[r].added = {l} /\ tx'[r].removed = {} /\ tx'[r].notes = {}
        /\ \A q \in Reqs : q # r => tx'[q] = tx[q]
    BY <1>2, <2>1 DEF OpensAdd, Types, NoTx
  <2>3. \A q \in Reqs : q # r => l \notin tx[q].added /\ l[1] \notin tx[q].notes
    BY <1>2 DEF OpensAdd, Others
  <2> HIDE DEF l
  <2> QED
    BY <2>2, <2>3
<1>3. ASSUME NEW r \in Reqs, OpensRemove(r)
      PROVE  Apart'
  <2> DEFINE l == <<job[r].note, job[r].tag>>
  <2>1. tx[r] = NoTx
    BY <1>3 DEF OpensRemove, TxOpen, At
  <2>2. /\ tx'[r].added = {} /\ tx'[r].removed = {l} /\ tx'[r].notes = {}
        /\ \A q \in Reqs : q # r => tx'[q] = tx[q]
    BY <1>3, <2>1 DEF OpensRemove, Types, NoTx
  <2>3. \A q \in Reqs : q # r => l \notin tx[q].removed
    BY <1>3 DEF OpensRemove, Others
  <2> HIDE DEF l
  <2> QED
    BY <2>2, <2>3
<1>4. ASSUME NEW r \in Reqs, OpensDrop(r)
      PROVE  Apart'
  <2> DEFINE n == job[r].note
             L == LinksOf(n)
  <2>1. /\ tx'[r].added = {} /\ tx'[r].removed = L /\ tx'[r].notes = {n}
        /\ \A q \in Reqs : q # r => tx'[q] = tx[q]
    BY <1>4 DEF OpensDrop, Types
  <2>2. \A q \in Reqs : q # r => /\ n \notin tx[q].notes
                                 /\ \A l \in tx[q].added \cup tx[q].removed : l[1] # n
    BY <1>4 DEF OpensDrop, Others
  <2>3. \A l \in L : l[1] = n
    BY DEF LinksOf
  <2> HIDE DEF n, L
  <2> QED
    BY <2>1, <2>2, <2>3
<1>5. ASSUME NEW r \in Reqs, Commits(r)
      PROVE  Apart'
  <2>1. /\ tx'[r] = NoTx
        /\ \A q \in Reqs : q # r => tx'[q] = tx[q]
    BY <1>5 DEF Commits, Types
  <2> QED
    BY <2>1 DEF NoTx
<1> QED
  BY <1>1, <1>2, <1>3, <1>4, <1>5, Steps

(* A commit leaves what the other transactions hold as it is.             *)
LEMMA CommitsFrame ==
    ASSUME Types, TxShape, Locks, Apart, NoDanglingLink, NEW r \in Reqs, Commits(r),
           NEW q \in Reqs, q # r
    PROVE  /\ tx'[q] = tx[q]
           /\ \A l \in tx[q].added : InsertAllowed(l)'
           /\ tx[q].removed \subseteq links'
           /\ \A n \in tx[q].notes : noteRow'[n] = "live" /\ LinksOf(n)' \subseteq tx[q].removed
<1>1. /\ links' = (links \ tx[r].removed) \cup tx[r].added
      /\ tagRow' = [t \in Tags |-> IF t \in tx[r].doomed THEN "gone" ELSE tagRow[t]]
      /\ noteRow' = [n \in Notes |-> IF n \in tx[r].notes THEN "gone" ELSE noteRow[n]]
  BY DEF Commits
<1>2. tx'[q] = tx[q]
  BY DEF Commits, Types
<1>3. /\ tx[q].added \cap tx[r].added = {}
      /\ tx[q].removed \cap tx[r].removed = {}
      /\ tx[q].notes \cap tx[r].notes = {}
      /\ \A l \in tx[q].added : l[1] \notin tx[r].notes
      /\ \A l \in tx[r].added : l[1] \notin tx[q].notes
  BY DEF Apart
<1>4. ASSUME NEW l \in tx[q].added
      PROVE  InsertAllowed(l)'
  <2>1. l \in Notes \X Tags /\ l = <<l[1], l[2]>> /\ l[1] \in Notes /\ l[2] \in Tags
    BY DEF Types
  <2>2. l \notin links /\ noteRow[l[1]] = "live" /\ tagRow[l[2]] = "live"
    BY DEF Locks, InsertAllowed
  <2>3. l[2] \notin tx[r].doomed
    BY <2>1 DEF Commits, Others, Linked
  <2>4. l \notin links'
    BY <1>1, <1>3, <2>2
  <2>5. noteRow'[l[1]] = "live" /\ tagRow'[l[2]] = "live"
    BY <1>1, <1>3, <2>1, <2>2, <2>3
  <2> QED
    BY <2>4, <2>5 DEF InsertAllowed
<1>5. tx[q].removed \subseteq links'
  BY <1>1, <1>3 DEF Locks
<1>6. ASSUME NEW n \in tx[q].notes
      PROVE  noteRow'[n] = "live" /\ LinksOf(n)' \subseteq tx[q].removed
  <2>1. noteRow[n] = "live" /\ LinksOf(n) \subseteq tx[q].removed /\ n \in Notes
    BY DEF Locks, Types
  <2>2. LinksOf(n)' \subseteq LinksOf(n)
    BY <1>1, <1>3 DEF LinksOf
  <2> QED
    BY <1>1, <1>3, <2>1, <2>2
<1> QED
  BY <1>2, <1>4, <1>5, <1>6

LEMMA LocksInvariant ==
    ASSUME Types, AtStep, Args, TxOpen, TxShape, Locks, Apart, NotInsertedYet,
           NoDanglingLink, [Next]_vars
    PROVE  Locks'
<1> DEFINE Held(r) == /\ \A l \in tx[r].added : InsertAllowed(l)
                      /\ tx[r].removed \subseteq links
                      /\ \A n \in tx[r].notes : noteRow[n] = "live" /\ LinksOf(n) \subseteq tx[r].removed
<1> SUFFICES ASSUME NEW r \in Reqs
             PROVE  Held(r)'
  BY DEF Locks
<1>1. Held(r)
  BY DEF Locks
<1>2. tx'[r] = NoTx => Held(r)'
  BY DEF NoTx
<1>3. tx'[r] = tx[r] /\ UNCHANGED dbVars => Held(r)'
  BY <1>1 DEF InsertAllowed, LinksOf, dbVars
<1>4. ASSUME NEW q \in Reqs, InsertTag(q), tx'[r] = tx[r]
      PROVE  Held(r)'
  <2>1. UNCHANGED <<noteRow, links>> /\ \A t \in Tags : tagRow[t] = "live" => tagRow'[t] = "live"
    BY <1>4, InsertIsFresh DEF InsertTag, Types
  <2>2. \A l \in tx[r].added : l[2] \in Tags
    BY DEF Types
  <2> QED
    BY <1>1, <1>4, <2>1, <2>2 DEF InsertAllowed, LinksOf
<1>5. CASE Ends /\ (UNCHANGED dbVars \/ \E q \in Reqs : InsertTag(q))
  <2>1. tx'[r] = NoTx \/ tx'[r] = tx[r]
    BY <1>5 DEF Ends
  <2> QED
    BY <1>2, <1>3, <1>4, <1>5, <2>1
<1>6. ASSUME NEW q \in Reqs, OpensAdd(q) \/ OpensRemove(q) \/ OpensDrop(q), q # r
      PROVE  Held(r)'
  <2>1. tx'[r] = tx[r] /\ UNCHANGED dbVars
    BY <1>6 DEF OpensAdd, OpensRemove, OpensDrop, Types
  <2> QED
    BY <1>3, <2>1
<1>7. CASE OpensAdd(r)
  <2>0. PICK l : l = <<job[r].note, job[r].tag>>
    OBVIOUS
  <2>1. tx[r] = NoTx
    BY <1>7 DEF OpensAdd, TxOpen, At
  <2>2. tx'[r].added = {l} /\ tx'[r].removed = {} /\ tx'[r].notes = {}
    BY <1>7, <2>0, <2>1 DEF OpensAdd, Types, NoTx
  <2>3. InsertAllowed(l)'
    BY <1>7, <2>0 DEF OpensAdd, InsertAllowed, dbVars
  <2> QED
    BY <2>2, <2>3
<1>8. CASE OpensRemove(r)
  <2>0. PICK l : l = <<job[r].note, job[r].tag>>
    OBVIOUS
  <2>1. tx[r] = NoTx
    BY <1>8 DEF OpensRemove, TxOpen, At
  <2>2. tx'[r].added = {} /\ tx'[r].removed = {l} /\ tx'[r].notes = {}
    BY <1>8, <2>0, <2>1 DEF OpensRemove, Types, NoTx
  <2>3. l \in links'
    BY <1>8, <2>0 DEF OpensRemove, dbVars
  <2> QED
    BY <2>2, <2>3
<1>9. CASE OpensDrop(r)
  <2>0. PICK n, L : n = job[r].note /\ L = LinksOf(n)
    OBVIOUS
  <2>1. tx'[r].added = {} /\ tx'[r].removed = L /\ tx'[r].notes = {n}
    BY <1>9, <2>0 DEF OpensDrop, Types
  <2>2. noteRow'[n] = "live" /\ LinksOf(n)' = L /\ L \subseteq links'
    BY <1>9, <2>0 DEF OpensDrop, dbVars, LinksOf
  <2> QED
    BY <2>1, <2>2
<1>10. ASSUME NEW q \in Reqs, Commits(q)
       PROVE  Held(r)'
  <2>1. CASE q = r
    BY <1>2, <1>10, <2>1 DEF Commits, Types
  <2>2. CASE q # r
    BY <1>10, <2>2, CommitsFrame
  <2> QED
    BY <2>1, <2>2
<1> QED
  BY <1>5, <1>6, <1>7, <1>8, <1>9, <1>10, Steps

(* The links after a commit join rows that are there.                     *)
LEMMA NoDanglingLinkInvariant ==
    ASSUME Types, AtStep, Args, TxOpen, TxShape, Locks, Apart, NotInsertedYet,
           NoDanglingLink, [Next]_vars
    PROVE  NoDanglingLink'
<1>1. CASE UNCHANGED dbVars
  BY <1>1 DEF dbVars, NoDanglingLink
<1>2. ASSUME NEW r \in Reqs, InsertTag(r)
      PROVE  NoDanglingLink'
  <2>1. UNCHANGED <<noteRow, links>> /\ \A t \in Tags : tagRow[t] = "live" => tagRow'[t] = "live"
    BY <1>2, InsertIsFresh DEF InsertTag, Types
  <2>2. \A l \in links : l[2] \in Tags
    BY DEF Types
  <2> QED
    BY <2>1, <2>2 DEF NoDanglingLink
<1>3. ASSUME NEW r \in Reqs, Commits(r)
      PROVE  NoDanglingLink'
  <2> SUFFICES ASSUME NEW l \in links'
               PROVE  noteRow'[l[1]] = "live" /\ tagRow'[l[2]] = "live"
    BY DEF NoDanglingLink
  <2>1. /\ links' = (links \ tx[r].removed) \cup tx[r].added
        /\ tagRow' = [t \in Tags |-> IF t \in tx[r].doomed THEN "gone" ELSE tagRow[t]]
        /\ noteRow' = [n \in Notes |-> IF n \in tx[r].notes THEN "gone" ELSE noteRow[n]]
    BY <1>3 DEF Commits
  <2>2. l \in Notes \X Tags /\ l = <<l[1], l[2]>> /\ l[1] \in Notes /\ l[2] \in Tags
    BY <2>1 DEF Types
  <2>3. noteRow[l[1]] = "live" /\ tagRow[l[2]] = "live"
    BY <2>1 DEF NoDanglingLink, Locks, InsertAllowed
  <2>4. CASE l \in tx[r].added
    <3>1. tx[r].removed = {} /\ tx[r].notes = {}
      BY <2>4 DEF TxShape, Removers
    <3>2. tx[r].doomed = {}
      BY <3>1 DEF TxShape, Linked
    <3> QED
      BY <2>1, <2>2, <2>3, <3>1, <3>2
  <2>5. CASE l \in links \ tx[r].removed
    <3>1. l[1] \notin tx[r].notes
      BY <2>5 DEF Locks, LinksOf
    <3>2. l[2] \notin tx[r].doomed
      BY <1>3, <2>2, <2>5 DEF Commits, DoomedUnlinked, Linked
    <3> QED
      BY <2>1, <2>2, <2>3, <3>1, <3>2
  <2> QED
    BY <2>1, <2>4, <2>5
<1> QED
  BY <1>1, <1>2, <1>3, Steps DEF OpensAdd, OpensRemove, OpensDrop

-----------------------------------------------------------------------------
(* Who added a link.                                                       *)

(* A request that is answered 200 to an addition has just committed its   *)
(* link, or was answered before.                                           *)
LEMMA AddedOkFrame ==
    ASSUME Types, AtStep, Args, TxOpen, TxShape, [Next]_vars, NEW r \in Reqs, AddedOk(r)'
    PROVE  /\ job'[r] = job[r] /\ job[r].op = "add"
           /\ \/ AddedOk(r)
              \/ Commits(r) /\ tx[r].added = {<<job[r].note, job[r].tag>>}
<1>1. CASE \E q \in Reqs : Receive(q)
  <2> PICK q \in Reqs : Receive(q)
    BY <1>1
  <2>1. q # r /\ answer' = answer
    BY DEF Receive, AddedOk, Types
  <2> QED
    BY <2>1 DEF Receive, AddedOk, Types
<1>2. CASE \E q \in Reqs : Serve(q) \/ Throw(q)
  <2> PICK q \in Reqs : Serve(q) \/ Throw(q)
    BY <1>2
  <2>1. /\ job' = job /\ Running(q)
        /\ answer'[q] = "ok" => Continue(q) /\ pc[q] = Len(Program(job[q].op))
        /\ \A p \in Reqs : p # q => pc'[p] = pc[p] /\ answer'[p] = answer[p]
    BY ServeMoves, Moves
  <2>2. CASE q # r
    BY <2>1, <2>2 DEF AddedOk
  <2>3. CASE q = r
    <3>1. job[r].op = "add" /\ pc[r] = Len(Program(job[r].op)) /\ Continue(r)
      BY <2>1, <2>3 DEF AddedOk
    <3>2. At(r, "commit")
      BY <2>1, <2>3, <3>1, Inside, ProgramFacts DEF At
    <3>3. tx[r].added = {<<job[r].note, job[r].tag>>}
      BY <3>1, <3>2 DEF TxOpen, TxShape
    <3>4. \A code : ~Answer(r, code)
      <4>1. pc[r] + 1 # pc[r] /\ pc \in [Reqs -> 0 .. 6]
        BY DEF Types
      <4> QED
        BY <3>1, <4>1 DEF Answer, Continue
    <3>5. Commit(r)
      BY <2>3, <3>2, <3>4 DEF Serve, Throw, FindName, InsertTag, FindNote, FindTag, FindNoLink,
                              FindLink, InsertLink, DeleteLink, DropNote, At
    <3>6. Commits(r)
      BY <2>1, <3>4, <3>5 DEF Commit, Commits, TxEnds, dbVars
    <3> QED
      BY <2>1, <3>1, <3>3, <3>6
  <2> QED
    BY <2>2, <2>3
<1>3. CASE Restart
  BY <1>3 DEF Restart, AddedOk, Types
<1>4. CASE UNCHANGED vars
  BY <1>4 DEF vars, AddedOk
<1> QED
  BY <1>1, <1>2, <1>3, <1>4 DEF Next, Rest

(* A link goes only by a request that asked for it.                        *)
LEMMA LinkTaken ==
    ASSUME Types, AtStep, TxShape, [Next]_vars,
           NEW l \in links, l \notin links'
    PROVE  \E s \in Reqs : job[s].op \in Removers /\ job[s].note = l[1] /\ job'[s] = job[s]
<1>1. PICK s \in Reqs : Commits(s) /\ l \in tx[s].removed
  <2>1. ~UNCHANGED links
    OBVIOUS
  <2> QED
    BY <2>1, Steps DEF OpensAdd, OpensRemove, OpensDrop, InsertTag, dbVars, Commits
<1>2. job[s].op \in Removers
  BY <1>1 DEF TxShape
<1>3. job[s].note = l[1]
  BY <1>1, <1>2 DEF TxShape, Removers
<1> QED
  BY <1>1, <1>2, <1>3 DEF Commits

LEMMA RemoversKept ==
    ASSUME Types, AtStep, [Next]_vars, NEW s \in Reqs, job[s].op \in Removers
    PROVE  job'[s] = job[s]
BY JobsKept DEF Removers

LEMMA AddedInvariant ==
    ASSUME Types, AtStep, Args, TxOpen, TxShape, Added, [Next]_vars
    PROVE  Added'
<1> SUFFICES ASSUME NEW r \in Reqs, AddedOk(r)'
             PROVE  \/ <<job'[r].note, job'[r].tag>> \in links'
                    \/ \E s \in Reqs : job'[s].op \in Removers /\ job'[s].note = job'[r].note
  BY DEF Added
<1> PICK l : l = <<job[r].note, job[r].tag>>
  OBVIOUS
<1>1. job'[r] = job[r]
  BY AddedOkFrame
<1>2. CASE AddedOk(r)
  <2>1. CASE l \in links
    <3>1. CASE l \in links'
      BY <1>1, <3>1
    <3>2. CASE l \notin links'
      <4>1. PICK s \in Reqs : job[s].op \in Removers /\ job[s].note = l[1] /\ job'[s] = job[s]
        BY <2>1, <3>2, LinkTaken
      <4> QED
        BY <1>1, <4>1
    <3> QED
      BY <3>1, <3>2
  <2>2. CASE l \notin links
    <3>1. PICK s \in Reqs : job[s].op \in Removers /\ job[s].note = job[r].note
      BY <1>2, <2>2 DEF Added
    <3> QED
      BY <1>1, <3>1, RemoversKept
  <2> QED
    BY <2>1, <2>2
<1>3. CASE Commits(r) /\ tx[r].added = {l}
  BY <1>1, <1>3 DEF Commits
<1> QED
  BY <1>2, <1>3, AddedOkFrame

LEMMA AtMostOneAdderInvariant ==
    ASSUME Types, AtStep, Args, TxOpen, TxShape, Locks, Added, AtMostOneAdder, [Next]_vars
    PROVE  AtMostOneAdder'
<1> SUFFICES ASSUME NEW q \in Reqs, NEW r \in Reqs, q # r, AddedOk(q)', AddedOk(r)',
                    job'[q].note = job'[r].note, job'[q].tag = job'[r].tag
             PROVE  \E s \in Reqs : job'[s].op \in {"remove", "note_delete"}
                                    /\ job'[s].note = job'[q].note
  BY DEF AtMostOneAdder
<1>1. job'[q] = job[q] /\ job'[r] = job[r]
  BY AddedOkFrame
<1>2. \E s \in Reqs : job[s].op \in Removers /\ job[s].note = job[q].note
  <2> PICK l : l = <<job[r].note, job[r].tag>>
    OBVIOUS
  <2>1. CASE AddedOk(q) /\ AddedOk(r)
    BY <1>1, <2>1 DEF AtMostOneAdder, Removers
  <2>2. ASSUME NEW p \in Reqs, NEW o \in Reqs, p # o, {p, o} = {q, r}, AddedOk(o), ~AddedOk(p)
        PROVE  \E s \in Reqs : job[s].op \in Removers /\ job[s].note = job[q].note
    <3>1. Commits(p) /\ tx[p].added = {l}
      BY <1>1, <2>2, AddedOkFrame
    <3>2. l \notin links
      BY <3>1 DEF Locks, InsertAllowed
    <3> QED
      BY <1>1, <2>2, <3>2 DEF Added
  <2>3. CASE ~AddedOk(q) /\ ~AddedOk(r)
    <3>1. Commits(q) /\ Commits(r)
      BY <2>3, AddedOkFrame
    <3>2. tx' = [tx EXCEPT ![q] = NoTx] /\ tx' = [tx EXCEPT ![r] = NoTx]
      BY <3>1 DEF Commits
    <3>3. tx[r].added # {}
      BY <2>3, AddedOkFrame
    <3>4. tx'[r] = tx[r] /\ tx'[r] = NoTx
      BY <3>2 DEF Types
    <3> QED
      BY <3>3, <3>4 DEF NoTx
  <2> QED
    BY <2>1, <2>2, <2>3
<1> QED
  BY <1>1, <1>2, RemoversKept DEF Removers

-----------------------------------------------------------------------------
(* The theorems.                                                           *)

LEMMA IndInvHoldsAtFirst ==
    ASSUME Init
    PROVE  IndInv
<1> USE DEF Init
<1>1. Types
  BY StoredAssumption, IdsAssumption DEF Types, NoTx, NoJob, Tags
<1>2. AtStep /\ Args
  BY DEF AtStep, Args, NoJob
<1>3. NotInsertedYet
  BY IdsAssumption DEF NotInsertedYet, Tags
<1>4. TxOpen /\ TxShape /\ Locks /\ Apart
  <2>1. \A r \in Reqs : tx[r] = NoTx /\ ~At(r, "commit")
    BY DEF At, Running
  <2> QED
    BY <2>1 DEF TxOpen, TxShape, Locks, Apart, NoTx, NoJob
<1>5. NoDanglingLink
  BY StoredAssumption DEF NoDanglingLink, Tags
<1>6. Added /\ AtMostOneAdder
  BY DEF Added, AtMostOneAdder, AddedOk
<1> QED
  BY <1>1, <1>2, <1>3, <1>4, <1>5, <1>6 DEF IndInv

LEMMA IndInvIsKept ==
    ASSUME IndInv, [Next]_vars
    PROVE  IndInv'
BY TypesInvariant, JobsInvariant, NotInsertedYetInvariant, TxOpenInvariant, TxShapeInvariant,
   LocksInvariant, ApartInvariant, NoDanglingLinkInvariant, AddedInvariant,
   AtMostOneAdderInvariant DEF IndInv

(* Every reachable state satisfies the inductive invariant.                *)
THEOREM Inductive == Spec => []IndInv
<1>1. Init => IndInv
  BY IndInvHoldsAtFirst
<1>2. IndInv /\ [Next]_vars => IndInv'
  BY IndInvIsKept
<1> QED
  BY <1>1, <1>2, PTL DEF Spec

(* Variables keep their types, and only a request that is being served    *)
(* has a transaction open: none is left behind by an answer or a restart.  *)
THEOREM TypeCorrect == Spec => []TypeOK
<1>1. IndInv => TypeOK
  BY DEF IndInv, Types, TypeOK, TxOpen, At, Codes
<1> QED
  BY <1>1, Inductive, PTL

(* No interleaving of transactions commits a link of a note or a tag that  *)
(* is gone.                                                                *)
THEOREM LinksAreWhole == Spec => []NoDanglingLink
<1>1. IndInv => NoDanglingLink
  BY DEF IndInv
<1> QED
  BY <1>1, Inductive, PTL

(* One of several requests that add the same link is answered 200.         *)
THEOREM OneAdder == Spec => []AtMostOneAdder
<1>1. IndInv => AtMostOneAdder
  BY DEF IndInv
<1> QED
  BY <1>1, Inductive, PTL

LEMMA TagGoesInStep ==
    ASSUME IndInv, [Next]_vars, NEW t \in Tags, tagRow[t] = "live", tagRow'[t] = "gone"
    PROVE  Linked(t, links) /\ ~Linked(t, links')
<1>1. PICK r \in Reqs : Commits(r) /\ t \in tx[r].doomed
  <2>1. ~UNCHANGED tagRow
    OBVIOUS
  <2>2. ASSUME NEW r \in Reqs, InsertTag(r)
        PROVE  FALSE
    BY <2>2 DEF InsertTag, IndInv, Types
  <2> QED
    BY <2>1, <2>2, Steps DEF OpensAdd, OpensRemove, OpensDrop, dbVars, Commits, IndInv
<1>2. Linked(t, links)
  BY <1>1, DoomedAreLive DEF IndInv
<1>3. tx[r].added = {}
  <2>1. tx[r].removed # {}
    BY <1>1 DEF IndInv, TxShape, Linked
  <2> QED
    BY <2>1 DEF IndInv, TxShape, Removers
<1>4. ~Linked(t, links')
  BY <1>1, <1>3 DEF Commits, DoomedUnlinked, Linked
<1> QED
  BY <1>2, <1>4

(* A tag disappears only in the step that takes its last link.             *)
THEOREM TagsGoLast == Spec => TagGoesWithLastLink
<1>1. IndInv /\ [Next]_vars =>
          [\A t \in Tags : tagRow[t] = "live" /\ tagRow'[t] = "gone" =>
               Linked(t, links) /\ ~Linked(t, links')]_vars
  BY TagGoesInStep
<1> QED
  BY <1>1, Inductive, PTL DEF Spec, TagGoesWithLastLink

-----------------------------------------------------------------------------
(* Tags implements TagStore.                                               *)

LiveNotes == {n \in Notes : noteRow[n] = "live"}

LiveTags == {t \in Tags : tagRow[t] = "live"}

PastTags == {t \in Tags : tagRow[t] = "gone"}

LEMMA StoreInit ==
    ASSUME Init
    PROVE  Store!Init
<1>1. LiveNotes = Notes /\ LiveTags = Stored /\ PastTags = {} /\ links = StoredLinks
  BY IdsAssumption DEF Init, LiveNotes, LiveTags, PastTags, Tags
<1>2. links \in SUBSET (LiveNotes \X LiveTags)
  BY <1>1, StoredAssumption
<1> QED
  BY <1>1, <1>2 DEF Store!Init, LiveNotes, LiveTags, PastTags, Tags

LEMMA StoreInsert ==
    ASSUME IndInv, NEW r \in Reqs, InsertTag(r)
    PROVE  Store!Insert(r)
<1>1. tagRow[r] = "free" /\ r \in Tags
  BY InsertIsFresh DEF IndInv
<1>2. tagRow' = [tagRow EXCEPT ![r] = "live"] /\ UNCHANGED <<noteRow, links>>
  BY DEF InsertTag
<1>3. r \notin LiveTags \cup PastTags
  BY <1>1 DEF LiveTags, PastTags
<1>4. LiveTags' = LiveTags \cup {r} /\ PastTags' = PastTags /\ LiveNotes' = LiveNotes
  BY <1>1, <1>2 DEF LiveTags, PastTags, LiveNotes, IndInv, Types
<1> QED
  BY <1>2, <1>3, <1>4 DEF Store!Insert, LiveTags, PastTags, LiveNotes

(* What a commit removes in the tables is what Drop removes.               *)
LEMMA StoreDrop ==
    ASSUME IndInv, NEW r \in Reqs, Commits(r), tx[r].added = {},
           NEW CONSTANT L, L = tx[r].removed
    PROVE  \E D \in SUBSET Tags : Store!Drop(L, D)
<1> PICK D : D = tx[r].doomed
  OBVIOUS
<1>1. L \subseteq links /\ D \subseteq Tags
  BY DEF IndInv, Locks, Types
<1>2. \A t \in D : tagRow[t] = "live" /\ Linked(t, L) /\ ~Linked(t, links \ L)
  BY DoomedAreLive DEF IndInv, TxShape, Commits, DoomedUnlinked
<1>3. links' = links \ L
  BY DEF Commits
<1>4. LiveTags' = LiveTags \ D /\ PastTags' = PastTags \cup D
  BY <1>1, <1>2 DEF Commits, LiveTags, PastTags
<1>5. Store!Drop(L, D)
  BY <1>1, <1>2, <1>3, <1>4 DEF Store!Drop, Store!Tagged, Linked, LiveTags, PastTags
<1> QED
  BY <1>1, <1>5

LEMMA StoreCommit ==
    ASSUME IndInv, NEW r \in Reqs, Commits(r)
    PROVE  Store!Next \/ UNCHANGED Store!vars
<1> PICK n, t : n = job[r].note /\ t = job[r].tag
  OBVIOUS
<1>0. /\ links' = (links \ tx[r].removed) \cup tx[r].added
      /\ tagRow' = [u \in Tags |-> IF u \in tx[r].doomed THEN "gone" ELSE tagRow[u]]
      /\ noteRow' = [m \in Notes |-> IF m \in tx[r].notes THEN "gone" ELSE noteRow[m]]
      /\ noteRow \in [Notes -> {"live", "gone"}] /\ tagRow \in [Tags -> {"free", "live", "gone"}]
  BY DEF Commits, IndInv, Types
<1>1. CASE tx[r].added # {}
  <2>1. job[r].op = "add" /\ tx[r].added = {<<n, t>>}
    BY <1>1 DEF IndInv, TxShape
  <2>2. n \in Notes /\ t \in Tags
    BY <2>1 DEF IndInv, Args
  <2>3. tx[r].removed = {} /\ tx[r].notes = {}
    BY <2>1 DEF IndInv, TxShape, Removers
  <2>4. tx[r].doomed = {}
    BY <2>3 DEF IndInv, TxShape, Linked
  <2>5. InsertAllowed(<<n, t>>)
    BY <2>1 DEF IndInv, Locks
  <2>6. noteRow' = noteRow /\ tagRow' = tagRow /\ links' = links \cup {<<n, t>>}
    BY <1>0, <2>1, <2>3, <2>4
  <2>7. Store!Link(n, t)
    BY <2>2, <2>5, <2>6 DEF Store!Link, InsertAllowed
  <2> QED
    BY <2>2, <2>7 DEF Store!Next
<1>2. CASE tx[r].added = {} /\ tx[r].notes # {}
  <2>1. tx[r].notes = {n} /\ n \in Notes
    BY <1>2 DEF IndInv, TxShape, Args
  <2>2. tx[r].removed = {l \in links : l[1] = n}
    <3>1. LinksOf(n) \subseteq tx[r].removed /\ tx[r].removed \subseteq links
      BY <2>1 DEF IndInv, Locks
    <3>2. \A l \in tx[r].removed : l[1] = n
      BY <1>2, <2>1 DEF IndInv, TxShape
    <3> QED
      BY <3>1, <3>2 DEF LinksOf
  <2>3. \E D \in SUBSET Tags : Store!Drop({l \in links : l[1] = n}, D)
    <3> PICK L : L = {l \in links : l[1] = n}
      OBVIOUS
    <3>1. \E D \in SUBSET Tags : Store!Drop(L, D)
      BY <1>2, <2>2, StoreDrop
    <3> QED
      BY <3>1
  <2>4. n \in LiveNotes /\ LiveNotes' = LiveNotes \ {n}
    BY <1>0, <2>1 DEF LiveNotes, IndInv, Locks
  <2>5. Store!DropNote(n)
    BY <2>3, <2>4 DEF Store!DropNote, LiveNotes
  <2> QED
    BY <2>1, <2>5 DEF Store!Next
<1>3. CASE tx[r].added = {} /\ tx[r].notes = {} /\ tx[r].removed # {}
  <2>1. job[r].op = "remove" /\ tx[r].removed = {<<n, t>>}
    BY <1>3 DEF IndInv, TxShape, Removers
  <2>2. n \in Notes /\ t \in Tags /\ <<n, t>> \in links
    BY <2>1 DEF IndInv, Args, Locks
  <2>3. \E D \in SUBSET Tags : Store!Drop({<<n, t>>}, D)
    BY <1>3, <2>1, StoreDrop
  <2>4. noteRow' = noteRow
    BY <1>0, <1>3
  <2>5. Store!Unlink(n, t)
    <3>1. UNCHANGED {m \in Notes : noteRow[m] = "live"}
      BY <2>4
    <3> QED
      BY <2>2, <2>3, <3>1 DEF Store!Unlink
  <2> QED
    BY <2>2, <2>5 DEF Store!Next
<1>4. CASE tx[r].added = {} /\ tx[r].notes = {} /\ tx[r].removed = {}
  <2>1. tx[r].doomed = {}
    BY <1>4 DEF IndInv, TxShape, Linked
  <2>2. noteRow' = noteRow /\ tagRow' = tagRow /\ links' = links
    BY <1>0, <1>4, <2>1
  <2> QED
    BY <2>2 DEF Store!vars
<1> QED
  BY <1>1, <1>2, <1>3, <1>4

(* Whatever overlaps, waits, fails or is rolled back, each step is one    *)
(* operation of TagStore or none.                                          *)
THEOREM LinksAreAtomic == Spec => AtomicLinks
<1>1. Init => Store!Init
  BY StoreInit
<1>2. IndInv /\ [Next]_vars => [Store!Next]_(Store!vars)
  <2> SUFFICES ASSUME IndInv, [Next]_vars
               PROVE  Store!Next \/ UNCHANGED Store!vars
    OBVIOUS
  <2>1. CASE UNCHANGED dbVars
    BY <2>1 DEF dbVars, Store!vars
  <2>2. ASSUME NEW r \in Reqs, InsertTag(r)
        PROVE  Store!Next
    <3>1. r \in Tags /\ Store!Insert(r)
      BY <2>2, StoreInsert DEF Tags
    <3> QED
      BY <3>1 DEF Store!Next
  <2> QED
    BY <2>1, <2>2, StoreCommit, Steps DEF IndInv, OpensAdd, OpensRemove, OpensDrop
<1> QED
  BY <1>1, <1>2, Inductive, PTL DEF Spec, AtomicLinks, Store!Spec

=============================================================================
