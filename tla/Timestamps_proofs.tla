------------------------- MODULE Timestamps_proofs --------------------------
(***************************************************************************)
(* Proofs about Timestamps for every set of statements and every stored    *)
(* database: the type invariant, that statements without a DELETE never    *)
(* wait for each other in a circle, that the time of a note is that of the *)
(* last change that dates it, and that the transactions implement RowStore. *)
(***************************************************************************)
EXTENDS Timestamps, TLAPS

-----------------------------------------------------------------------------
(* The parts of the inductive invariant.                                   *)

TxType == [state : {"none", "open", "ok", "failed"}, needs : Ids \cup {None},
           mode : {"none", "key", "update", "delete"},
           value : Nat,
           keyed : SUBSET Ids, stamped : SUBSET Ids,
           dying : SUBSET Ids, left : SUBSET Ids]

Types ==
    /\ status \in [Ids -> {"free", "live", "gone"}]
    /\ parent \in [Ids -> Ids \cup {None}]
    /\ time \in [Ids -> Nat]
    /\ job \in [Reqs -> [op : AllOps \cup {"none"}, target : Ids \cup {None}]]
    /\ tx \in [Reqs -> TxType]
    /\ log \in Seq(Reqs)

Ended == \A r \in Reqs : ~Open(r) => tx[r] \in {NoTx, Committed, RolledBack}

(* A statement names a row of its table that was inserted.                 *)
Targets ==
    \A r \in Reqs : tx[r].state \in {"open", "ok"} =>
        job[r].op \in AllOps /\ job[r].target \in Known(TargetTable(job[r].op))

(* A row that was inserted comes from an INSERT that committed.            *)
Inserted ==
    \A r \in Reqs : status[r] # "free" => tx[r].state = "ok" /\ job[r].op \in Inserts

(* Rows form trees of three levels, also when they are gone.               *)
Trees ==
    \A x \in Ids : status[x] # "free" =>
        \/ TableOf(x) = "notes" /\ parent[x] = None
        \/ TableOf(x) \in {"checklists", "attachments"} /\ parent[x] \in Known("notes")
        \/ TableOf(x) = "checklist_items" /\ parent[x] \in Known("checklists")

NoOrphanRow == \A x \in Ids : Live(x) /\ parent[x] # None => Live(parent[x])

(* No two transactions hold a row in modes that exclude each other.       *)
Apart ==
    \A q, r \in Reqs : q # r =>
        /\ tx[q].dying \cap (tx[r].keyed \cup tx[r].stamped \cup tx[r].dying) = {}
        /\ tx[q].stamped \cap tx[r].stamped = {}

(* A row that is held stays.                                               *)
Held == \A r \in Reqs : \A x \in tx[r].keyed \cup tx[r].stamped \cup tx[r].dying : Live(x)

NeedsKnown == \A r \in Reqs : tx[r].needs # None => status[tx[r].needs] # "free"

InsertShape ==
    \A r \in Reqs : Open(r) /\ job[r].op \in Inserts =>
        /\ tx[r].dying = {} /\ tx[r].left = {}
        /\ tx[r].mode \in {"key", "update", "none"}
        /\ tx[r].mode = "key" =>
              tx[r].needs = job[r].target /\ tx[r].keyed = {} /\ tx[r].stamped = {}
        /\ tx[r].mode # "key" => tx[r].keyed = {job[r].target}

UpdateShape ==
    \A r \in Reqs : Open(r) /\ job[r].op \in Updates =>
        /\ tx[r].keyed = {} /\ tx[r].dying = {} /\ tx[r].left = {}
        /\ tx[r].mode \in {"update", "none"}

Leaves == {"checklist_items", "attachments"}

(* A DELETE goes down from its target; only one of a leaf goes up.        *)
DeleteShape ==
    \A r \in Reqs : Open(r) /\ job[r].op \in Deletes =>
        /\ tx[r].keyed = {}
        /\ tx[r].mode \in {"delete", "update", "none"}
        /\ tx[r].mode = "delete" =>
              /\ tx[r].stamped = {}
              /\ tx[r].needs = None => tx[r].left = {}
              /\ tx[r].needs # None =>
                    \/ tx[r].needs \in tx[r].left
                    \/ tx[r].needs = job[r].target /\ tx[r].dying = {}
              /\ TargetTable(job[r].op) \in Leaves => tx[r].dying = {}
        /\ tx[r].mode # "delete" =>
              /\ tx[r].left = {} /\ tx[r].dying = {job[r].target}
              /\ TargetTable(job[r].op) \in Leaves
        /\ tx[r].dying = {} => tx[r].left = {}
        /\ tx[r].dying # {} => job[r].target \in tx[r].dying

(* What is deleted is a row and what hangs on it, and nothing that hangs  *)
(* on it is forgotten.                                                     *)
Cascades ==
    \A r \in Reqs :
        /\ \A y \in tx[r].dying : y = job[r].target \/ parent[y] \in tx[r].dying
        /\ \A y \in tx[r].left : parent[y] \in tx[r].dying /\ status[y] # "free"
        /\ \A y \in Ids : Live(y) /\ parent[y] \in tx[r].dying => y \in tx[r].dying \cup tx[r].left

Level(x) ==
    IF TableOf(x) = "notes" THEN 2 ELSE IF TableOf(x) = "checklists" THEN 1 ELSE 0

(* The row that is updated next is the first one, or hangs above one that *)
(* is held, and higher than all that was updated.                          *)
Climbs ==
    \A r \in Reqs : Open(r) /\ tx[r].mode = "update" /\ tx[r].needs # None =>
        /\ \/ tx[r].needs = job[r].target /\ tx[r].stamped = {} /\ tx[r].dying = {}
           \/ \E y \in tx[r].stamped \cup tx[r].dying : parent[y] = tx[r].needs
        /\ TableOf(tx[r].needs) # "attachments"
        /\ tx[r].dying # {} => TableOf(tx[r].needs) \notin Leaves
        /\ NoteOf(tx[r].needs) = NoteOf(job[r].target)
        /\ \A y \in tx[r].stamped : Level(y) < Level(tx[r].needs)

Climbers == {"note_patch", "checklist_patch", "item_patch", "item_post", "attachment_post",
             "attachment_delete"}

(* A statement whose triggers reach the note has done so when nothing is  *)
(* left for it to lock.                                                    *)
Reached ==
    \A r \in Reqs :
        /\ Open(r) /\ job[r].op \in Climbers /\ tx[r].needs = None
        /\ tx[r].stamped \cup tx[r].dying # {} \/ job[r].op \in Inserts
        => NoteOf(job[r].target) \in tx[r].stamped

KnownTime(t) == t < Launch \/ \E q \in Reqs : tx[q].state = "ok" /\ t = Now(q)

(* Times come from statements that committed; only a deleted item hands   *)
(* an old one on.                                                          *)
Times ==
    /\ \A x \in Ids : KnownTime(time[x])
    /\ \A r \in Reqs : Open(r) =>
          \/ tx[r].value = Now(r)
          \/ job[r].op = "item_delete" /\ KnownTime(tx[r].value)

Disjoint == \A r \in Reqs : tx[r].stamped \cap tx[r].dying = {}

Logged == \A i \in DOMAIN log : tx[log[i]].state = "ok"

(* What a statement has updated lies on the way to its note; creating a   *)
(* checklist updates nothing.                                              *)
Stamps ==
    \A r \in Reqs : Open(r) =>
        /\ \A y \in tx[r].stamped : NoteOf(y) = NoteOf(job[r].target)
        /\ job[r].op = "checklist_post" => tx[r].stamped = {} /\ tx[r].mode # "update"

IndInv ==
    /\ Types /\ Ended /\ Targets /\ Inserted /\ Trees /\ NoOrphanRow
    /\ Apart /\ Held /\ NeedsKnown /\ InsertShape /\ UpdateShape /\ DeleteShape
    /\ Cascades /\ Climbs /\ Reached /\ Times /\ Disjoint /\ Logged /\ Stamps
    /\ TimeOfLastChange

-----------------------------------------------------------------------------
(* What each step does.                                                    *)

Act(r) == Begin(r) \/ CheckKey(r) \/ UpdateRow(r) \/ DeleteRow(r) \/ Commit(r) \/ Fail(r)

Kept(r) == tx'[r] = tx[r] /\ job'[r] = job[r]

LEMMA Steps ==
    ASSUME [Next]_vars
    PROVE  UNCHANGED vars \/ \E r \in Reqs : Act(r)
<1>1. CASE Next
  BY <1>1 DEF Next, Serve, Act, BreakDeadlock, Rest
<1> QED
  BY <1>1

LEMMA TimesAreNat ==
    \A r \in Reqs : Now(r) \in Nat /\ Now(r) >= Launch
BY ReqsAssumption, TimesAssumption DEF Now

LEMMA EmptyTx ==
    /\ NoTx \in TxType /\ Committed \in TxType /\ RolledBack \in TxType
    /\ \A t \in {NoTx, Committed, RolledBack} :
          /\ t.state # "open" /\ t.needs = None /\ t.mode = "none"
          /\ t.keyed = {} /\ t.stamped = {} /\ t.dying = {} /\ t.left = {}
    /\ NoTx.state = "none" /\ Committed.state = "ok" /\ RolledBack.state = "failed"
BY DEF NoTx, Committed, RolledBack, TxType

LEMMA TriggersAreRows ==
    ASSUME Types, NEW r \in Reqs, NEW x \in Ids, NEW D
    PROVE  /\ Triggered(r, x) \in Ids \cup {None}
           /\ TriggeredByDelete(x, D) \in Ids \cup {None}
           /\ CarriedByDelete(r, x) \in Nat
           /\ Cascaded(x) \subseteq Ids
<1>1. parent[x] \in Ids \cup {None} /\ time[x] \in Nat
  BY DEF Types
<1>2. Triggered(r, x) \in Ids \cup {None}
  BY <1>1 DEF Triggered
<1>3. TriggeredByDelete(x, D) \in Ids \cup {None}
  BY <1>1 DEF TriggeredByDelete
<1>4. CarriedByDelete(r, x) \in Nat
  BY <1>1, TimesAreNat DEF CarriedByDelete
<1> QED
  BY <1>2, <1>3, <1>4 DEF Cascaded

LEMMA NeedsFields ==
    ASSUME NEW t \in TxType, NEW x \in Ids \cup {None},
           NEW mode \in {"none", "key", "update", "delete"}
    PROVE  /\ Needs(t, x, mode) \in TxType
           /\ Needs(t, x, mode).needs = x /\ Needs(t, x, mode).mode = mode
           /\ Needs(t, x, mode).state = t.state /\ Needs(t, x, mode).value = t.value
           /\ Needs(t, x, mode).keyed = t.keyed /\ Needs(t, x, mode).stamped = t.stamped
           /\ Needs(t, x, mode).dying = t.dying /\ Needs(t, x, mode).left = t.left
BY DEF Needs, TxType

LEMMA BeginFacts ==
    ASSUME Types, NEW r \in Reqs, Begin(r)
    PROVE  /\ tx[r].state = "none" /\ UNCHANGED <<status, parent, time, log>>
           /\ \A q \in Reqs \ {r} : Kept(q)
           /\ job'[r].op \in AllOps
           /\ job'[r].target \in Known(TargetTable(job'[r].op))
           /\ job' \in [Reqs -> [op : AllOps \cup {"none"}, target : Ids \cup {None}]]
           /\ tx' = [tx EXCEPT ![r] = tx'[r]]
           /\ tx'[r] \in TxType
           /\ tx'[r].state = "open" /\ tx'[r].needs = job'[r].target
           /\ tx'[r].mode = FirstLock(job'[r].op) /\ tx'[r].value = Now(r)
           /\ tx'[r].keyed = {} /\ tx'[r].stamped = {}
           /\ tx'[r].dying = {} /\ tx'[r].left = {}
<1>0. PICK op \in Ops : \E x \in Known(TargetTable(op)) :
          /\ job' = [job EXCEPT ![r] = [op |-> op, target |-> x]]
          /\ tx' = [tx EXCEPT ![r] = [NoTx EXCEPT !.state = "open", !.needs = x,
                                        !.mode = FirstLock(op), !.value = Now(r)]]
  BY DEF Begin
<1>1. PICK x \in Known(TargetTable(op)) :
          /\ job' = [job EXCEPT ![r] = [op |-> op, target |-> x]]
          /\ tx' = [tx EXCEPT ![r] = [NoTx EXCEPT !.state = "open", !.needs = x,
                                        !.mode = FirstLock(op), !.value = Now(r)]]
  BY <1>0
<1>2. op \in AllOps /\ x \in Ids
  BY OpsAssumption DEF Known
<1>3. job'[r] = [op |-> op, target |-> x]
  BY <1>1 DEF Types
<1>4. /\ tx' = [tx EXCEPT ![r] = tx'[r]]
      /\ tx'[r] = [NoTx EXCEPT !.state = "open", !.needs = x,
                               !.mode = FirstLock(op), !.value = Now(r)]
  BY <1>1 DEF Types
<1>9. /\ tx'[r].state = "open" /\ tx'[r].needs = x
      /\ tx'[r].mode = FirstLock(op) /\ tx'[r].value = Now(r)
      /\ tx'[r].keyed = {} /\ tx'[r].stamped = {}
      /\ tx'[r].dying = {} /\ tx'[r].left = {}
  BY <1>4 DEF NoTx
<1>10. tx'[r] \in TxType
  <2>1. FirstLock(op) \in {"none", "key", "update", "delete"} /\ Now(r) \in Nat
    BY TimesAreNat DEF FirstLock
  <2> QED
    BY <1>2, <1>4, <2>1 DEF NoTx, TxType
<1>5. \A q \in Reqs \ {r} : Kept(q)
  BY <1>1, <1>4 DEF Types, Kept
<1>6. job' \in [Reqs -> [op : AllOps \cup {"none"}, target : Ids \cup {None}]]
  BY <1>1, <1>2 DEF Types
<1>7. tx[r].state = "none" /\ UNCHANGED <<status, parent, time, log>>
  BY DEF Begin, rowVars
<1>8. /\ job'[r].op \in AllOps /\ job'[r].op = op /\ job'[r].target = x
      /\ x \in Known(TargetTable(op))
  BY <1>2, <1>3
<1> QED
  BY <1>4, <1>5, <1>6, <1>7, <1>8, <1>9, <1>10

LEMMA CheckKeyFacts ==
    ASSUME Types, NEW r \in Reqs, CheckKey(r)
    PROVE  LET x == tx[r].needs
           IN  /\ Open(r) /\ tx[r].mode = "key" /\ x \in Ids /\ Blockers(r) = {}
               /\ UNCHANGED <<status, parent, time, log>>
               /\ \A q \in Reqs \ {r} : Kept(q)
               /\ tx' = [tx EXCEPT ![r] = tx'[r]] /\ tx'[r] \in TxType
               /\ \/ /\ Live(x) /\ job' = job
                     /\ tx'[r].state = "open" /\ tx'[r].value = tx[r].value
                     /\ tx'[r].keyed = {x} /\ tx'[r].stamped = tx[r].stamped
                     /\ tx'[r].dying = tx[r].dying /\ tx'[r].left = tx[r].left
                     /\ IF job[r].op = "checklist_post"
                        THEN tx'[r].needs = None /\ tx'[r].mode = "none"
                        ELSE tx'[r].needs = x /\ tx'[r].mode = "update"
                  \/ /\ ~ Live(x)
                     /\ job' = [job EXCEPT ![r] = NoJob]
                     /\ tx'[r] = RolledBack
<1> USE DEF Types
<1> DEFINE x == tx[r].needs
           t == [tx[r] EXCEPT !.keyed = {x}]
<1>0. tx[r] \in TxType
  OBVIOUS
<1>1. Open(r) /\ tx[r].mode = "key" /\ x \in Ids /\ Blockers(r) = {}
  BY <1>0 DEF CheckKey, Reaches, TxType
<1>2. CASE Live(x)
  <2>1. /\ job' = job
        /\ tx' = [tx EXCEPT ![r] = IF job[r].op = "checklist_post"
                                   THEN Needs(t, None, "none") ELSE Needs(t, x, "update")]
    BY <1>2 DEF CheckKey
  <2>2. /\ t \in TxType /\ t.state = "open" /\ t.value = tx[r].value /\ t.keyed = {x}
        /\ t.stamped = tx[r].stamped /\ t.dying = tx[r].dying /\ t.left = tx[r].left
    BY <1>0, <1>1 DEF TxType, Open
  <2>3. tx'[r] = IF job[r].op = "checklist_post"
                 THEN Needs(t, None, "none") ELSE Needs(t, x, "update")
    BY <2>1
  <2>4. tx' = [tx EXCEPT ![r] = tx'[r]] /\ \A q \in Reqs \ {r} : tx'[q] = tx[q]
    BY <2>1
  <2> HIDE DEF t
  <2>5. UNCHANGED <<status, parent, time, log>> /\ \A q \in Reqs \ {r} : Kept(q)
    BY <2>1, <2>4 DEF CheckKey, rowVars, Kept
  <2>6. PICK v \in TxType : v = t
    BY <2>2
  <2>7. CASE job[r].op = "checklist_post"
    <3>1. tx'[r] = Needs(v, None, "none")
      BY <2>3, <2>6, <2>7
    <3>2. /\ tx'[r] \in TxType /\ tx'[r].state = v.state /\ tx'[r].value = v.value
          /\ tx'[r].keyed = v.keyed /\ tx'[r].stamped = v.stamped
          /\ tx'[r].dying = v.dying /\ tx'[r].left = v.left
          /\ tx'[r].needs = None /\ tx'[r].mode = "none"
      BY <3>1, NeedsFields
    <3> QED
      BY <1>1, <1>2, <2>1, <2>2, <2>4, <2>5, <2>6, <2>7, <3>2
  <2>8. CASE job[r].op # "checklist_post"
    <3>1. PICK y \in Ids \cup {None} : y = x
      BY <1>1
    <3>2. tx'[r] = Needs(v, y, "update")
      BY <2>3, <2>6, <2>8, <3>1
    <3>3. /\ tx'[r] \in TxType /\ tx'[r].state = v.state /\ tx'[r].value = v.value
          /\ tx'[r].keyed = v.keyed /\ tx'[r].stamped = v.stamped
          /\ tx'[r].dying = v.dying /\ tx'[r].left = v.left
          /\ tx'[r].needs = y /\ tx'[r].mode = "update"
      BY <3>2, NeedsFields
    <3> QED
      BY <1>1, <1>2, <2>1, <2>2, <2>4, <2>5, <2>6, <2>8, <3>1, <3>3
  <2> QED
    BY <2>7, <2>8
<1>3. CASE ~ Live(x)
  <2>1. RollBack(r)
    BY <1>3 DEF CheckKey
  <2> QED
    BY <1>1, <1>3, <2>1, EmptyTx DEF CheckKey, rowVars, Kept, RollBack
<1> QED
  BY <1>2, <1>3

LEMMA UpdateRowFacts ==
    ASSUME Types, NEW r \in Reqs, UpdateRow(r)
    PROVE  LET x == tx[r].needs
           IN  /\ Open(r) /\ tx[r].mode = "update" /\ x \in Ids /\ Blockers(r) = {}
               /\ UNCHANGED <<status, parent, time, log, job>>
               /\ \A q \in Reqs \ {r} : Kept(q)
               /\ tx' = [tx EXCEPT ![r] = tx'[r]] /\ tx'[r] \in TxType
               /\ tx'[r].state = "open" /\ tx'[r].value = tx[r].value
               /\ tx'[r].keyed = tx[r].keyed
               /\ tx'[r].dying = tx[r].dying /\ tx'[r].left = tx[r].left
               /\ \/ /\ ~ Live(x) /\ tx'[r].stamped = tx[r].stamped
                     /\ tx'[r].needs = None /\ tx'[r].mode = "none"
                  \/ /\ Live(x) /\ tx'[r].stamped = tx[r].stamped \cup {x}
                     /\ tx'[r].needs = Triggered(r, x) /\ tx'[r].mode = "update"
<1> USE DEF Types
<1> DEFINE x == tx[r].needs
           t == [tx[r] EXCEPT !.stamped = @ \cup {x}]
<1>0. tx[r] \in TxType
  OBVIOUS
<1>1. Open(r) /\ tx[r].mode = "update" /\ x \in Ids /\ Blockers(r) = {}
  BY <1>0 DEF UpdateRow, Reaches, TxType
<1>2. tx' = [tx EXCEPT ![r] = IF Live(x) THEN Needs(t, Triggered(r, x), "update")
                              ELSE Needs(tx[r], None, "none")]
  BY DEF UpdateRow
<1>3. Triggered(r, x) \in Ids \cup {None}
  BY <1>1, TriggersAreRows
<1>4. /\ t \in TxType /\ t.state = tx[r].state /\ t.value = tx[r].value
      /\ t.keyed = tx[r].keyed /\ t.stamped = tx[r].stamped \cup {x}
      /\ t.dying = tx[r].dying /\ t.left = tx[r].left
  BY <1>0, <1>1 DEF TxType
<1> HIDE DEF t
<1>5. /\ tx' = [tx EXCEPT ![r] = tx'[r]] /\ \A q \in Reqs \ {r} : tx'[q] = tx[q]
      /\ tx'[r] = IF Live(x) THEN Needs(t, Triggered(r, x), "update")
                  ELSE Needs(tx[r], None, "none")
  BY <1>2
<1>6. UNCHANGED <<status, parent, time, log, job>>
  BY DEF UpdateRow, rowVars
<1>7. CASE ~ Live(x)
  <2>1. tx'[r] = Needs(tx[r], None, "none")
    BY <1>5, <1>7
  <2>2. /\ tx'[r] \in TxType /\ tx'[r].state = tx[r].state /\ tx'[r].value = tx[r].value
        /\ tx'[r].keyed = tx[r].keyed /\ tx'[r].stamped = tx[r].stamped
        /\ tx'[r].dying = tx[r].dying /\ tx'[r].left = tx[r].left
        /\ tx'[r].needs = None /\ tx'[r].mode = "none"
    BY <1>0, <2>1, NeedsFields
  <2> QED
    BY <1>1, <1>5, <1>6, <1>7, <2>2 DEF Kept, Open
<1>8. CASE Live(x)
  <2>1. tx'[r] = Needs(t, Triggered(r, x), "update") /\ t \in TxType
    BY <1>4, <1>5, <1>8
  <2>2. PICK v \in TxType, y \in Ids \cup {None} : v = t /\ y = Triggered(r, x)
    BY <1>3, <2>1
  <2>3. tx'[r] = Needs(v, y, "update")
    BY <2>1, <2>2
  <2>4. /\ tx'[r] \in TxType /\ tx'[r].state = v.state /\ tx'[r].value = v.value
        /\ tx'[r].keyed = v.keyed /\ tx'[r].stamped = v.stamped
        /\ tx'[r].dying = v.dying /\ tx'[r].left = v.left
        /\ tx'[r].needs = y /\ tx'[r].mode = "update"
    BY <2>3, NeedsFields
  <2> QED
    BY <1>1, <1>4, <1>5, <1>6, <1>8, <2>2, <2>4 DEF Kept, Open
<1> QED
  BY <1>7, <1>8

LEMMA DeleteRowFacts ==
    ASSUME Types, NEW r \in Reqs, DeleteRow(r)
    PROVE  LET x == tx[r].needs
               above == TriggeredByDelete(x, tx[r].dying \cup {x})
           IN  /\ Open(r) /\ tx[r].mode = "delete" /\ x \in Ids /\ Blockers(r) = {}
               /\ UNCHANGED <<status, parent, time, log, job>>
               /\ \A q \in Reqs \ {r} : Kept(q)
               /\ tx' = [tx EXCEPT ![r] = tx'[r]] /\ tx'[r] \in TxType
               /\ tx'[r].state = "open"
               /\ tx'[r].keyed = tx[r].keyed /\ tx'[r].stamped = tx[r].stamped
               /\ tx'[r].dying = IF Live(x) THEN tx[r].dying \cup {x} ELSE tx[r].dying
               /\ tx'[r].left = IF Live(x) THEN (tx[r].left \ {x}) \cup Cascaded(x)
                                ELSE tx[r].left \ {x}
               /\ \/ /\ Live(x) /\ above # None
                     /\ tx'[r].needs = above /\ tx'[r].mode = "update"
                     /\ tx'[r].value = CarriedByDelete(r, x)
                  \/ /\ Live(x) => above = None
                     /\ tx'[r].mode = "delete" /\ tx'[r].value = tx[r].value
                     /\ \/ tx'[r].left = {} /\ tx'[r].needs = None
                        \/ tx'[r].needs \in tx'[r].left
<1> DEFINE x == tx[r].needs
           t == IF Live(x)
                THEN [tx[r] EXCEPT !.dying = @ \cup {x}, !.left = (@ \ {x}) \cup Cascaded(x)]
                ELSE [tx[r] EXCEPT !.left = @ \ {x}]
           u == [t EXCEPT !.value = CarriedByDelete(r, x)]
           above == IF Live(x) THEN TriggeredByDelete(x, t.dying) ELSE None
<1> USE DEF Types
<1>0. tx[r] \in TxType
  OBVIOUS
<1>1. Open(r) /\ tx[r].mode = "delete" /\ x \in Ids /\ Blockers(r) = {}
  BY <1>0 DEF DeleteRow, Reaches, TxType
<1>2. \/ /\ above # None
         /\ tx' = [tx EXCEPT ![r] = Needs(u, above, "update")]
      \/ /\ above = None
         /\ \E y \in IF t.left = {} THEN {None} ELSE t.left :
               tx' = [tx EXCEPT ![r] = Needs(t, y, "delete")]
  BY DEF DeleteRow
<1>3. /\ t \in TxType /\ t.state = "open" /\ t.value = tx[r].value
      /\ t.keyed = tx[r].keyed /\ t.stamped = tx[r].stamped
      /\ t.dying = IF Live(x) THEN tx[r].dying \cup {x} ELSE tx[r].dying
      /\ t.left = IF Live(x) THEN (tx[r].left \ {x}) \cup Cascaded(x) ELSE tx[r].left \ {x}
  <2>1. Cascaded(x) \subseteq Ids
    BY DEF Cascaded
  <2>2. CASE Live(x)
    BY <1>0, <1>1, <2>1, <2>2 DEF TxType, Open
  <2>3. CASE ~ Live(x)
    BY <1>0, <1>1, <2>3 DEF TxType, Open
  <2> QED
    BY <2>2, <2>3
<1>4. /\ above = IF Live(x) THEN TriggeredByDelete(x, tx[r].dying \cup {x}) ELSE None
      /\ above \in Ids \cup {None} /\ CarriedByDelete(r, x) \in Nat
  <2>1. above = IF Live(x) THEN TriggeredByDelete(x, tx[r].dying \cup {x}) ELSE None
    BY <1>3
  <2>2. TriggeredByDelete(x, tx[r].dying \cup {x}) \in Ids \cup {None}
    BY <1>1, TriggersAreRows
  <2>3. CarriedByDelete(r, x) \in Nat
    BY <1>1, TriggersAreRows
  <2> HIDE DEF above
  <2> QED
    BY <2>1, <2>2, <2>3
<1>5. UNCHANGED <<status, parent, time, log, job>>
  BY DEF DeleteRow, rowVars
<1> HIDE DEF t, above
<1>6. CASE above # None /\ tx' = [tx EXCEPT ![r] = Needs(u, above, "update")]
  <2>1. /\ u \in TxType /\ u.state = t.state /\ u.value = CarriedByDelete(r, x)
        /\ u.keyed = t.keyed /\ u.stamped = t.stamped /\ u.dying = t.dying /\ u.left = t.left
    BY <1>3, <1>4 DEF TxType
  <2> HIDE DEF u
  <2>2. /\ tx' = [tx EXCEPT ![r] = tx'[r]] /\ \A q \in Reqs \ {r} : tx'[q] = tx[q]
        /\ tx'[r] = Needs(u, above, "update")
    BY <1>6
  <2>3. /\ tx'[r] \in TxType /\ tx'[r].state = "open"
        /\ tx'[r].needs = above /\ tx'[r].mode = "update" /\ tx'[r].value = CarriedByDelete(r, x)
        /\ tx'[r].keyed = tx[r].keyed /\ tx'[r].stamped = tx[r].stamped
        /\ tx'[r].dying = t.dying /\ tx'[r].left = t.left
    <3>1. PICK v \in TxType, y \in Ids \cup {None} : v = u /\ y = above
      BY <1>4, <2>1
    <3>2. tx'[r] = Needs(v, y, "update")
      BY <2>2, <3>1
    <3>3. /\ tx'[r] \in TxType /\ tx'[r].state = v.state
          /\ tx'[r].needs = y /\ tx'[r].mode = "update" /\ tx'[r].value = v.value
          /\ tx'[r].keyed = v.keyed /\ tx'[r].stamped = v.stamped
          /\ tx'[r].dying = v.dying /\ tx'[r].left = v.left
      BY <3>2, NeedsFields
    <3> QED
      BY <1>3, <2>1, <3>1, <3>3
  <2>4. Live(x) /\ above = TriggeredByDelete(x, tx[r].dying \cup {x})
    BY <1>4, <1>6
  <2> QED
    BY <1>1, <1>3, <1>5, <1>6, <2>2, <2>3, <2>4 DEF Kept
<1>7. CASE /\ above = None
           /\ \E y \in IF t.left = {} THEN {None} ELSE t.left :
                 tx' = [tx EXCEPT ![r] = Needs(t, y, "delete")]
  <2>0. PICK y \in IF t.left = {} THEN {None} ELSE t.left :
                 tx' = [tx EXCEPT ![r] = Needs(t, y, "delete")]
    BY <1>7
  <2>1. y \in Ids \cup {None}
    BY <1>3 DEF TxType
  <2>2. /\ tx' = [tx EXCEPT ![r] = tx'[r]] /\ \A q \in Reqs \ {r} : tx'[q] = tx[q]
        /\ tx'[r] = Needs(t, y, "delete")
    BY <2>0
  <2>3. /\ tx'[r] \in TxType /\ tx'[r].state = "open"
        /\ tx'[r].needs = y /\ tx'[r].mode = "delete" /\ tx'[r].value = tx[r].value
        /\ tx'[r].keyed = tx[r].keyed /\ tx'[r].stamped = tx[r].stamped
        /\ tx'[r].dying = t.dying /\ tx'[r].left = t.left
    BY <1>3, <2>1, <2>2, NeedsFields
  <2>6. \/ tx'[r].left = {} /\ tx'[r].needs = None
        \/ tx'[r].needs \in tx'[r].left
    BY <2>0, <2>3
  <2>7. Live(x) => TriggeredByDelete(x, tx[r].dying \cup {x}) = None
    BY <1>4, <1>7
  <2> QED
    BY <1>1, <1>3, <1>5, <2>2, <2>3, <2>6, <2>7 DEF Kept
<1> QED
  BY <1>2, <1>6, <1>7

LEMMA CommitFacts ==
    ASSUME Types, NEW r \in Reqs, Commit(r)
    PROVE  LET inserted == IF job[r].op \in Inserts THEN {r} ELSE {}
               changed == tx[r].stamped \cup tx[r].dying \cup inserted
           IN  /\ Open(r) /\ tx[r].needs = None /\ job' = job
               /\ \A q \in Reqs \ {r} : Kept(q)
               /\ tx' = [tx EXCEPT ![r] = Committed] /\ tx'[r] = Committed
               /\ status' = [x \in Ids |-> IF x \in tx[r].dying THEN "gone"
                                           ELSE IF x \in inserted THEN "live" ELSE status[x]]
               /\ parent' = [x \in Ids |-> IF x \in inserted THEN job[r].target ELSE parent[x]]
               /\ time' = [x \in Ids |-> IF x \in inserted THEN Now(r)
                                         ELSE IF x \in tx[r].stamped THEN tx[r].value ELSE time[x]]
               /\ log' = IF changed = {} THEN log ELSE Append(log, r)
BY DEF Types, Commit, Kept

LEMMA FailFacts ==
    ASSUME Types, NEW r \in Reqs, Fail(r)
    PROVE  /\ Open(r) /\ UNCHANGED <<status, parent, time, log>>
           /\ \A q \in Reqs \ {r} : Kept(q)
           /\ tx' = [tx EXCEPT ![r] = RolledBack] /\ tx'[r] = RolledBack
           /\ job' = [job EXCEPT ![r] = NoJob]
BY DEF Types, Fail, RollBack, rowVars, Kept

(* A step concerns one statement; the rows change by commits only.         *)
LEMMA Moves ==
    ASSUME Types, [Next]_vars, NEW r \in Reqs
    PROVE  Kept(r) \/ Act(r)
<1>1. CASE UNCHANGED vars
  BY <1>1 DEF vars, Kept
<1>2. ASSUME NEW q \in Reqs, Act(q), q # r
      PROVE  Kept(r)
  BY <1>2, BeginFacts, CheckKeyFacts, UpdateRowFacts, DeleteRowFacts, CommitFacts, FailFacts
     DEF Act
<1> QED
  BY <1>1, <1>2, Steps

LEMMA Rows ==
    ASSUME Types, [Next]_vars
    PROVE  \/ UNCHANGED <<status, parent, time, log>>
           \/ \E r \in Reqs : Commit(r)
<1>1. CASE UNCHANGED vars
  BY <1>1 DEF vars, rowVars
<1>2. ASSUME NEW q \in Reqs, Act(q)
      PROVE  UNCHANGED <<status, parent, time, log>> \/ Commit(q)
  BY <1>2, BeginFacts, CheckKeyFacts, UpdateRowFacts, DeleteRowFacts, FailFacts
     DEF Act
<1> QED
  BY <1>1, <1>2, Steps

-----------------------------------------------------------------------------
(* Types.                                                                  *)

LEMMA TypesInvariant ==
    ASSUME Types, [Next]_vars
    PROVE  Types'
<1> USE DEF Types
<1>1. CASE UNCHANGED vars
  BY <1>1 DEF vars, rowVars
<1>2. ASSUME NEW r \in Reqs, Act(r)
      PROVE  Types'
  <2>1. CASE Begin(r)
    BY <2>1, BeginFacts
  <2>2. CASE CheckKey(r)
    <3>1. NoJob \in [op : AllOps \cup {"none"}, target : Ids \cup {None}]
      BY DEF NoJob
    <3> QED
      BY <2>2, <3>1, CheckKeyFacts
  <2>3. CASE UpdateRow(r)
    BY <2>3, UpdateRowFacts
  <2>4. CASE DeleteRow(r)
    BY <2>4, DeleteRowFacts
  <2>5. CASE Commit(r)
    <3>1. Now(r) \in Nat /\ tx[r].value \in Nat /\ job[r].target \in Ids \cup {None}
      BY TimesAreNat DEF TxType
    <3>2. log' \in Seq(Reqs)
      <4>1. log' = log \/ log' = Append(log, r)
        BY <2>5, CommitFacts
      <4>2. log \in Seq(Reqs) /\ Append(log, r) \in Seq(Reqs)
        OBVIOUS
      <4> QED
        BY <4>1, <4>2
    <3>3. status' \in [Ids -> {"free", "live", "gone"}]
      BY <2>5, CommitFacts
    <3>4. parent' \in [Ids -> Ids \cup {None}]
      BY <2>5, <3>1, CommitFacts
    <3>5. time' \in [Ids -> Nat]
      BY <2>5, <3>1, CommitFacts
    <3>6. tx' \in [Reqs -> TxType] /\ job' = job
      BY <2>5, CommitFacts, EmptyTx
    <3> QED
      BY <3>2, <3>3, <3>4, <3>5, <3>6
  <2>6. CASE Fail(r)
    <3>1. NoJob \in [op : AllOps \cup {"none"}, target : Ids \cup {None}]
      BY DEF NoJob
    <3> QED
      BY <2>6, <3>1, FailFacts, EmptyTx
  <2> QED
    BY <1>2, <2>1, <2>2, <2>3, <2>4, <2>5, <2>6 DEF Act
<1> QED
  BY <1>1, <1>2, Steps

LEMMA EndedInvariant ==
    ASSUME Types, Ended, [Next]_vars
    PROVE  Ended'
<1>1. SUFFICES ASSUME NEW r \in Reqs, ~ Open(r)'
               PROVE  tx'[r] \in {NoTx, Committed, RolledBack}
  BY DEF Ended
<1>2. CASE Kept(r)
  BY <1>1, <1>2 DEF Ended, Kept, Open
<1>3. CASE Act(r)
  BY <1>1, <1>3, BeginFacts, CheckKeyFacts, UpdateRowFacts, DeleteRowFacts, CommitFacts, FailFacts
     DEF Act, Open
<1> QED
  BY <1>2, <1>3, Moves

-----------------------------------------------------------------------------
(* Rows that are there, and what they hang on.                             *)

(* An id that was given to a row keeps its table and its parent.           *)
LEMMA RowsStay ==
    ASSUME Types, Inserted, [Next]_vars, NEW x \in Ids, status[x] # "free"
    PROVE  /\ status'[x] # "free" /\ parent'[x] = parent[x] /\ TableOf(x)' = TableOf(x)
           /\ status'[x] = "live" => status[x] = "live"
<1>1. CASE UNCHANGED <<status, parent, time, log>>
  <2>1. x \in Reqs => Kept(x)
    <3>1. SUFFICES ASSUME x \in Reqs PROVE Kept(x)
      OBVIOUS
    <3>2. tx[x].state = "ok"
      BY <3>1 DEF Inserted
    <3> QED
      BY <3>1, <3>2, Moves, BeginFacts, CheckKeyFacts, UpdateRowFacts, DeleteRowFacts,
         CommitFacts, FailFacts DEF Act, Open
  <2>2. x \notin Stored => job'[x].op = job[x].op
    BY <2>1 DEF Ids, Kept
  <2> QED
    BY <1>1, <2>2 DEF TableOf
<1>2. ASSUME NEW r \in Reqs, Commit(r)
      PROVE  /\ status'[x] # "free" /\ parent'[x] = parent[x] /\ TableOf(x)' = TableOf(x)
             /\ status'[x] = "live" => status[x] = "live"
  <2>1. Open(r) /\ job' = job
    BY <1>2, CommitFacts
  <2>2. status[r] = "free"
    BY <2>1 DEF Inserted, Open, Types, Ids
  <2>3. x # r
    BY <2>2
  <2>4. TableOf(x)' = TableOf(x)
    BY <2>1 DEF TableOf
  <2> QED
    BY <1>2, <2>3, <2>4, CommitFacts DEF Types
<1> QED
  BY <1>1, <1>2, Rows

(* A statement that is open, or has committed, after a step began with    *)
(* that step or keeps its operation.                                       *)
LEMMA SameJob ==
    ASSUME Types, [Next]_vars, NEW r \in Reqs, tx'[r].state \in {"open", "ok"}
    PROVE  \/ Kept(r)
           \/ Begin(r)
           \/ /\ Open(r) /\ job'[r] = job[r]
              /\ CheckKey(r) \/ UpdateRow(r) \/ DeleteRow(r) \/ Commit(r)
<1>1. CASE CheckKey(r)
  <2>1. tx'[r].state # "failed"
    OBVIOUS
  <2> QED
    BY <1>1, <2>1, CheckKeyFacts, EmptyTx
<1>2. CASE Fail(r)
  BY <1>2, FailFacts, EmptyTx
<1> QED
  BY <1>1, <1>2, Moves, UpdateRowFacts, DeleteRowFacts, CommitFacts DEF Act

LEMMA TargetsInvariant ==
    ASSUME Types, Targets, Inserted, [Next]_vars
    PROVE  Targets'
<1>1. SUFFICES ASSUME NEW r \in Reqs, tx'[r].state \in {"open", "ok"},
                      NEW x, x = job'[r].target
               PROVE  /\ job'[r].op \in AllOps
                      /\ x \in Ids /\ status'[x] # "free"
                      /\ TableOf(x)' = TargetTable(job'[r].op)
  BY DEF Targets, Known
<1>2. /\ job'[r].op \in AllOps
      /\ x \in Ids /\ status[x] # "free" /\ TableOf(x) = TargetTable(job'[r].op)
  <2>1. CASE Begin(r)
    BY <1>1, <2>1, BeginFacts DEF Known
  <2>2. CASE tx[r].state \in {"open", "ok"} /\ job'[r] = job[r]
    BY <1>1, <2>2 DEF Targets, Known
  <2> QED
    BY <1>1, <2>1, <2>2, SameJob DEF Kept, Open
<1> QED
  BY <1>2, RowsStay

LEMMA InsertedInvariant ==
    ASSUME Types, Inserted, Held, [Next]_vars
    PROVE  Inserted'
<1>1. SUFFICES ASSUME NEW r \in Reqs, status'[r] # "free"
               PROVE  tx'[r].state = "ok" /\ job'[r].op \in Inserts
  BY DEF Inserted
<1>2. CASE status[r] # "free"
  <2>1. tx[r].state = "ok" /\ job[r].op \in Inserts
    BY <1>2 DEF Inserted
  <2>2. Kept(r)
    BY <2>1, Moves, BeginFacts, CheckKeyFacts, UpdateRowFacts, DeleteRowFacts,
       CommitFacts, FailFacts DEF Act, Open
  <2> QED
    BY <2>1, <2>2 DEF Kept
<1>3. CASE status[r] = "free"
  <2>1. PICK q \in Reqs : Commit(q)
    BY <1>1, <1>3, Rows
  <2>2. r \notin tx[q].dying
    BY <1>3 DEF Held, Live
  <2>3. (r = q /\ job[q].op \in Inserts) \/ r \in tx[q].dying
    BY <1>1, <1>3, <2>1, CommitFacts DEF Types, Ids
  <2>4. CASE r = q /\ job[q].op \in Inserts
    BY <2>1, <2>4, CommitFacts, EmptyTx
  <2> QED
    BY <2>2, <2>3, <2>4
<1> QED
  BY <1>2, <1>3

LEMMA TreesInvariant ==
    ASSUME Types, Inserted, Held, Targets, Trees, [Next]_vars
    PROVE  Trees'
<1>1. SUFFICES ASSUME NEW x \in Ids, status'[x] # "free"
               PROVE  \/ TableOf(x)' = "notes" /\ parent'[x] = None
                      \/ \E y \in Ids :
                            /\ parent'[x] = y /\ status'[y] # "free"
                            /\ \/ TableOf(x)' \in {"checklists", "attachments"} /\ TableOf(y)' = "notes"
                               \/ TableOf(x)' = "checklist_items" /\ TableOf(y)' = "checklists"
  BY DEF Trees, Known
<1>2. CASE status[x] # "free"
  <2>1. parent'[x] = parent[x] /\ TableOf(x)' = TableOf(x)
    BY <1>2, RowsStay
  <2>2. CASE TableOf(x) = "notes" /\ parent[x] = None
    BY <2>1, <2>2
  <2>3. CASE \E y \in Ids :
               /\ parent[x] = y /\ status[y] # "free"
               /\ \/ TableOf(x) \in {"checklists", "attachments"} /\ TableOf(y) = "notes"
                  \/ TableOf(x) = "checklist_items" /\ TableOf(y) = "checklists"
    BY <2>1, <2>3, RowsStay
  <2> QED
    BY <1>2, <2>2, <2>3 DEF Trees, Known
<1>3. CASE status[x] = "free"
  <2>1. PICK q \in Reqs : Commit(q)
    BY <1>1, <1>3, Rows
  <2>2. x \notin tx[q].dying
    BY <1>3 DEF Held, Live
  <2>3. x = q /\ job[q].op \in Inserts /\ job' = job /\ Open(q)
    BY <1>1, <1>3, <2>1, <2>2, CommitFacts DEF Types
  <2>4. PICK y \in Ids : /\ y = job[q].target
                         /\ status[y] # "free" /\ TableOf(y) = TargetTable(job[q].op)
    BY <2>3 DEF Targets, Known, Open
  <2>5. parent'[x] = y
    BY <2>1, <2>3, <2>4, CommitFacts
  <2>6. status'[y] # "free" /\ TableOf(y)' = TableOf(y)
    BY <2>4, RowsStay
  <2>7. TableOf(x)' = InsertTable(job[q].op)
    BY <2>3, IdsAssumption DEF TableOf
  <2>8. \/ InsertTable(job[q].op) \in {"checklists", "attachments"} /\ TargetTable(job[q].op) = "notes"
        \/ InsertTable(job[q].op) = "checklist_items" /\ TargetTable(job[q].op) = "checklists"
    BY <2>3 DEF InsertTable, TargetTable, Inserts
  <2> QED
    BY <2>4, <2>5, <2>6, <2>7, <2>8
<1> QED
  BY <1>2, <1>3

(* A transaction that is about to commit has nothing left to delete; an   *)
(* INSERT holds its target, and only a DELETE deletes.                     *)
LEMMA AtCommit ==
    ASSUME Types, Targets, Held, InsertShape, UpdateShape, DeleteShape,
           NEW r \in Reqs, Open(r), tx[r].needs = None
    PROVE  /\ tx[r].left = {}
           /\ job[r].op \in AllOps /\ job[r].target \in Ids
           /\ job[r].op \in Inserts => Live(job[r].target)
           /\ job[r].op \notin Deletes => tx[r].dying = {}
<1>1. job[r].op \in AllOps /\ job[r].target \in Ids /\ job[r].target # None
  BY IdsAssumption DEF Targets, Known, Open
<1>2. CASE job[r].op \in Inserts
  <2>1. tx[r].keyed = {job[r].target} /\ tx[r].dying = {} /\ tx[r].left = {}
    BY <1>1, <1>2 DEF InsertShape
  <2>2. Live(job[r].target)
    BY <2>1 DEF Held
  <2>3. job[r].op \notin Deletes
    BY <1>2 DEF Inserts, Deletes
  <2> QED
    BY <1>1, <2>1, <2>2
<1>3. CASE job[r].op \in Updates
  <2>1. job[r].op \notin Deletes /\ job[r].op \notin Inserts
    BY <1>3 DEF Inserts, Deletes, Updates
  <2> QED
    BY <1>1, <1>3, <2>1 DEF UpdateShape
<1>4. CASE job[r].op \in Deletes
  <2>1. job[r].op \notin Inserts
    BY <1>4 DEF Inserts, Deletes
  <2> QED
    BY <1>1, <1>4, <2>1 DEF DeleteShape
<1> QED
  BY <1>1, <1>2, <1>3, <1>4 DEF AllOps

LEMMA NoOrphanRowInvariant ==
    ASSUME Types, Targets, Inserted, Trees, NoOrphanRow, Held,
           InsertShape, UpdateShape, DeleteShape, Cascades, [Next]_vars
    PROVE  NoOrphanRow'
<1>1. CASE UNCHANGED <<status, parent, time, log>>
  BY <1>1 DEF NoOrphanRow, Live
<1>2. ASSUME NEW r \in Reqs, Commit(r), NEW x \in Ids,
             status'[x] = "live", parent'[x] # None
      PROVE  status'[parent'[x]] = "live"
  <2>1. /\ Open(r) /\ tx[r].needs = None
        /\ tx[r].left = {} /\ job[r].target \in Ids
        /\ job[r].op \in Inserts => Live(job[r].target)
        /\ job[r].op \notin Deletes => tx[r].dying = {}
    BY <1>2, CommitFacts, AtCommit
  <2>2. x \notin tx[r].dying
    BY <1>2, CommitFacts
  <2>3. CASE status[x] # "free"
    <3>1. status[x] = "live" /\ parent'[x] = parent[x] /\ x # None
      BY <1>2, <2>3, RowsStay, IdsAssumption
    <3>2. Live(x) /\ Live(parent[x]) /\ parent[x] \in Ids
      BY <1>2, <3>1 DEF NoOrphanRow, Types, Live
    <3>3. parent[x] \notin tx[r].dying
      BY <2>1, <2>2, <3>2 DEF Cascades
    <3>4. status'[parent[x]] = "live"
      BY <1>2, <3>2, <3>3, CommitFacts DEF Live
    <3> QED
      BY <3>1, <3>4
  <2>4. CASE status[x] = "free"
    <3>1. x = r /\ job[r].op \in Inserts
      BY <1>2, <2>4, CommitFacts DEF Types
    <3>2. parent'[x] = job[r].target /\ Live(job[r].target)
      BY <1>2, <2>1, <3>1, CommitFacts
    <3>3. tx[r].dying = {}
      BY <2>1, <3>1 DEF Inserts, Deletes
    <3> QED
      BY <1>2, <2>1, <3>2, <3>3, CommitFacts DEF Live
  <2> QED
    BY <2>3, <2>4
<1>3. ASSUME NEW r \in Reqs, Commit(r)
      PROVE  NoOrphanRow'
  <2>1. SUFFICES ASSUME NEW x \in Ids, status'[x] = "live", parent'[x] # None
                 PROVE  status'[parent'[x]] = "live"
    BY DEF NoOrphanRow, Live
  <2> QED
    BY <1>2, <1>3, <2>1
<1> QED
  BY <1>1, <1>3, Rows

-----------------------------------------------------------------------------
(* Locks.                                                                  *)

(* A lock is taken only when no other transaction holds one against it.   *)
LEMMA LockIsFree ==
    ASSUME Types, Ended, NEW r \in Reqs, NEW q \in Reqs, q # r, Open(r), Blockers(r) = {}
    PROVE  /\ tx[r].mode = "key" => tx[r].needs \notin tx[q].dying
           /\ tx[r].mode = "update" => tx[r].needs \notin tx[q].dying \cup tx[q].stamped
           /\ tx[r].mode = "delete" =>
                 tx[r].needs \notin tx[q].dying \cup tx[q].stamped \cup tx[q].keyed
<1>1. CASE Open(q)
  <2>1. tx[r].needs \notin Conflicting(q, tx[r].mode)
    BY <1>1 DEF Blockers
  <2> QED
    BY <2>1 DEF Conflicting
<1>2. CASE ~ Open(q)
  <2>1. tx[q].dying = {} /\ tx[q].stamped = {} /\ tx[q].keyed = {}
    BY <1>2, EmptyTx DEF Ended
  <2> QED
    BY <2>1
<1> QED
  BY <1>1, <1>2

(* What a step adds to the rows that its statement holds.                  *)
LEMMA Takes ==
    ASSUME Types, NEW r \in Reqs, Act(r)
    PROVE  \/ tx'[r].keyed = {} /\ tx'[r].stamped = {} /\ tx'[r].dying = {}
           \/ /\ Open(r) /\ Blockers(r) = {} /\ tx[r].needs \in Ids
              /\ UNCHANGED <<status, parent, time, log>>
              /\ \/ /\ tx[r].mode = "key" /\ Live(tx[r].needs)
                    /\ tx'[r].keyed = {tx[r].needs}
                    /\ tx'[r].stamped = tx[r].stamped /\ tx'[r].dying = tx[r].dying
                 \/ /\ tx[r].mode = "update"
                    /\ \/ tx'[r].stamped = tx[r].stamped
                       \/ tx'[r].stamped = tx[r].stamped \cup {tx[r].needs} /\ Live(tx[r].needs)
                    /\ tx'[r].keyed = tx[r].keyed /\ tx'[r].dying = tx[r].dying
                 \/ /\ tx[r].mode = "delete"
                    /\ \/ tx'[r].dying = tx[r].dying
                       \/ tx'[r].dying = tx[r].dying \cup {tx[r].needs} /\ Live(tx[r].needs)
                    /\ tx'[r].keyed = tx[r].keyed /\ tx'[r].stamped = tx[r].stamped
<1>1. CASE Begin(r)
  BY <1>1, BeginFacts
<1>2. CASE CheckKey(r)
  BY <1>2, CheckKeyFacts, EmptyTx
<1>3. CASE UpdateRow(r)
  BY <1>3, UpdateRowFacts
<1>4. CASE DeleteRow(r)
  BY <1>4, DeleteRowFacts
<1>5. CASE Commit(r)
  BY <1>5, CommitFacts, EmptyTx
<1>6. CASE Fail(r)
  BY <1>6, FailFacts, EmptyTx
<1> QED
  BY <1>1, <1>2, <1>3, <1>4, <1>5, <1>6 DEF Act

LEMMA ApartInvariant ==
    ASSUME Types, Ended, Apart, [Next]_vars
    PROVE  Apart'
<1>1. SUFFICES ASSUME NEW q \in Reqs, NEW r \in Reqs, q # r
               PROVE  /\ tx'[q].dying \cap (tx'[r].keyed \cup tx'[r].stamped \cup tx'[r].dying) = {}
                      /\ tx'[q].stamped \cap tx'[r].stamped = {}
  BY DEF Apart
<1>2. /\ tx[q].dying \cap (tx[r].keyed \cup tx[r].stamped \cup tx[r].dying) = {}
      /\ tx[r].dying \cap (tx[q].keyed \cup tx[q].stamped \cup tx[q].dying) = {}
      /\ tx[q].stamped \cap tx[r].stamped = {}
  BY <1>1 DEF Apart
<1>3. CASE Kept(q) /\ Kept(r)
  BY <1>2, <1>3 DEF Kept
<1>4. CASE Act(q) /\ Kept(r)
  BY <1>1, <1>2, <1>4, Takes, LockIsFree DEF Kept
<1>5. CASE Kept(q) /\ Act(r)
  BY <1>1, <1>2, <1>5, Takes, LockIsFree DEF Kept
<1>6. Kept(q) \/ Kept(r)
  <2>1. CASE Act(q)
    BY <1>1, <2>1, BeginFacts, CheckKeyFacts, UpdateRowFacts, DeleteRowFacts, CommitFacts, FailFacts
       DEF Act
  <2> QED
    BY <2>1, Moves
<1> QED
  BY <1>3, <1>4, <1>5, <1>6, Moves

LEMMA HeldInvariant ==
    ASSUME Types, Ended, Inserted, Apart, Held, [Next]_vars
    PROVE  Held'
<1>1. SUFFICES ASSUME NEW r \in Reqs, NEW x,
                      x \in tx'[r].keyed \cup tx'[r].stamped \cup tx'[r].dying
               PROVE  x # None /\ status'[x] = "live"
  BY DEF Held, Live
<1>2. CASE Kept(r)
  <2>1. x \in tx[r].keyed \cup tx[r].stamped \cup tx[r].dying /\ Live(x)
    BY <1>1, <1>2 DEF Kept, Held
  <2>2. Open(r) /\ x \in Ids
    <3>1. Open(r)
      BY <2>1, EmptyTx DEF Ended
    <3>2. tx[r] \in TxType
      BY DEF Types
    <3> QED
      BY <2>1, <3>1, <3>2 DEF TxType
  <2>3. CASE UNCHANGED <<status, parent, time, log>>
    BY <2>1, <2>3 DEF Live
  <2>4. ASSUME NEW q \in Reqs, Commit(q)
        PROVE  x # None /\ status'[x] = "live"
    <3>1. q # r
      BY <1>2, <2>2, <2>4, CommitFacts, EmptyTx DEF Kept, Open
    <3>2. x \notin tx[q].dying
      BY <2>1, <3>1 DEF Apart
    <3> QED
      BY <2>1, <2>2, <2>4, <3>2, CommitFacts DEF Live
  <2> QED
    BY <2>3, <2>4, Rows
<1>3. CASE Act(r)
  <2>1. /\ UNCHANGED status
        /\ x \in tx[r].keyed \cup tx[r].stamped \cup tx[r].dying \/ Live(x)
    BY <1>1, <1>3, Takes
  <2> QED
    BY <2>1 DEF Held, Live
<1> QED
  BY <1>2, <1>3, Moves

LEMMA NeedsKnownInvariant ==
    ASSUME Types, Targets, Inserted, Trees, NeedsKnown, Cascades, [Next]_vars
    PROVE  NeedsKnown'
<1>1. SUFFICES ASSUME NEW r \in Reqs, NEW y, y = tx'[r].needs, y # None
               PROVE  status'[y] # "free"
  BY DEF NeedsKnown
<1>2. y \in Ids
  <2>1. tx'[r] \in TxType
    BY TypesInvariant DEF Types
  <2> QED
    BY <1>1, <2>1 DEF TxType
<1>3. SUFFICES status[y] # "free"
  BY <1>2, RowsStay
<1>4. CASE Kept(r)
  BY <1>1, <1>4 DEF Kept, NeedsKnown
<1>5. CASE Begin(r)
  BY <1>1, <1>5, BeginFacts DEF Known
<1>6. CASE CheckKey(r)
  BY <1>1, <1>6, CheckKeyFacts, EmptyTx DEF NeedsKnown
<1>7. ASSUME NEW x \in Ids, status[x] # "free", y = parent[x]
      PROVE  status[y] # "free"
  BY <1>1, <1>7 DEF Trees, Known
<1>8. CASE UpdateRow(r)
  <2>1. /\ tx[r].needs \in Ids /\ status[tx[r].needs] # "free"
        /\ y = Triggered(r, tx[r].needs)
    BY <1>1, <1>8, UpdateRowFacts, IdsAssumption DEF NeedsKnown
  <2>2. y = parent[tx[r].needs]
    BY <1>1, <2>1 DEF Triggered
  <2> QED
    BY <1>7, <2>1, <2>2
<1>9. CASE DeleteRow(r)
  <2> DEFINE x == tx[r].needs
  <2>1. x \in Ids /\ status[x] # "free"
    BY <1>9, DeleteRowFacts, IdsAssumption DEF NeedsKnown
  <2>2. \/ y = TriggeredByDelete(x, tx[r].dying \cup {x})
        \/ y \in (tx[r].left \cup Cascaded(x))
    BY <1>1, <1>9, DeleteRowFacts
  <2>3. CASE y = TriggeredByDelete(x, tx[r].dying \cup {x})
    <3>1. y = parent[x]
      BY <1>1, <2>3 DEF TriggeredByDelete
    <3> QED
      BY <1>7, <2>1, <3>1
  <2>4. CASE y \in tx[r].left
    BY <2>4 DEF Cascades
  <2>5. CASE y \in Cascaded(x)
    BY <2>5 DEF Cascaded, Live
  <2> QED
    BY <2>2, <2>3, <2>4, <2>5
<1>10. CASE Commit(r) \/ Fail(r)
  BY <1>1, <1>10, CommitFacts, FailFacts, EmptyTx
<1> QED
  BY <1>4, <1>5, <1>6, <1>8, <1>9, <1>10, Moves DEF Act

-----------------------------------------------------------------------------
(* What a transaction looks like on its way.                               *)

LEMMA Modes ==
    ASSUME Types, Targets, InsertShape, UpdateShape, DeleteShape, NEW r \in Reqs, Open(r)
    PROVE  /\ job[r].op \in AllOps /\ job[r].target \in Ids /\ job[r].target # None
           /\ status[job[r].target] # "free" /\ TableOf(job[r].target) = TargetTable(job[r].op)
           /\ tx[r].mode = "key" => job[r].op \in Inserts
           /\ tx[r].mode = "delete" => job[r].op \in Deletes
           /\ job[r].op \in Inserts => job[r].op \notin Deletes \cup Updates
           /\ job[r].op \in Updates => job[r].op \notin Deletes
<1>1. /\ job[r].op \in AllOps /\ job[r].target \in Ids /\ job[r].target # None
      /\ status[job[r].target] # "free" /\ TableOf(job[r].target) = TargetTable(job[r].op)
  BY IdsAssumption DEF Targets, Known, Open
<1>2. /\ job[r].op \in Inserts => job[r].op \notin Deletes \cup Updates
      /\ job[r].op \in Updates => job[r].op \notin Deletes
  BY DEF Inserts, Deletes, Updates
<1>3. /\ tx[r].mode = "key" => job[r].op \in Inserts
      /\ tx[r].mode = "delete" => job[r].op \in Deletes
  BY <1>1 DEF AllOps, InsertShape, UpdateShape, DeleteShape
<1> QED
  BY <1>1, <1>2, <1>3

LEMMA FirstLocks ==
    ASSUME NEW op \in AllOps
    PROVE  /\ op \in Inserts => FirstLock(op) = "key"
           /\ op \in Updates => FirstLock(op) = "update"
           /\ op \in Deletes => FirstLock(op) = "delete"
           /\ FirstLock(op) = "key" => op \in Inserts
           /\ FirstLock(op) = "update" => op \in Updates
BY DEF AllOps, Inserts, Updates, Deletes, FirstLock

(* No row hangs on a leaf, and a leaf hangs on a row of another table.     *)
LEMMA LeafFacts ==
    ASSUME Types, Trees, NEW x \in Ids, status[x] # "free", TableOf(x) \in Leaves
    PROVE  /\ Cascaded(x) = {}
           /\ parent[x] \in Ids /\ parent[x] # None /\ parent[x] # x
           /\ status[parent[x]] # "free" /\ TableOf(parent[x]) \in {"notes", "checklists"}
<1>1. /\ parent[x] \in Ids /\ status[parent[x]] # "free"
      /\ TableOf(parent[x]) \in {"notes", "checklists"}
  BY DEF Trees, Known, Leaves
<1>2. ASSUME NEW y \in Ids, Live(y), parent[y] = x
      PROVE  FALSE
  <2>1. TableOf(x) \in {"notes", "checklists"}
    BY <1>2, IdsAssumption DEF Trees, Known, Live
  <2> QED
    BY <2>1 DEF Leaves
<1> QED
  BY <1>1, <1>2, IdsAssumption DEF Cascaded, Leaves

(* Where a DELETE meets a row: its target first, then what hangs on it.   *)
LEMMA DeletePlace ==
    ASSUME Types, Targets, Trees, InsertShape, UpdateShape, DeleteShape, Cascades,
           NeedsKnown, NEW r \in Reqs, DeleteRow(r), NEW x, x = tx[r].needs
    PROVE  /\ x \in Ids /\ x # None /\ status[x] # "free"
           /\ job[r].op \in Deletes /\ tx[r].keyed = {} /\ tx[r].stamped = {}
           /\ \/ x = job[r].target /\ tx[r].dying = {} /\ tx[r].left = {}
              \/ x \in tx[r].left /\ parent[x] \in tx[r].dying
           /\ Live(x) /\ TriggeredByDelete(x, tx[r].dying \cup {x}) # None =>
                 /\ x = job[r].target /\ tx[r].dying = {} /\ tx[r].left = {}
                 /\ TableOf(x) \in Leaves /\ TargetTable(job[r].op) \in Leaves
                 /\ TriggeredByDelete(x, tx[r].dying \cup {x}) = parent[x]
           /\ Live(x) /\ TargetTable(job[r].op) \in Leaves =>
                 TriggeredByDelete(x, tx[r].dying \cup {x}) # None
<1>1. Open(r) /\ tx[r].mode = "delete" /\ x \in Ids /\ x # None
  BY DeleteRowFacts, IdsAssumption
<1>2. status[x] # "free"
  BY <1>1 DEF NeedsKnown
<1>3. job[r].op \in Deletes /\ TableOf(job[r].target) = TargetTable(job[r].op)
  BY <1>1, Modes
<1>4. /\ tx[r].keyed = {} /\ tx[r].stamped = {}
      /\ \/ x = job[r].target /\ tx[r].dying = {} /\ tx[r].left = {}
         \/ x \in tx[r].left /\ tx[r].dying # {}
      /\ TargetTable(job[r].op) \in Leaves => tx[r].dying = {}
  BY <1>1, <1>3 DEF DeleteShape
<1>5. x \in tx[r].left => parent[x] \in tx[r].dying
  BY DEF Cascades
<1>6. ASSUME TriggeredByDelete(x, tx[r].dying \cup {x}) # None
      PROVE  /\ x \notin tx[r].left
             /\ TableOf(x) \in Leaves
             /\ TriggeredByDelete(x, tx[r].dying \cup {x}) = parent[x]
  BY <1>5, <1>6 DEF TriggeredByDelete, Leaves
<1>7. ASSUME TargetTable(job[r].op) \in Leaves
      PROVE  TriggeredByDelete(x, tx[r].dying \cup {x}) # None
  <2>1. x = job[r].target /\ tx[r].dying = {} /\ TableOf(x) \in Leaves
    BY <1>3, <1>4, <1>7
  <2>2. parent[x] # None /\ parent[x] # x
    BY <1>1, <1>2, <2>1, LeafFacts
  <2> QED
    BY <2>1, <2>2 DEF TriggeredByDelete, Leaves
<1> QED
  BY <1>1, <1>2, <1>3, <1>4, <1>5, <1>6, <1>7

LEMMA InsertShapeInvariant ==
    ASSUME Types, Targets, InsertShape, UpdateShape, DeleteShape, [Next]_vars
    PROVE  InsertShape'
<1>1. SUFFICES ASSUME NEW r \in Reqs, tx'[r].state = "open", job'[r].op \in Inserts
               PROVE  /\ tx'[r].dying = {} /\ tx'[r].left = {}
                      /\ tx'[r].mode \in {"key", "update", "none"}
                      /\ tx'[r].mode = "key" =>
                            tx'[r].needs = job'[r].target /\ tx'[r].keyed = {} /\ tx'[r].stamped = {}
                      /\ tx'[r].mode # "key" => tx'[r].keyed = {job'[r].target}
  BY DEF InsertShape, Open
<1>2. CASE Kept(r)
  BY <1>1, <1>2 DEF Kept, InsertShape, Open
<1>3. CASE Begin(r)
  BY <1>1, <1>3, BeginFacts, FirstLocks
<1>4. ASSUME Open(r), job'[r] = job[r]
      PROVE  /\ tx[r].dying = {} /\ tx[r].left = {}
             /\ tx[r].mode \in {"key", "update", "none"}
             /\ tx[r].mode = "key" =>
                   tx[r].needs = job[r].target /\ tx[r].keyed = {} /\ tx[r].stamped = {}
             /\ tx[r].mode # "key" => tx[r].keyed = {job[r].target}
  BY <1>1, <1>4 DEF InsertShape
<1>5. CASE Open(r) /\ job'[r] = job[r] /\ CheckKey(r)
  BY <1>1, <1>4, <1>5, CheckKeyFacts, EmptyTx
<1>6. CASE Open(r) /\ job'[r] = job[r] /\ UpdateRow(r)
  BY <1>1, <1>4, <1>6, UpdateRowFacts
<1>7. CASE Open(r) /\ job'[r] = job[r] /\ DeleteRow(r)
  BY <1>1, <1>4, <1>7, DeleteRowFacts
<1>8. CASE Commit(r)
  BY <1>1, <1>8, CommitFacts, EmptyTx
<1> QED
  BY <1>1, <1>2, <1>3, <1>5, <1>6, <1>7, <1>8, SameJob

LEMMA UpdateShapeInvariant ==
    ASSUME Types, Targets, InsertShape, UpdateShape, DeleteShape, [Next]_vars
    PROVE  UpdateShape'
<1>1. SUFFICES ASSUME NEW r \in Reqs, tx'[r].state = "open", job'[r].op \in Updates
               PROVE  /\ tx'[r].keyed = {} /\ tx'[r].dying = {} /\ tx'[r].left = {}
                      /\ tx'[r].mode \in {"update", "none"}
  BY DEF UpdateShape, Open
<1>2. CASE Kept(r)
  BY <1>1, <1>2 DEF Kept, UpdateShape, Open
<1>3. CASE Begin(r)
  BY <1>1, <1>3, BeginFacts, FirstLocks
<1>4. ASSUME Open(r), job'[r] = job[r]
      PROVE  /\ tx[r].keyed = {} /\ tx[r].dying = {} /\ tx[r].left = {}
             /\ tx[r].mode \in {"update", "none"}
  BY <1>1, <1>4 DEF UpdateShape
<1>5. CASE Open(r) /\ job'[r] = job[r] /\ CheckKey(r)
  BY <1>4, <1>5, CheckKeyFacts
<1>6. CASE Open(r) /\ job'[r] = job[r] /\ UpdateRow(r)
  BY <1>4, <1>6, UpdateRowFacts
<1>7. CASE Open(r) /\ job'[r] = job[r] /\ DeleteRow(r)
  BY <1>4, <1>7, DeleteRowFacts
<1>8. CASE Commit(r)
  BY <1>1, <1>8, CommitFacts, EmptyTx
<1> QED
  BY <1>1, <1>2, <1>3, <1>5, <1>6, <1>7, <1>8, SameJob

LEMMA DeleteShapeInvariant ==
    ASSUME Types, Targets, Trees, InsertShape, UpdateShape, DeleteShape, Cascades, NeedsKnown,
           [Next]_vars
    PROVE  DeleteShape'
<1> DEFINE Q(t, j) ==
        /\ t.keyed = {}
        /\ t.mode \in {"delete", "update", "none"}
        /\ t.mode = "delete" =>
              /\ t.stamped = {}
              /\ t.needs = None => t.left = {}
              /\ t.needs # None => t.needs \in t.left \/ (t.needs = j.target /\ t.dying = {})
              /\ TargetTable(j.op) \in Leaves => t.dying = {}
        /\ t.mode # "delete" =>
              /\ t.left = {} /\ t.dying = {j.target}
              /\ TargetTable(j.op) \in Leaves
        /\ t.dying = {} => t.left = {}
        /\ t.dying # {} => j.target \in t.dying
<1>1. SUFFICES ASSUME NEW r \in Reqs, tx'[r].state = "open", job'[r].op \in Deletes
               PROVE  Q(tx'[r], job'[r])
  BY DEF DeleteShape, Open
<1>2. ASSUME Open(r), job'[r] = job[r]
      PROVE  Q(tx[r], job[r])
  BY <1>1, <1>2 DEF DeleteShape
<1>3. CASE Kept(r)
  BY <1>1, <1>2, <1>3 DEF Kept, Open
<1>4. CASE Begin(r)
  BY <1>1, <1>4, BeginFacts, FirstLocks
<1>5. CASE Open(r) /\ job'[r] = job[r] /\ CheckKey(r)
  BY <1>2, <1>5, CheckKeyFacts
<1>6. CASE Open(r) /\ job'[r] = job[r] /\ UpdateRow(r)
  BY <1>2, <1>6, UpdateRowFacts
<1>7. CASE Open(r) /\ job'[r] = job[r] /\ DeleteRow(r)
  <2>1. PICK x \in Ids : x = tx[r].needs
    BY <1>7, DeleteRowFacts
  <2> DEFINE above == TriggeredByDelete(x, tx[r].dying \cup {x})
  <2>2. /\ x # None /\ status[x] # "free" /\ tx[r].keyed = {} /\ tx[r].stamped = {}
        /\ \/ x = job[r].target /\ tx[r].dying = {} /\ tx[r].left = {}
           \/ x \in tx[r].left /\ parent[x] \in tx[r].dying
        /\ Live(x) /\ above # None =>
              /\ x = job[r].target /\ tx[r].dying = {} /\ tx[r].left = {}
              /\ TableOf(x) \in Leaves /\ TargetTable(job[r].op) \in Leaves
        /\ Live(x) /\ TargetTable(job[r].op) \in Leaves => above # None
    BY <1>7, <2>1, DeletePlace
  <2>3. /\ tx'[r].keyed = tx[r].keyed /\ tx'[r].stamped = tx[r].stamped
        /\ tx'[r].dying = IF Live(x) THEN tx[r].dying \cup {x} ELSE tx[r].dying
        /\ tx'[r].left = IF Live(x) THEN (tx[r].left \ {x}) \cup Cascaded(x) ELSE tx[r].left \ {x}
        /\ \/ Live(x) /\ above # None /\ tx'[r].mode = "update"
           \/ /\ Live(x) => above = None
              /\ tx'[r].mode = "delete"
              /\ \/ tx'[r].left = {} /\ tx'[r].needs = None
                 \/ tx'[r].needs \in tx'[r].left
        /\ tx'[r] \in TxType /\ tx[r].mode = "delete"
    BY <1>7, <2>1, DeleteRowFacts
  <2> HIDE DEF above
  <2>4. CASE Live(x) /\ above # None /\ tx'[r].mode = "update"
    <3>1. Cascaded(x) = {}
      BY <2>2, <2>4, LeafFacts
    <3> QED
      BY <1>7, <2>2, <2>3, <2>4, <3>1
  <2>5. CASE /\ Live(x) => above = None
             /\ tx'[r].mode = "delete"
             /\ \/ tx'[r].left = {} /\ tx'[r].needs = None
                \/ tx'[r].needs \in tx'[r].left
    <3>1. tx'[r].needs = None => tx'[r].left = {}
      <4>1. tx'[r].left \subseteq Ids
        BY <2>3 DEF TxType
      <4> QED
        BY <2>5, <4>1, IdsAssumption
    <3>2. TargetTable(job[r].op) \in Leaves => tx'[r].dying = {}
      <4>1. TargetTable(job[r].op) \in Leaves => tx[r].dying = {}
        BY <1>2, <1>7, <2>3
      <4> QED
        BY <2>2, <2>3, <2>5, <4>1
    <3>3. tx'[r].dying = {} => tx'[r].left = {}
      <4>1. tx[r].dying = {} => tx[r].left = {}
        BY <1>2, <1>7
      <4> QED
        BY <2>3, <4>1
    <3>4. tx'[r].dying # {} => job[r].target \in tx'[r].dying
      <4>1. tx[r].dying # {} => job[r].target \in tx[r].dying
        BY <1>2, <1>7
      <4> QED
        BY <2>2, <2>3, <4>1
    <3> QED
      BY <1>7, <2>2, <2>3, <2>5, <3>1, <3>2, <3>3, <3>4
  <2> QED
    BY <2>3, <2>4, <2>5
<1>8. CASE Commit(r)
  BY <1>1, <1>8, CommitFacts, EmptyTx
<1> QED
  BY <1>1, <1>3, <1>4, <1>5, <1>6, <1>7, <1>8, SameJob

LEMMA CascadesInvariant ==
    ASSUME Types, Ended, Targets, Inserted, Trees, Apart, Held, NeedsKnown,
           InsertShape, UpdateShape, DeleteShape, Cascades, [Next]_vars
    PROVE  Cascades'
<1>1. SUFFICES ASSUME NEW r \in Reqs
               PROVE  /\ \A y \in tx'[r].dying : y = job'[r].target \/ parent'[y] \in tx'[r].dying
                      /\ \A y \in tx'[r].left : parent'[y] \in tx'[r].dying /\ status'[y] # "free"
                      /\ \A y \in Ids : status'[y] = "live" /\ parent'[y] \in tx'[r].dying =>
                            y \in tx'[r].dying \cup tx'[r].left
  BY IdsAssumption DEF Cascades, Live
<1>2. /\ \A y \in tx[r].dying : /\ y = job[r].target \/ parent[y] \in tx[r].dying
                                /\ y \in Ids /\ Live(y)
      /\ \A y \in tx[r].left : parent[y] \in tx[r].dying /\ status[y] # "free" /\ y \in Ids
      /\ \A y \in Ids : Live(y) /\ parent[y] \in tx[r].dying => y \in tx[r].dying \cup tx[r].left
  <2>1. tx[r].dying \subseteq Ids /\ tx[r].left \subseteq Ids
    BY DEF Types, TxType
  <2> QED
    BY <2>1 DEF Cascades, Held
<1>3. CASE Kept(r)
  <2>1. \A y \in Ids : status[y] # "free" =>
            /\ parent'[y] = parent[y] /\ status'[y] # "free"
            /\ status'[y] = "live" => Live(y)
    BY RowsStay, IdsAssumption DEF Live
  <2>2. \A y \in tx[r].dying : status[y] # "free"
    BY <1>2 DEF Live
  <2>3. ASSUME NEW y \in Ids, status[y] = "free", status'[y] = "live"
        PROVE  parent'[y] \notin tx[r].dying
    <3>1. PICK q \in Reqs : Commit(q)
      BY <2>3, Rows
    <3>2. y = q /\ job[q].op \in Inserts /\ Open(q) /\ tx[q].needs = None
      BY <2>3, <3>1, CommitFacts
    <3>3. parent'[y] = job[q].target /\ tx[q].keyed = {job[q].target}
      <4>1. parent'[y] = job[q].target
        BY <2>3, <3>1, <3>2, CommitFacts
      <4>2. job[q].target # None
        BY <3>2, Modes
      <4> QED
        BY <3>2, <4>1, <4>2 DEF InsertShape
    <3>4. CASE q = r
      BY <3>2, <3>4 DEF InsertShape
    <3>5. CASE q # r
      BY <3>3, <3>5 DEF Apart
    <3> QED
      BY <3>4, <3>5
  <2> QED
    BY <1>2, <1>3, <2>1, <2>2, <2>3 DEF Kept
<1>4. CASE Begin(r)
  BY <1>4, BeginFacts
<1>5. ASSUME tx'[r].dying = tx[r].dying, tx'[r].left = tx[r].left, job' = job,
             UNCHANGED <<status, parent>>
      PROVE  /\ \A y \in tx'[r].dying : y = job'[r].target \/ parent'[y] \in tx'[r].dying
             /\ \A y \in tx'[r].left : parent'[y] \in tx'[r].dying /\ status'[y] # "free"
             /\ \A y \in Ids : status'[y] = "live" /\ parent'[y] \in tx'[r].dying =>
                   y \in tx'[r].dying \cup tx'[r].left
  BY <1>2, <1>5, IdsAssumption DEF Live
<1>6. CASE CheckKey(r)
  <2>1. CASE tx'[r] = RolledBack
    BY <2>1, EmptyTx
  <2> QED
    BY <1>5, <1>6, <2>1, CheckKeyFacts
<1>9. CASE UpdateRow(r)
  BY <1>5, <1>9, UpdateRowFacts
<1>7. CASE DeleteRow(r)
  <2>1. PICK x \in Ids : x = tx[r].needs
    BY <1>7, DeleteRowFacts
  <2>2. \/ x = job[r].target
        \/ x \in tx[r].left /\ parent[x] \in tx[r].dying
    BY <1>7, <2>1, DeletePlace
  <2>3. /\ tx'[r].dying = IF Live(x) THEN tx[r].dying \cup {x} ELSE tx[r].dying
        /\ tx'[r].left = IF Live(x) THEN (tx[r].left \ {x}) \cup Cascaded(x) ELSE tx[r].left \ {x}
        /\ UNCHANGED <<status, parent, job>>
    BY <1>7, <2>1, DeleteRowFacts
  <2>4. \A y \in Cascaded(x) : parent[y] = x /\ status[y] # "free"
    BY DEF Cascaded, Live
  <2>5. \A y \in Ids : status[y] = "live" => Live(y)
    BY IdsAssumption DEF Live
  <2>6. \A y \in Ids : Live(y) /\ parent[y] = x => y \in Cascaded(x)
    BY DEF Cascaded
  <2>7. CASE Live(x)
    BY <1>2, <2>2, <2>3, <2>4, <2>5, <2>6, <2>7
  <2>8. CASE ~ Live(x)
    BY <1>2, <2>2, <2>3, <2>5, <2>8
  <2> QED
    BY <2>7, <2>8
<1>8. CASE Commit(r) \/ Fail(r)
  BY <1>8, CommitFacts, FailFacts, EmptyTx
<1> QED
  BY <1>3, <1>4, <1>6, <1>7, <1>8, <1>9, Moves DEF Act

-----------------------------------------------------------------------------
(* The way up to the note.                                                 *)

(* The note of a row does not change, and the row above has the same one. *)
LEMMA NoteStays ==
    ASSUME Types, Inserted, Trees, [Next]_vars, NEW x \in Ids, status[x] # "free"
    PROVE  NoteOf(x)' = NoteOf(x) /\ Level(x)' = Level(x)
<1>1. TableOf(x)' = TableOf(x) /\ parent'[x] = parent[x]
  BY RowsStay
<1>2. TableOf(x) = "checklist_items" => parent'[parent[x]] = parent[parent[x]]
  <2>1. ASSUME TableOf(x) = "checklist_items"
        PROVE  parent[x] \in Ids /\ status[parent[x]] # "free"
    BY <2>1 DEF Trees, Known
  <2> QED
    BY <2>1, RowsStay
<1>3. NoteOf(x)' = NoteOf(x)
  BY <1>1, <1>2 DEF NoteOf
<1>4. Level(x)' = Level(x)
  BY <1>1 DEF Level
<1> QED
  BY <1>3, <1>4

LEMMA OneUp ==
    ASSUME Types, Trees, NEW x \in Ids, status[x] # "free", NEW y, y = parent[x], y # None
    PROVE  /\ y \in Ids /\ status[y] # "free"
           /\ TableOf(y) \in {"notes", "checklists"}
           /\ Level(x) < Level(y) /\ NoteOf(y) = NoteOf(x)
<1>1. /\ y \in Ids /\ status[y] # "free"
      /\ \/ TableOf(x) \in {"checklists", "attachments"} /\ TableOf(y) = "notes"
         \/ TableOf(x) = "checklist_items" /\ TableOf(y) = "checklists"
  BY DEF Trees, Known
<1>2. NoteOf(y) = NoteOf(x)
  BY <1>1 DEF NoteOf
<1>3. Level(x) < Level(y)
  BY <1>1 DEF Level
<1> QED
  BY <1>1, <1>2, <1>3

LEMMA ClimbsInvariant ==
    ASSUME Types, Targets, Inserted, Trees, Held, NeedsKnown,
           InsertShape, UpdateShape, DeleteShape, Cascades, Climbs, [Next]_vars
    PROVE  Climbs'
<1>1. SUFFICES ASSUME NEW r \in Reqs, tx'[r].state = "open", tx'[r].mode = "update",
                      NEW y, y = tx'[r].needs, y # None,
                      NEW n, n = job'[r].target
               PROVE  /\ \/ y = n /\ tx'[r].stamped = {} /\ tx'[r].dying = {}
                         \/ \E z \in tx'[r].stamped \cup tx'[r].dying : parent'[z] = y
                      /\ TableOf(y)' # "attachments"
                      /\ tx'[r].dying # {} => TableOf(y)' \notin Leaves
                      /\ NoteOf(y)' = NoteOf(n)'
                      /\ \A z \in tx'[r].stamped : Level(z)' < Level(y)'
  BY DEF Climbs, Open
<1>2. /\ n \in Ids /\ status[n] # "free" /\ y \in Ids
      /\ TableOf(n) = TargetTable(job'[r].op)
      /\ job'[r].op \in AllOps
  <2>1. y \in Ids
    <3>1. tx'[r] \in TxType
      BY TypesInvariant DEF Types
    <3> QED
      BY <1>1, <3>1 DEF TxType
  <2>2. CASE Begin(r)
    BY <1>1, <2>1, <2>2, BeginFacts DEF Known
  <2>3. CASE Open(r) /\ job'[r] = job[r]
    BY <1>1, <2>1, <2>3, Modes
  <2> QED
    BY <1>1, <2>2, <2>3, SameJob DEF Kept, Open
<1>3. ASSUME \/ y = n /\ tx'[r].stamped = {} /\ tx'[r].dying = {}
             \/ \E z \in tx'[r].stamped \cup tx'[r].dying : parent[z] = y,
             status[y] # "free",
             TableOf(y) # "attachments",
             tx'[r].dying # {} => TableOf(y) \notin Leaves,
             NoteOf(y) = NoteOf(n),
             \A z \in tx'[r].stamped : Level(z) < Level(y),
             \A z \in tx'[r].stamped \cup tx'[r].dying : z \in Ids /\ status[z] # "free"
      PROVE  /\ \/ y = n /\ tx'[r].stamped = {} /\ tx'[r].dying = {}
                \/ \E z \in tx'[r].stamped \cup tx'[r].dying : parent'[z] = y
             /\ TableOf(y)' # "attachments"
             /\ tx'[r].dying # {} => TableOf(y)' \notin Leaves
             /\ NoteOf(y)' = NoteOf(n)'
             /\ \A z \in tx'[r].stamped : Level(z)' < Level(y)'
  <2>1. TableOf(y)' = TableOf(y) /\ NoteOf(y)' = NoteOf(y) /\ Level(y)' = Level(y)
    BY <1>2, <1>3, RowsStay, NoteStays
  <2>2. NoteOf(n)' = NoteOf(n)
    BY <1>2, NoteStays
  <2>3. ASSUME NEW z \in tx'[r].stamped \cup tx'[r].dying
        PROVE  parent'[z] = parent[z] /\ Level(z)' = Level(z)
    BY <1>3, <2>3, RowsStay, NoteStays
  <2> QED
    BY <1>3, <2>1, <2>2, <2>3
<1>4. \A z \in tx[r].stamped \cup tx[r].dying : z \in Ids /\ status[z] # "free"
  <2>1. tx[r] \in TxType
    BY DEF Types
  <2> QED
    BY <2>1 DEF Held, Live, TxType
<1>5. CASE Kept(r)
  <2>1. /\ Open(r) /\ tx[r].mode = "update" /\ tx[r].needs = y /\ job[r].target = n
        /\ tx'[r].stamped = tx[r].stamped /\ tx'[r].dying = tx[r].dying
    BY <1>1, <1>5 DEF Kept, Open
  <2>2. /\ \/ y = n /\ tx[r].stamped = {} /\ tx[r].dying = {}
           \/ \E z \in tx[r].stamped \cup tx[r].dying : parent[z] = y
        /\ TableOf(y) # "attachments"
        /\ tx[r].dying # {} => TableOf(y) \notin Leaves
        /\ NoteOf(y) = NoteOf(n)
        /\ \A z \in tx[r].stamped : Level(z) < Level(y)
        /\ status[y] # "free"
    BY <1>1, <2>1 DEF Climbs, NeedsKnown
  <2> QED
    BY <1>3, <1>4, <2>1, <2>2
<1>6. CASE Begin(r)
  <2>1. /\ y = n /\ tx'[r].stamped = {} /\ tx'[r].dying = {}
        /\ job'[r].op \in Updates
    BY <1>1, <1>2, <1>6, BeginFacts, FirstLocks
  <2>2. TargetTable(job'[r].op) # "attachments"
    BY <2>1 DEF Updates, TargetTable
  <2> QED
    BY <1>2, <1>3, <2>1, <2>2
<1>7. CASE Open(r) /\ job'[r] = job[r] /\ CheckKey(r)
  <2>1. /\ tx[r].mode = "key" /\ job[r].op \in Inserts
        /\ tx'[r].state = "open"
    BY <1>1, <1>7, CheckKeyFacts, Modes
  <2>2. tx[r].needs = n /\ tx[r].stamped = {} /\ tx[r].dying = {}
    BY <1>1, <1>7, <2>1 DEF InsertShape
  <2>3. y = n /\ tx'[r].stamped = {} /\ tx'[r].dying = {}
    BY <1>1, <1>7, <2>1, <2>2, CheckKeyFacts, EmptyTx
  <2>4. TargetTable(job[r].op) # "attachments"
    BY <2>1 DEF Inserts, TargetTable
  <2> QED
    BY <1>2, <1>3, <1>7, <2>3, <2>4
<1>8. CASE Open(r) /\ job'[r] = job[r] /\ UpdateRow(r)
  <2>1. PICK x \in Ids : x = tx[r].needs
    BY <1>8, UpdateRowFacts
  <2>2. /\ x # None /\ status[x] # "free" /\ tx[r].mode = "update"
        /\ Live(x) /\ y = Triggered(r, x)
        /\ tx'[r].stamped = tx[r].stamped \cup {x} /\ tx'[r].dying = tx[r].dying
    BY <1>1, <1>8, <2>1, UpdateRowFacts, IdsAssumption DEF NeedsKnown
  <2>3. y = parent[x]
    BY <1>1, <2>2 DEF Triggered
  <2>4. /\ status[y] # "free" /\ TableOf(y) \in {"notes", "checklists"}
        /\ Level(x) < Level(y) /\ NoteOf(y) = NoteOf(x)
    BY <1>1, <2>2, <2>3, OneUp
  <2>5. /\ NoteOf(x) = NoteOf(n)
        /\ \A z \in tx[r].stamped : Level(z) < Level(x)
    BY <1>1, <1>8, <2>1, <2>2 DEF Climbs
  <2>6. \A z : Level(z) \in 0 .. 2
    BY DEF Level
  <2>7. \A z \in tx'[r].stamped : Level(z) < Level(y)
    BY <2>2, <2>4, <2>5, <2>6
  <2>8. TableOf(y) # "attachments" /\ TableOf(y) \notin Leaves
    BY <2>4 DEF Leaves
  <2>9. \E z \in tx'[r].stamped \cup tx'[r].dying : parent[z] = y
    BY <2>2, <2>3
  <2> QED
    BY <1>3, <1>4, <2>2, <2>4, <2>5, <2>7, <2>8, <2>9
<1>9. CASE Open(r) /\ job'[r] = job[r] /\ DeleteRow(r)
  <2>1. PICK x \in Ids : x = tx[r].needs
    BY <1>9, DeleteRowFacts
  <2>2. /\ Live(x) /\ y = TriggeredByDelete(x, tx[r].dying \cup {x})
        /\ tx'[r].stamped = tx[r].stamped /\ tx'[r].dying = tx[r].dying \cup {x}
    BY <1>1, <1>9, <2>1, DeleteRowFacts
  <2>3. /\ status[x] # "free" /\ tx[r].stamped = {} /\ x = n /\ y = parent[x]
    BY <1>1, <1>9, <2>1, <2>2, DeletePlace
  <2>4. /\ status[y] # "free" /\ TableOf(y) \in {"notes", "checklists"} /\ NoteOf(y) = NoteOf(n)
    BY <1>1, <2>3, OneUp
  <2>5. TableOf(y) # "attachments" /\ TableOf(y) \notin Leaves
    BY <2>4 DEF Leaves
  <2>6. \E z \in tx'[r].stamped \cup tx'[r].dying : parent[z] = y
    BY <2>2, <2>3
  <2> QED
    BY <1>3, <1>4, <2>2, <2>3, <2>4, <2>5, <2>6
<1>10. CASE Commit(r)
  BY <1>1, <1>10, CommitFacts, EmptyTx
<1> QED
  BY <1>1, <1>5, <1>6, <1>7, <1>8, <1>9, <1>10, SameJob

-----------------------------------------------------------------------------
(* Times.                                                                  *)

LEMMA KnownTimeStays ==
    ASSUME Types, [Next]_vars, NEW t, KnownTime(t)
    PROVE  KnownTime(t)'
<1>1. ASSUME NEW q \in Reqs, tx[q].state = "ok"
      PROVE  tx'[q].state = "ok"
  <2>1. Kept(q)
    BY <1>1, Moves, BeginFacts, CheckKeyFacts, UpdateRowFacts, DeleteRowFacts, CommitFacts, FailFacts
       DEF Act, Open
  <2> QED
    BY <1>1, <2>1 DEF Kept
<1> QED
  BY <1>1 DEF KnownTime, Now

(* The time of an open statement is in no row yet.                         *)
LEMMA OwnTimeIsNew ==
    ASSUME NEW r \in Reqs, Open(r), NEW t \in Nat, KnownTime(t)
    PROVE  t # Now(r)
<1>1. \A q \in Reqs : q \in Nat
  BY ReqsAssumption
<1>2. CASE t < Launch
  BY <1>2, TimesAreNat, TimesAssumption
<1>3. ASSUME NEW q \in Reqs, tx[q].state = "ok", t = Now(q)
      PROVE  t # Now(r)
  <2>1. q # r
    BY <1>3 DEF Open
  <2> QED
    BY <1>1, <1>3, <2>1, TimesAssumption DEF Now
<1> QED
  BY <1>2, <1>3 DEF KnownTime

LEMMA ReachedInvariant ==
    ASSUME Types, Targets, Inserted, Trees, NoOrphanRow, Held, NeedsKnown,
           InsertShape, UpdateShape, DeleteShape, Cascades, Climbs, Reached, Times, [Next]_vars
    PROVE  Reached'
<1>1. SUFFICES ASSUME NEW r \in Reqs, tx'[r].state = "open", job'[r].op \in Climbers,
                      tx'[r].needs = None,
                      tx'[r].stamped \cup tx'[r].dying # {} \/ job'[r].op \in Inserts,
                      NEW n, n = job'[r].target
               PROVE  NoteOf(n)' \in tx'[r].stamped
  BY DEF Reached, Open
<1>2. CASE Begin(r)
  BY <1>1, <1>2, BeginFacts, IdsAssumption DEF Known
<1>3. CASE Commit(r)
  BY <1>1, <1>3, CommitFacts, EmptyTx
<1>4. ASSUME Open(r), job'[r] = job[r], NoteOf(n) \in tx'[r].stamped
      PROVE  NoteOf(n)' \in tx'[r].stamped
  <2>1. n \in Ids /\ status[n] # "free"
    BY <1>1, <1>4, Modes
  <2> QED
    BY <1>4, <2>1, NoteStays
<1>5. CASE Kept(r)
  BY <1>1, <1>4, <1>5 DEF Kept, Reached, Open
<1>6. CASE Open(r) /\ job'[r] = job[r] /\ CheckKey(r)
  <2>1. job[r].op # "checklist_post"
    BY <1>1, <1>6 DEF Climbers
  <2>2. tx'[r].needs = tx[r].needs
    BY <1>1, <1>6, <2>1, CheckKeyFacts, EmptyTx
  <2> QED
    BY <1>1, <1>6, <2>2, CheckKeyFacts, IdsAssumption
<1>7. CASE Open(r) /\ job'[r] = job[r] /\ UpdateRow(r)
  <2>1. PICK x \in Ids : x = tx[r].needs
    BY <1>7, UpdateRowFacts
  <2>2. /\ x # None /\ status[x] # "free" /\ tx[r].mode = "update"
    BY <1>7, <2>1, UpdateRowFacts, IdsAssumption DEF NeedsKnown
  <2>3. /\ \/ x = n /\ tx[r].stamped = {} /\ tx[r].dying = {}
           \/ \E z \in tx[r].stamped \cup tx[r].dying : parent[z] = x
        /\ TableOf(x) # "attachments"
        /\ NoteOf(x) = NoteOf(n)
    BY <1>1, <1>7, <2>1, <2>2 DEF Climbs
  <2>4. Live(x)
    <3>1. ASSUME NEW z \in tx[r].stamped \cup tx[r].dying, parent[z] = x
          PROVE  Live(x)
      <4>1. Live(z) /\ z \in Ids
        <5>1. tx[r] \in TxType
          BY DEF Types
        <5> QED
          BY <5>1 DEF Held, TxType
      <4> QED
        BY <2>2, <3>1, <4>1 DEF NoOrphanRow
    <3>2. CASE x = n /\ tx[r].stamped = {} /\ tx[r].dying = {}
      <4>1. CASE Live(x)
        BY <4>1
      <4>2. CASE ~ Live(x)
        <5>1. tx'[r].stamped = {} /\ tx'[r].dying = {}
          BY <1>7, <2>1, <3>2, <4>2, UpdateRowFacts
        <5>2. job[r].op \in Inserts
          BY <1>1, <1>7, <5>1
        <5>3. tx[r].keyed = {n}
          BY <1>1, <1>7, <2>2, <5>2 DEF InsertShape
        <5>4. Live(n)
          BY <5>3 DEF Held
        <5> QED
          BY <3>2, <5>4
      <4> QED
        BY <4>1, <4>2
    <3> QED
      BY <2>3, <3>1, <3>2
  <2>5. tx'[r].stamped = tx[r].stamped \cup {x} /\ Triggered(r, x) = None
    BY <1>1, <1>7, <2>1, <2>4, UpdateRowFacts
  <2>6. tx[r].value # time[x]
    <3>1. tx[r].value = Now(r)
      BY <1>1, <1>7 DEF Times, Climbers
    <3>2. KnownTime(time[x]) /\ time[x] \in Nat
      BY DEF Times, Types
    <3> QED
      BY <1>7, <3>1, <3>2, OwnTimeIsNew
  <2>7. TableOf(x) = "notes"
    <3>1. TableOf(x) # "notes" => parent[x] # None
      BY <2>2, IdsAssumption DEF Trees, Known
    <3>2. TableOf(x) \in {"notes", "checklists", "checklist_items"}
      BY <2>2, <2>3 DEF Trees
    <3> QED
      BY <2>5, <2>6, <3>1, <3>2 DEF Triggered
  <2>8. NoteOf(x) = x
    BY <2>7 DEF NoteOf
  <2> QED
    BY <1>4, <1>7, <2>3, <2>5, <2>8
<1>8. CASE Open(r) /\ job'[r] = job[r] /\ DeleteRow(r)
  <2>1. PICK x \in Ids : x = tx[r].needs
    BY <1>8, DeleteRowFacts
  <2>2. job[r].op \in Deletes /\ tx[r].stamped = {}
    BY <1>8, <2>1, DeletePlace
  <2>3. job[r].op = "attachment_delete"
    BY <1>1, <1>8, <2>2 DEF Deletes, Climbers
  <2>4. TargetTable(job[r].op) \in Leaves /\ job[r].op \notin Inserts
    BY <2>3 DEF TargetTable, Leaves, Inserts
  <2>5. tx'[r].mode = "delete" /\ tx'[r].stamped = {}
    BY <1>1, <1>8, <2>1, <2>2, DeleteRowFacts
  <2>6. tx'[r].dying = {}
    <3>1. DeleteShape'
      BY DeleteShapeInvariant
    <3> QED
      BY <1>1, <1>8, <2>2, <2>4, <2>5, <3>1 DEF DeleteShape, Open
  <2> QED
    BY <1>1, <1>8, <2>4, <2>5, <2>6
<1> QED
  BY <1>1, <1>2, <1>3, <1>5, <1>6, <1>7, <1>8, SameJob

LEMMA TimesInvariant ==
    ASSUME Types, Targets, Trees, NeedsKnown, InsertShape, UpdateShape, DeleteShape,
           Cascades, Times, [Next]_vars
    PROVE  Times'
<1>1. ASSUME NEW x \in Ids
      PROVE  KnownTime(time[x])'
  <2>1. PICK t : t = time'[x]
    OBVIOUS
  <2>2. SUFFICES KnownTime(t)'
    BY <2>1 DEF KnownTime
  <2>3. CASE time'[x] = time[x]
    BY <2>1, <2>3, KnownTimeStays DEF Times
  <2>4. ASSUME NEW r \in Reqs, Commit(r), time'[x] # time[x]
        PROVE  KnownTime(t)'
    <3>1. Open(r) /\ tx'[r].state = "ok" /\ time'[x] \in {Now(r), tx[r].value}
      BY <2>4, CommitFacts, EmptyTx
    <3>2. t = Now(r) \/ KnownTime(t)
      BY <2>1, <3>1 DEF Times
    <3>3. CASE t = Now(r)
      BY <3>1, <3>3 DEF KnownTime, Now
    <3> QED
      BY <3>2, <3>3, KnownTimeStays
  <2> QED
    BY <2>3, <2>4, Rows
<1>2. ASSUME NEW r \in Reqs, tx'[r].state = "open"
      PROVE  \/ tx'[r].value = Now(r)
             \/ job'[r].op = "item_delete" /\ KnownTime(tx[r].value)'
  <2>1. PICK t : t = tx'[r].value
    OBVIOUS
  <2>2. SUFFICES t = Now(r) \/ (job'[r].op = "item_delete" /\ KnownTime(t)')
    BY <2>1 DEF KnownTime
  <2>3. SUFFICES t = Now(r) \/ (job'[r].op = "item_delete" /\ KnownTime(t))
    BY <2>3, KnownTimeStays
  <2>4. CASE Begin(r)
    BY <2>1, <2>4, BeginFacts
  <2>5. CASE Open(r) /\ job'[r] = job[r] /\ t = tx[r].value
    BY <2>5 DEF Times
  <2>6. CASE Open(r) /\ job'[r] = job[r] /\ DeleteRow(r)
    <3>1. PICK x \in Ids : x = tx[r].needs
      BY <2>6, DeleteRowFacts
    <3>2. CASE t = tx[r].value
      BY <2>5, <2>6, <3>2
    <3>3. CASE t # tx[r].value
      <4>1. /\ Live(x) /\ TriggeredByDelete(x, tx[r].dying \cup {x}) # None
            /\ t = CarriedByDelete(r, x)
        BY <2>1, <2>6, <3>1, <3>3, DeleteRowFacts
      <4>2. x = job[r].target /\ job[r].op \in Deletes
        BY <2>6, <3>1, <4>1, DeletePlace
      <4>3. TableOf(x) = TargetTable(job[r].op)
        BY <2>6, <4>2, Modes
      <4>4. TableOf(x) = "checklist_items" => job[r].op = "item_delete"
        BY <4>2, <4>3 DEF Deletes, TargetTable
      <4> QED
        BY <2>6, <4>1, <4>4 DEF CarriedByDelete, Times
    <3> QED
      BY <3>2, <3>3
  <2>7. CASE Commit(r)
    BY <1>2, <2>7, CommitFacts, EmptyTx
  <2>8. CASE Open(r) /\ job'[r] = job[r] /\ (CheckKey(r) \/ UpdateRow(r))
    BY <1>2, <2>1, <2>5, <2>8, CheckKeyFacts, UpdateRowFacts, EmptyTx
  <2> QED
    BY <1>2, <2>1, <2>4, <2>5, <2>6, <2>7, <2>8, SameJob DEF Kept, Open
<1> QED
  BY <1>1, <1>2 DEF Times, Open, Now

LEMMA DisjointInvariant ==
    ASSUME Types, Targets, Trees, NeedsKnown, InsertShape, UpdateShape, DeleteShape,
           Cascades, Climbs, Disjoint, [Next]_vars
    PROVE  Disjoint'
<1>1. SUFFICES ASSUME NEW r \in Reqs
               PROVE  tx'[r].stamped \cap tx'[r].dying = {}
  BY DEF Disjoint
<1>2. tx[r].stamped \cap tx[r].dying = {}
  BY DEF Disjoint
<1>3. CASE Kept(r)
  BY <1>2, <1>3 DEF Kept
<1>4. CASE UpdateRow(r)
  <2>1. PICK x \in Ids : x = tx[r].needs
    BY <1>4, UpdateRowFacts
  <2>2. Open(r) /\ tx[r].mode = "update" /\ x # None
    BY <1>4, <2>1, UpdateRowFacts, IdsAssumption
  <2>3. x \notin tx[r].dying
    <3>1. SUFFICES ASSUME x \in tx[r].dying PROVE FALSE
      OBVIOUS
    <3>2. job[r].op \in Deletes
      BY <2>2, <3>1, Modes DEF InsertShape, UpdateShape, AllOps
    <3>3. x = job[r].target /\ TargetTable(job[r].op) \in Leaves
      BY <2>2, <3>1, <3>2 DEF DeleteShape
    <3>4. TableOf(x) \in Leaves
      BY <2>2, <3>3, Modes
    <3>5. TableOf(x) \notin Leaves
      BY <2>1, <2>2, <3>1 DEF Climbs
    <3> QED
      BY <3>4, <3>5
  <2> QED
    BY <1>2, <1>4, <2>1, <2>3, UpdateRowFacts
<1>5. CASE DeleteRow(r)
  <2>1. PICK x \in Ids : x = tx[r].needs
    BY <1>5, DeleteRowFacts
  <2>2. tx'[r].stamped = {}
    BY <1>5, <2>1, DeletePlace, DeleteRowFacts
  <2> QED
    BY <2>2
<1> QED
  BY <1>2, <1>3, <1>4, <1>5, Moves, BeginFacts, CheckKeyFacts, CommitFacts, FailFacts, EmptyTx
     DEF Act

-----------------------------------------------------------------------------
(* The log of commits and the times it leaves behind.                      *)

LEMMA OkStays ==
    ASSUME Types, [Next]_vars, NEW q \in Reqs, tx[q].state = "ok"
    PROVE  tx'[q].state = "ok" /\ job'[q] = job[q]
<1>1. Kept(q)
  BY Moves, BeginFacts, CheckKeyFacts, UpdateRowFacts, DeleteRowFacts, CommitFacts, FailFacts
     DEF Act, Open
<1> QED
  BY <1>1 DEF Kept

LEMMA LogGrows ==
    ASSUME Types, [Next]_vars
    PROVE  \/ log' = log
           \/ /\ Len(log') = Len(log) + 1 /\ \A i \in DOMAIN log : log'[i] = log[i]
              /\ Commit(log'[Len(log) + 1]) /\ log'[Len(log) + 1] \in Reqs
              /\ DOMAIN log = 1 .. Len(log) /\ DOMAIN log' = 1 .. (Len(log) + 1)
<1>1. log \in Seq(Reqs)
  BY DEF Types
<1>2. ASSUME NEW r \in Reqs, log' = Append(log, r)
      PROVE  /\ Len(log') = Len(log) + 1 /\ log'[Len(log) + 1] = r
             /\ \A i \in DOMAIN log : log'[i] = log[i]
             /\ DOMAIN log = 1 .. Len(log) /\ DOMAIN log' = 1 .. (Len(log) + 1)
  BY <1>1, <1>2
<1>3. ASSUME NEW r \in Reqs, Commit(r)
      PROVE  log' = log \/ log' = Append(log, r)
  BY <1>3, CommitFacts
<1> QED
  BY <1>2, <1>3, Rows

LEMMA LoggedInvariant ==
    ASSUME Types, Logged, [Next]_vars
    PROVE  Logged'
<1>1. SUFFICES ASSUME NEW i \in DOMAIN log', NEW r, r = log'[i]
               PROVE  tx'[r].state = "ok"
  BY DEF Logged
<1>2. log \in Seq(Reqs) /\ \A j \in DOMAIN log : log[j] \in Reqs
  BY DEF Types
<1>3. CASE i \in DOMAIN log /\ log'[i] = log[i]
  BY <1>1, <1>2, <1>3, OkStays DEF Logged
<1>4. CASE r \in Reqs /\ Commit(r)
  BY <1>4, CommitFacts, EmptyTx
<1>5. ASSUME NEW l, l = Len(log), l \in Nat, i \in 1 .. (l + 1), DOMAIN log = 1 .. l
      PROVE  i \in DOMAIN log \/ i = l + 1
  BY <1>5
<1> QED
  BY <1>1, <1>2, <1>3, <1>4, <1>5, LogGrows

LEMMA NoteIsKnown ==
    ASSUME Types, Trees, NEW x \in Ids, status[x] # "free"
    PROVE  NoteOf(x) \in Ids /\ status[NoteOf(x)] # "free"
<1>1. CASE TableOf(x) = "notes"
  BY <1>1 DEF NoteOf
<1>2. CASE TableOf(x) = "checklist_items"
  <2>1. /\ parent[x] \in Ids /\ status[parent[x]] # "free"
        /\ TableOf(parent[x]) = "checklists"
    BY <1>2 DEF Trees, Known
  <2>2. parent[parent[x]] \in Ids /\ status[parent[parent[x]]] # "free"
    BY <2>1 DEF Trees, Known
  <2> QED
    BY <1>2, <2>2 DEF NoteOf
<1>3. CASE TableOf(x) \in {"checklists", "attachments"}
  <2>1. parent[x] \in Ids /\ status[parent[x]] # "free"
    BY <1>3 DEF Trees, Known
  <2> QED
    BY <1>3, <2>1 DEF NoteOf
<1> QED
  BY <1>1, <1>2, <1>3 DEF Trees

(* At the commit of a statement whose triggers reach the note, the note   *)
(* gets its time; a note that it leaves alone keeps what it had.           *)
LEMMA NoteTime ==
    ASSUME Types, Inserted, Times, [Next]_vars, NEW r \in Reqs, Commit(r),
           job[r].op # "item_delete", NEW n \in Ids, status[n] # "free"
    PROVE  \/ /\ n \in tx[r].stamped /\ time'[n] = Now(r)
              /\ log' = Append(log, r)
           \/ n \notin tx[r].stamped /\ time'[n] = time[n]
<1>1. Open(r)
  BY CommitFacts
<1>2. n # r
  BY <1>1 DEF Inserted, Open
<1>3. tx[r].value = Now(r)
  BY <1>1 DEF Times
<1>4. n \in tx[r].stamped => time'[n] = Now(r) /\ log' = Append(log, r)
  BY <1>2, <1>3, CommitFacts
<1>5. n \notin tx[r].stamped => time'[n] = time[n]
  BY <1>2, CommitFacts
<1> QED
  BY <1>4, <1>5

LEMMA StampsInvariant ==
    ASSUME Types, Targets, Inserted, Trees, Held, InsertShape, UpdateShape, DeleteShape,
           Climbs, Stamps, [Next]_vars
    PROVE  Stamps'
<1>1. SUFFICES ASSUME NEW r \in Reqs, tx'[r].state = "open", NEW t, t = job'[r].target
               PROVE  /\ \A y \in tx'[r].stamped : NoteOf(y)' = NoteOf(t)'
                      /\ job'[r].op = "checklist_post" =>
                            tx'[r].stamped = {} /\ tx'[r].mode # "update"
  BY DEF Stamps, Open
<1>2. CASE Begin(r)
  <2>1. tx'[r].stamped = {} /\ tx'[r].mode = FirstLock(job'[r].op)
    BY <1>2, BeginFacts
  <2> QED
    BY <2>1 DEF FirstLock, Deletes, Updates
<1>3. ASSUME Open(r), job'[r] = job[r],
             \A y \in tx'[r].stamped : /\ y \in Ids /\ status[y] # "free"
                                        /\ NoteOf(y) = NoteOf(t),
             job[r].op = "checklist_post" => tx'[r].stamped = {} /\ tx'[r].mode # "update"
      PROVE  /\ \A y \in tx'[r].stamped : NoteOf(y)' = NoteOf(t)'
             /\ job'[r].op = "checklist_post" =>
                   tx'[r].stamped = {} /\ tx'[r].mode # "update"
  <2>1. t \in Ids /\ status[t] # "free"
    BY <1>1, <1>3, Modes
  <2>2. NoteOf(t)' = NoteOf(t)
    BY <2>1, NoteStays
  <2>3. ASSUME NEW y \in tx'[r].stamped
        PROVE  NoteOf(y)' = NoteOf(t)'
    BY <1>3, <2>2, <2>3, NoteStays
  <2> QED
    BY <1>3, <2>3
<1>4. ASSUME Open(r), job'[r] = job[r]
      PROVE  /\ \A y \in tx[r].stamped : /\ y \in Ids /\ status[y] # "free"
                                          /\ NoteOf(y) = NoteOf(t)
             /\ job[r].op = "checklist_post" => tx[r].stamped = {} /\ tx[r].mode # "update"
  <2>1. tx[r].stamped \subseteq Ids
    BY DEF Types, TxType
  <2> QED
    BY <1>1, <1>4, <2>1 DEF Stamps, Held, Live
<1>5. CASE Kept(r)
  BY <1>1, <1>3, <1>4, <1>5 DEF Kept, Open
<1>6. CASE Open(r) /\ job'[r] = job[r] /\ CheckKey(r)
  <2>1. /\ tx'[r].stamped = tx[r].stamped
        /\ job[r].op = "checklist_post" => tx'[r].mode = "none"
    BY <1>1, <1>6, CheckKeyFacts, EmptyTx
  <2> QED
    BY <1>3, <1>4, <1>6, <2>1
<1>7. CASE Open(r) /\ job'[r] = job[r] /\ UpdateRow(r)
  <2>1. PICK x \in Ids : x = tx[r].needs
    BY <1>7, UpdateRowFacts
  <2>2. /\ tx[r].mode = "update" /\ job[r].op # "checklist_post"
        /\ \/ tx'[r].stamped = tx[r].stamped
           \/ Live(x) /\ tx'[r].stamped = tx[r].stamped \cup {x}
    BY <1>4, <1>7, <2>1, UpdateRowFacts
  <2>3. NoteOf(x) = NoteOf(t)
    BY <1>1, <1>7, <2>1, <2>2, IdsAssumption DEF Climbs
  <2> QED
    BY <1>3, <1>4, <1>7, <2>1, <2>2, <2>3 DEF Live
<1>8. CASE Open(r) /\ job'[r] = job[r] /\ DeleteRow(r)
  <2>1. tx'[r].stamped = tx[r].stamped /\ job[r].op \in Deletes
    BY <1>8, DeleteRowFacts, Modes
  <2>2. job[r].op # "checklist_post"
    BY <2>1 DEF Deletes
  <2> QED
    BY <1>3, <1>4, <1>8, <2>1, <2>2
<1>9. CASE Commit(r)
  BY <1>1, <1>9, CommitFacts, EmptyTx
<1> QED
  BY <1>1, <1>2, <1>5, <1>6, <1>7, <1>8, <1>9, SameJob

(* A statement that gives its note no time updates no row at all.          *)
LEMMA OthersStampNothing ==
    ASSUME Types, Targets, InsertShape, UpdateShape, DeleteShape, Stamps,
           NEW r \in Reqs, Open(r), job[r].op \notin Dating
    PROVE  tx[r].stamped = {}
<1>1. job[r].op \in {"checklist_post", "checklist_delete", "note_delete"}
  BY Modes DEF Dating
<1>2. CASE job[r].op = "checklist_post"
  BY <1>2 DEF Stamps
<1>3. CASE job[r].op \in {"checklist_delete", "note_delete"}
  <2>1. job[r].op \in Deletes /\ TargetTable(job[r].op) \notin Leaves
    BY <1>3 DEF Deletes, TargetTable, Leaves
  <2> QED
    BY <2>1 DEF DeleteShape
<1> QED
  BY <1>1, <1>2, <1>3

(* The entry i of the log gives the note n its time.                       *)
Dates(i, n) == job[log[i]].op \in Dating /\ NoteOf(job[log[i]].target) = n

(* What is in the log keeps its note.                                      *)
LEMMA DatesStay ==
    ASSUME Types, Targets, Inserted, Trees, Logged, [Next]_vars,
           NEW i \in DOMAIN log, log'[i] = log[i], NEW n
    PROVE  Dates(i, n)' <=> Dates(i, n)
<1>1. SUFFICES ASSUME NEW r, r = log[i], NEW t, t = job'[r].target
               PROVE  job'[r].op \in Dating /\ NoteOf(t)' = n <=> Dates(i, n)
  BY DEF Dates
<1>2. r \in Reqs /\ tx[r].state = "ok" /\ job'[r] = job[r]
  BY <1>1, OkStays DEF Types, Logged
<1>3. t \in Ids /\ status[t] # "free"
  BY <1>1, <1>2 DEF Targets, Known
<1>4. NoteOf(t)' = NoteOf(t)
  BY <1>3, NoteStays
<1> QED
  BY <1>1, <1>2, <1>4 DEF Dates

(* The entry that a commit adds.                                           *)
LEMMA LastDates ==
    ASSUME Types, Targets, Inserted, Trees, InsertShape, UpdateShape, DeleteShape,
           [Next]_vars, NEW r \in Reqs, Commit(r), NEW i, log'[i] = r, NEW n
    PROVE  Dates(i, n)' <=> job[r].op \in Dating /\ NoteOf(job[r].target) = n
<1>1. SUFFICES ASSUME NEW t, t = job'[r].target
               PROVE  (job'[r].op \in Dating /\ NoteOf(t)' = n) <=>
                      (job[r].op \in Dating /\ NoteOf(job[r].target) = n)
  BY DEF Dates
<1>2. Open(r) /\ job' = job
  BY CommitFacts
<1>3. t \in Ids /\ status[t] # "free"
  BY <1>1, <1>2, Modes
<1>4. NoteOf(t)' = NoteOf(t)
  BY <1>3, NoteStays
<1> QED
  BY <1>1, <1>2, <1>4

(* Notes are not inserted.                                                 *)
LEMMA NotesStay ==
    ASSUME Types, Inserted, Inserted', [Next]_vars,
           NEW n \in Ids, status'[n] = "live", TableOf(n)' = "notes"
    PROVE  n \in Stored /\ n \in Known("notes") /\ Live(n)
<1>1. n \in Stored
  <2>1. SUFFICES ASSUME n \notin Stored PROVE FALSE
    OBVIOUS
  <2>2. n \in Reqs /\ TableOf(n)' = InsertTable(job'[n].op)
    BY <2>1 DEF Ids, TableOf
  <2>3. job'[n].op \in Inserts
    BY <2>2 DEF Inserted
  <2> QED
    BY <2>2, <2>3 DEF Inserts, InsertTable
<1>2. status[n] = "live"
  <2>1. n \notin Reqs
    BY <1>1, IdsAssumption
  <2>2. ASSUME NEW r \in Reqs, Commit(r)
        PROVE  status[n] = "live"
    BY <2>1, <2>2, CommitFacts
  <2> QED
    BY <2>2, Rows
<1>3. n # None
  BY IdsAssumption
<1>4. TableOf(n) = "notes"
  BY <1>1 DEF TableOf
<1> QED
  BY <1>1, <1>2, <1>3, <1>4 DEF Known, Live

LEMMA TimeOfLastChangeInvariant ==
    ASSUME Types, Targets, Inserted, Inserted', Trees, Held, InsertShape, UpdateShape,
           DeleteShape, Reached, Times, Logged, Stamps, TimeOfLastChange, [Next]_vars
    PROVE  TimeOfLastChange'
<1>1. SUFFICES ASSUME NEW n \in Ids, status'[n] = "live", TableOf(n)' = "notes"
               PROVE  /\ (\A i \in DOMAIN log' : ~Dates(i, n)') => time'[n] = StoredTime[n]
                      /\ \A i \in DOMAIN log' :
                            /\ Dates(i, n)'
                            /\ \A j \in DOMAIN log' : Dates(j, n)' => j <= i
                            /\ job'[log'[i]].op # "item_delete"
                            => time'[n] = Now(log'[i])
  BY DEF TimeOfLastChange, DatedBy, Dates, Known, Live, Now
<1>2. n \in Known("notes") /\ Live(n) /\ status[n] # "free" /\ TableOf(n) = "notes"
  BY <1>1, NotesStay DEF Live, Known
<1>3. /\ (\A i \in DOMAIN log : ~Dates(i, n)) => time[n] = StoredTime[n]
      /\ \A i \in DOMAIN log :
            /\ Dates(i, n)
            /\ \A j \in DOMAIN log : Dates(j, n) => j <= i
            /\ job[log[i]].op # "item_delete"
            => time[n] = Now(log[i])
  BY <1>2 DEF TimeOfLastChange, DatedBy, Dates
<1>4. \A i \in DOMAIN log : log[i] \in Reqs /\ job'[log[i]] = job[log[i]]
  BY OkStays DEF Types, Logged
<1>5. CASE log' = log /\ time'[n] = time[n]
  <2>1. \A i \in DOMAIN log : Dates(i, n)' <=> Dates(i, n)
    BY <1>5, DatesStay
  <2> QED
    BY <1>3, <1>4, <1>5, <2>1
<1>6. ASSUME NEW r \in Reqs, Commit(r)
      PROVE  /\ (\A i \in DOMAIN log' : ~Dates(i, n)') => time'[n] = StoredTime[n]
             /\ \A i \in DOMAIN log' :
                   /\ Dates(i, n)'
                   /\ \A j \in DOMAIN log' : Dates(j, n)' => j <= i
                   /\ job'[log'[i]].op # "item_delete"
                   => time'[n] = Now(log'[i])
  <2>1. Open(r) /\ tx[r].needs = None /\ job' = job
    BY <1>6, CommitFacts
  <2>2. n # r
    BY <1>2, <2>1 DEF Inserted, Open
  <2>3. n \notin tx[r].stamped => time'[n] = time[n]
    BY <1>6, <2>2, CommitFacts
  <2>4. CASE log' = log
    <3>1. log # Append(log, r)
      BY DEF Types
    <3>2. tx[r].stamped = {}
      BY <1>6, <2>4, <3>1, CommitFacts
    <3> QED
      BY <1>5, <2>3, <2>4, <3>2
  <2>5. CASE log' = Append(log, r) /\ log' # log
    <3>0. PICK l : l = Len(log) + 1
      OBVIOUS
    <3>1. /\ l \in DOMAIN log' /\ log'[l] = r
          /\ \A i \in DOMAIN log : i \in DOMAIN log' /\ log'[i] = log[i] /\ i <= l /\ i # l
          /\ \A i \in DOMAIN log' : i \in DOMAIN log \/ i = l
          /\ \A i \in DOMAIN log : ~(l <= i)
      BY <2>5, <3>0 DEF Types
    <3>2. \A i \in DOMAIN log : Dates(i, n)' <=> Dates(i, n)
      BY <3>1, DatesStay
    <3>3. Dates(l, n)' <=> job[r].op \in Dating /\ NoteOf(job[r].target) = n
      BY <1>6, <3>1, LastDates
    <3>4. CASE ~Dates(l, n)'
      <4>1. n \notin tx[r].stamped
        <5>1. SUFFICES ASSUME n \in tx[r].stamped PROVE FALSE
          OBVIOUS
        <5>2. NoteOf(n) = n /\ NoteOf(n) = NoteOf(job[r].target)
          BY <1>2, <2>1, <5>1 DEF NoteOf, Stamps
        <5>3. job[r].op \in Dating
          BY <2>1, <5>1, OthersStampNothing
        <5> QED
          BY <3>3, <3>4, <5>2, <5>3
      <4>2. time'[n] = time[n]
        BY <2>3, <4>1
      <4>3. (\A i \in DOMAIN log' : ~Dates(i, n)') => time'[n] = StoredTime[n]
        BY <1>3, <3>1, <3>2, <4>2
      <4>4. ASSUME NEW i \in DOMAIN log', Dates(i, n)',
                   \A j \in DOMAIN log' : Dates(j, n)' => j <= i,
                   job'[log'[i]].op # "item_delete"
            PROVE  time'[n] = Now(log'[i])
        <5>1. i \in DOMAIN log /\ log'[i] = log[i] /\ Dates(i, n)
          BY <3>1, <3>2, <3>4, <4>4
        <5>2. \A j \in DOMAIN log : Dates(j, n) => j <= i
          BY <3>1, <3>2, <4>4
        <5> QED
          BY <1>3, <2>1, <4>2, <4>4, <5>1, <5>2
      <4> QED
        BY <4>3, <4>4
    <3>5. CASE Dates(l, n)'
      <4>1. ASSUME NEW i \in DOMAIN log', Dates(i, n)',
                   \A j \in DOMAIN log' : Dates(j, n)' => j <= i,
                   job'[log'[i]].op # "item_delete"
            PROVE  time'[n] = Now(log'[i])
        <5>1. i = l
          BY <3>1, <3>5, <4>1
        <5>2. job[r].op \in Climbers
          <6>1. job[r].op \in Dating /\ job[r].op # "item_delete"
            BY <2>1, <3>1, <3>3, <3>5, <4>1, <5>1
          <6> QED
            BY <6>1 DEF Dating, AllOps, Deletes, Updates, Inserts, Climbers
        <5>3. tx[r].stamped \cup tx[r].dying # {} \/ job[r].op \in Inserts
          <6>1. CASE job[r].op \notin Inserts
            <7>1. log' = IF tx[r].stamped \cup tx[r].dying \cup {} = {} THEN log
                         ELSE Append(log, r)
              BY <1>6, <6>1, CommitFacts
            <7> QED
              BY <2>5, <7>1
          <6> QED
            BY <6>1
        <5>4. n \in tx[r].stamped
          BY <2>1, <3>3, <3>5, <5>2, <5>3 DEF Reached
        <5>5. time'[n] = Now(r)
          BY <1>2, <1>6, <5>2, <5>4, NoteTime DEF Climbers
        <5> QED
          BY <3>1, <5>1, <5>5
      <4> QED
        BY <3>1, <3>5, <4>1
    <3> QED
      BY <3>4, <3>5
  <2> QED
    BY <1>6, <2>4, <2>5, CommitFacts
<1> QED
  BY <1>5, <1>6, Rows

-----------------------------------------------------------------------------
(* The invariant, and what follows from it.                                *)

LEMMA InitIndInv == Init => IndInv
<1> SUFFICES ASSUME Init PROVE IndInv
  OBVIOUS
<1>1. Types
  <2>1. status \in [Ids -> {"free", "live", "gone"}]
    BY DEF Init
  <2>2. parent \in [Ids -> Ids \cup {None}]
    BY StoredAssumption DEF Init, Ids
  <2>3. time \in [Ids -> Nat]
    BY TimesAssumption DEF Init
  <2>4. job \in [Reqs -> [op : AllOps \cup {"none"}, target : Ids \cup {None}]]
    BY DEF Init, NoJob
  <2>5. tx \in [Reqs -> TxType]
    BY EmptyTx DEF Init
  <2>6. log \in Seq(Reqs)
    BY DEF Init
  <2> QED
    BY <2>1, <2>2, <2>3, <2>4, <2>5, <2>6 DEF Types
<1>2. /\ \A r \in Reqs : /\ tx[r] = NoTx /\ tx[r].state = "none" /\ tx[r].needs = None
                         /\ tx[r].keyed = {} /\ tx[r].stamped = {}
                         /\ tx[r].dying = {} /\ tx[r].left = {}
      /\ log = <<>>
  BY EmptyTx DEF Init
<1>3. \A r \in Reqs : status[r] = "free"
  BY IdsAssumption DEF Init, Ids
<1>4. \A x \in Ids : status[x] # "free" =>
         x \in Stored /\ status[x] = "live" /\ TableOf(x) = StoredTable[x]
         /\ parent[x] = StoredParent[x]
  BY DEF Init, TableOf
<1>5. \A x \in Stored : x \in Ids /\ status[x] = "live" /\ TableOf(x) = StoredTable[x]
                        /\ parent[x] = StoredParent[x]
  BY DEF Init, TableOf, Ids
<1>6. Ended
  BY <1>2 DEF Ended
<1>7. Trees
  <2>1. SUFFICES ASSUME NEW x \in Ids, status[x] # "free"
                 PROVE  \/ TableOf(x) = "notes" /\ parent[x] = None
                        \/ TableOf(x) \in {"checklists", "attachments"} /\ parent[x] \in Known("notes")
                        \/ TableOf(x) = "checklist_items" /\ parent[x] \in Known("checklists")
    BY DEF Trees
  <2>2. x \in Stored /\ TableOf(x) = StoredTable[x] /\ parent[x] = StoredParent[x]
    BY <1>4, <2>1
  <2>3. ASSUME parent[x] # None
        PROVE  /\ parent[x] \in Ids /\ status[parent[x]] = "live"
               /\ TableOf(parent[x]) = StoredTable[parent[x]]
    <3>1. parent[x] \in Stored
      BY <2>2, <2>3, StoredAssumption
    <3> QED
      BY <1>5, <3>1
  <2> QED
    BY <2>2, <2>3, StoredAssumption DEF Known
<1>8. NoOrphanRow
  <2>1. SUFFICES ASSUME NEW x \in Ids, Live(x), parent[x] # None
                 PROVE  Live(parent[x])
    BY DEF NoOrphanRow
  <2>2. x \in Stored /\ parent[x] = StoredParent[x]
    BY <1>4, <2>1 DEF Live
  <2>3. parent[x] \in Stored
    BY <2>1, <2>2, StoredAssumption
  <2> QED
    BY <1>5, <2>1, <2>3 DEF Live
<1>9. Targets /\ Inserted /\ Apart /\ Held /\ NeedsKnown /\ Disjoint /\ Logged
  BY <1>2, <1>3 DEF Targets, Inserted, Apart, Held, NeedsKnown, Disjoint, Logged
<1>10. InsertShape /\ UpdateShape /\ DeleteShape /\ Cascades /\ Climbs /\ Reached
  BY <1>2 DEF InsertShape, UpdateShape, DeleteShape, Cascades, Climbs, Reached, Open
<1>11. Times
  <2>1. \A x \in Ids : time[x] < Launch \/ time[x] = 0
    BY TimesAssumption DEF Init
  <2>2. \A x \in Ids : time[x] < Launch
    BY <2>1, TimesAssumption
  <2> QED
    BY <1>2, <2>2 DEF Times, KnownTime, Open
<1>12. Stamps
  BY <1>2 DEF Stamps, Open
<1>13. TimeOfLastChange
  <2>1. SUFFICES ASSUME NEW n \in Ids, status[n] = "live", TableOf(n) = "notes"
                 PROVE  time[n] = StoredTime[n]
    BY <1>2 DEF TimeOfLastChange, DatedBy, Known, Live
  <2> QED
    BY <1>4, <2>1 DEF Init
<1> QED
  BY <1>1, <1>6, <1>7, <1>8, <1>9, <1>10, <1>11, <1>12, <1>13 DEF IndInv

LEMMA IndInvIsKept ==
    ASSUME IndInv, [Next]_vars
    PROVE  IndInv'
<1>1. /\ Types /\ Ended /\ Targets /\ Inserted /\ Trees /\ NoOrphanRow
      /\ Apart /\ Held /\ NeedsKnown /\ InsertShape /\ UpdateShape /\ DeleteShape
      /\ Cascades /\ Climbs /\ Reached /\ Times /\ Disjoint /\ Logged /\ Stamps
      /\ TimeOfLastChange
  BY DEF IndInv
<1>2. Types' /\ Ended' /\ Targets' /\ Inserted' /\ Trees' /\ NoOrphanRow'
  BY <1>1, TypesInvariant, EndedInvariant, TargetsInvariant, InsertedInvariant,
     TreesInvariant, NoOrphanRowInvariant
<1>3. Apart' /\ Held' /\ NeedsKnown' /\ InsertShape' /\ UpdateShape' /\ DeleteShape'
  BY <1>1, ApartInvariant, HeldInvariant, NeedsKnownInvariant, InsertShapeInvariant,
     UpdateShapeInvariant, DeleteShapeInvariant
<1>4. Cascades' /\ Climbs' /\ Reached' /\ Times' /\ Disjoint' /\ Logged' /\ Stamps'
  BY <1>1, CascadesInvariant, ClimbsInvariant, ReachedInvariant, TimesInvariant,
     DisjointInvariant, LoggedInvariant, StampsInvariant
<1>5. TimeOfLastChange'
  BY <1>1, <1>2, TimeOfLastChangeInvariant
<1> QED
  BY <1>2, <1>3, <1>4, <1>5 DEF IndInv

(* In every reachable state, whatever the statements and the stored rows: *)
(* who holds what, where a statement stands and what its times are.        *)
THEOREM Inductive == Spec => []IndInv
<1>1. IndInv /\ [Next]_vars => IndInv'
  BY IndInvIsKept
<1> QED
  BY InitIndInv, <1>1, PTL DEF Spec

(* Every variable has its type, ended transactions hold no lock, no time   *)
(* lies in the future and nothing is updated and deleted at once.          *)
THEOREM TypeCorrect == Spec => []TypeOK
<1>1. IndInv => TypeOK
  <2> SUFFICES ASSUME IndInv PROVE TypeOK
    OBVIOUS
  <2>1. Types /\ Ended /\ Times /\ Disjoint
    BY DEF IndInv
  <2>2. ASSUME NEW x \in Ids
        PROVE  time[x] < Launch \/ \E r \in Reqs : time[x] = Now(r) /\ Began(r)
    BY <2>1 DEF Times, KnownTime, Began
  <2> QED
    BY <2>1, <2>2 DEF Types, TxType, Ended, Disjoint, TypeOK
<1> QED
  BY <1>1, Inductive, PTL

(* The time of a live note is NOW() of the statement that committed last  *)
(* among those that changed the note, the title of a checklist, an item or *)
(* an attachment of it, or the stored one if there was none, for every set *)
(* of overlapping statements and every stored database.  Creating and     *)
(* removing a checklist do not show; nothing is said while the last one is *)
(* the DELETE of an item.                                                  *)
THEOREM LastChangeShows == Spec => []TimeOfLastChange
<1>1. IndInv => TimeOfLastChange
  BY DEF IndInv
<1> QED
  BY <1>1, Inductive, PTL

-----------------------------------------------------------------------------
(* Deadlocks.                                                              *)

(* Between statements that delete nothing only rows that are updated are  *)
(* waited for.                                                             *)
LEMMA WaitsForUpdate ==
    ASSUME IndInv, NEW r \in Reqs, NEW q \in Blockers(r),
           job[r].op \notin Deletes, job[q].op \notin Deletes
    PROVE  /\ Open(r) /\ Open(q) /\ q \in Reqs
           /\ tx[r].mode = "update" /\ tx[r].needs \in tx[q].stamped
           /\ tx[r].needs \in Ids /\ tx[r].needs # None
<1>1. /\ q \in Reqs /\ Open(r) /\ Open(q) /\ tx[r].needs \in Conflicting(q, tx[r].mode)
  BY DEF Blockers
<1>2. Types /\ Targets /\ InsertShape /\ UpdateShape /\ DeleteShape
  BY DEF IndInv
<1>3. tx[q].dying = {}
  BY <1>1, <1>2, Modes DEF InsertShape, UpdateShape, AllOps
<1>4. tx[r].mode # "delete"
  BY <1>1, <1>2, Modes
<1>5. tx[r].mode = "update" /\ tx[r].needs \in tx[q].stamped
  BY <1>1, <1>3, <1>4 DEF Conflicting
<1>6. tx[q].stamped \subseteq Ids
  <2>1. tx[q] \in TxType
    BY <1>1, <1>2 DEF Types
  <2> QED
    BY <2>1 DEF TxType
<1> QED
  BY <1>1, <1>5, <1>6, IdsAssumption

LEMMA WaitsHigher ==
    ASSUME IndInv, NEW r \in Reqs, NEW q \in Blockers(r), NEW p \in Blockers(q),
           job[r].op \notin Deletes, job[q].op \notin Deletes, job[p].op \notin Deletes
    PROVE  Level(tx[r].needs) < Level(tx[q].needs)
<1>1. tx[r].needs \in tx[q].stamped /\ q \in Reqs
  BY WaitsForUpdate
<1>2. Open(q) /\ tx[q].mode = "update" /\ tx[q].needs # None
  BY <1>1, WaitsForUpdate
<1>3. Climbs
  BY DEF IndInv
<1> QED
  BY <1>1, <1>2, <1>3 DEF Climbs

(* Of statements that wait for each other in a circle one deletes: the    *)
(* others lock from the item to the note, and a circle goes down again.    *)
THEOREM NoDeadlockOfUpdates == Spec => []UpdatesNeverDeadlock
<1>1. IndInv => UpdatesNeverDeadlock
  <2> SUFFICES ASSUME IndInv, NEW S \in SUBSET Waiting, Cycle(S),
                      \A r \in S : job[r].op \notin Deletes
               PROVE  FALSE
    BY DEF UpdatesNeverDeadlock
  <2>1. S \subseteq Reqs /\ S # {} /\ \A r \in S : \E q \in S : q \in Blockers(r)
    BY DEF Cycle, Waiting
  <2>2. \A r, q, p \in S : q \in Blockers(r) /\ p \in Blockers(q) =>
           Level(tx[r].needs) < Level(tx[q].needs)
    BY <2>1, WaitsHigher
  <2>3. PICK a \in S : TRUE
    BY <2>1
  <2>4. PICK b \in S : b \in Blockers(a)
    BY <2>1
  <2>5. PICK c \in S : c \in Blockers(b)
    BY <2>1
  <2>6. PICK d \in S : d \in Blockers(c)
    BY <2>1
  <2>7. PICK e \in S : e \in Blockers(d)
    BY <2>1
  <2>8. PICK f \in S : f \in Blockers(e)
    BY <2>1
  <2>9. /\ Level(tx[a].needs) < Level(tx[b].needs) /\ Level(tx[b].needs) < Level(tx[c].needs)
        /\ Level(tx[c].needs) < Level(tx[d].needs)
    BY <2>2, <2>4, <2>5, <2>6, <2>7
  <2>10. \A x : Level(x) \in {0, 1, 2}
    BY DEF Level
  <2> HIDE DEF Level
  <2>11. \A i, j, k, l \in {0, 1, 2} : ~ (i < j /\ j < k /\ k < l)
    OBVIOUS
  <2> QED
    BY <2>9, <2>10, <2>11
<1> QED
  BY <1>1, Inductive, PTL

-----------------------------------------------------------------------------
(* Timestamps implements RowStore.                                         *)

LEMMA InitRefines == Init => Store!Init
<1> SUFFICES ASSUME Init PROVE Store!Init
  OBVIOUS
<1>1. Types /\ NoOrphanRow
  BY InitIndInv DEF IndInv
<1>2. status \in [Ids -> {"free", "live"}]
  BY DEF Init
<1>3. parent \in [Ids -> Ids \cup {None}]
  BY <1>1 DEF Types
<1> QED
  BY <1>1, <1>2, <1>3 DEF Store!Init, Store!Live, NoOrphanRow, Live

(* What a DELETE has marked when nothing is left for it to lock is its row *)
(* with all that is below it.                                              *)
LEMMA DyingIsWhole ==
    ASSUME IndInv, NEW r \in Reqs, Open(r), tx[r].needs = None, job[r].op \in Deletes,
           tx[r].dying # {}, NEW t, t = job[r].target
    PROVE  t \in Ids /\ Live(t) /\ tx[r].dying = {t} \cup Store!Below(t)
<1>1. /\ Types /\ Targets /\ Trees /\ Held /\ Cascades
      /\ InsertShape /\ UpdateShape /\ DeleteShape
  BY DEF IndInv
<1>2. tx[r].left = {} /\ t \in tx[r].dying /\ t \in Ids
  BY <1>1, AtCommit DEF DeleteShape
<1>3. tx[r].dying \subseteq Ids
  <2>1. tx[r] \in TxType
    BY <1>1 DEF Types
  <2> QED
    BY <2>1 DEF TxType
<1>4. \A y \in tx[r].dying : y # None /\ status[y] = "live"
  BY <1>1 DEF Held, Live
<1>5. \A y \in tx[r].dying : y = t \/ parent[y] \in tx[r].dying
  BY <1>1 DEF Cascades
<1>6. \A y \in Ids : status[y] = "live" /\ parent[y] \in tx[r].dying => y \in tx[r].dying
  BY <1>1, <1>2, IdsAssumption DEF Cascades, Live
<1>7. ASSUME NEW y \in tx[r].dying
      PROVE  y \in {t} \cup Store!Below(t)
  <2>1. CASE y = t
    BY <2>1
  <2>2. CASE y # t /\ parent[y] = t
    BY <1>3, <1>4, <1>7, <2>2 DEF Store!Below, Store!Children
  <2>3. CASE y # t /\ parent[y] # t
    <3>1. PICK p \in tx[r].dying : p = parent[y] /\ p # t
      BY <1>5, <2>3
    <3>2. PICK q \in tx[r].dying : q = parent[p]
      BY <1>5, <3>1
    <3>3. q = t
      <4>1. SUFFICES ASSUME q # t PROVE FALSE
        OBVIOUS
      <4>2. PICK s \in tx[r].dying : s = parent[q]
        BY <1>5, <4>1
      <4>3. Level(y) < Level(p) /\ Level(p) < Level(q) /\ Level(q) < Level(s)
        <5>1. \A u \in tx[r].dying : u \in Ids /\ u # None /\ status[u] # "free"
          BY <1>3, <1>4
        <5> QED
          BY <1>1, <1>7, <3>1, <3>2, <4>2, <5>1, OneUp
      <4>4. \A x : Level(x) \in {0, 1, 2}
        BY DEF Level
      <4>5. \A i, j, k, l \in {0, 1, 2} : ~ (i < j /\ j < k /\ k < l)
        OBVIOUS
      <4> HIDE DEF Level
      <4> QED
        BY <4>3, <4>4, <4>5
    <3>4. p \in Store!Children(t) /\ y \in Store!Children(p)
      BY <1>3, <1>4, <1>7, <3>1, <3>2, <3>3 DEF Store!Children
    <3> QED
      BY <3>4 DEF Store!Below
  <2> QED
    BY <2>1, <2>2, <2>3
<1>8. Store!Children(t) \subseteq tx[r].dying
  BY <1>2, <1>6 DEF Store!Children
<1>9. \A y \in Store!Children(t) : Store!Children(y) \subseteq tx[r].dying
  BY <1>6, <1>8 DEF Store!Children
<1>10. {t} \cup Store!Below(t) \subseteq tx[r].dying
  BY <1>2, <1>8, <1>9 DEF Store!Below
<1> QED
  BY <1>2, <1>4, <1>7, <1>10 DEF Live

LEMMA CommitRefines ==
    ASSUME IndInv, NEW r \in Reqs, Commit(r)
    PROVE  Store!Next \/ UNCHANGED <<status, parent>>
<1>1. Types /\ Targets /\ Inserted /\ Held /\ InsertShape /\ UpdateShape /\ DeleteShape
  BY DEF IndInv
<1> DEFINE t == job[r].target
<1>2. /\ Open(r) /\ tx[r].needs = None
      /\ t \in Ids /\ job[r].op \in AllOps
      /\ job[r].op \in Inserts => Live(t)
      /\ job[r].op \notin Deletes => tx[r].dying = {}
      /\ job[r].op \in Inserts => job[r].op \notin Deletes
  BY <1>1, CommitFacts, AtCommit, Modes
<1>3. /\ status \in [Ids -> {"free", "live", "gone"}] /\ parent \in [Ids -> Ids \cup {None}]
  BY <1>1 DEF Types
<1>4. CASE job[r].op \in Inserts
  <2>1. /\ status' = [x \in Ids |-> IF x \in {} THEN "gone"
                                    ELSE IF x \in {r} THEN "live" ELSE status[x]]
        /\ parent' = [x \in Ids |-> IF x \in {r} THEN t ELSE parent[x]]
    BY <1>1, <1>2, <1>4, CommitFacts
  <2>2. r \in Ids /\ status[r] = "free"
    BY <1>1, <1>2 DEF Inserted, Open, Ids
  <2>3. status' = [status EXCEPT ![r] = "live"] /\ parent' = [parent EXCEPT ![r] = t]
    BY <1>3, <2>1, <2>2
  <2>4. Store!Insert(r, t)
    BY <1>2, <1>4, <2>2, <2>3 DEF Store!Insert, Store!Live, Live
  <2> QED
    BY <1>2, <2>2, <2>4 DEF Store!Next
<1>5. CASE job[r].op \notin Inserts
  <2>1. /\ status' = [x \in Ids |-> IF x \in tx[r].dying THEN "gone" ELSE status[x]]
        /\ parent' = [x \in Ids |-> parent[x]]
    BY <1>1, <1>5, CommitFacts
  <2>2. parent' = parent
    BY <1>3, <2>1
  <2>3. CASE tx[r].dying = {}
    <3>1. status' = status
      BY <1>3, <2>1, <2>3
    <3> QED
      BY <2>2, <3>1
  <2>4. CASE tx[r].dying # {}
    <3>1. Live(t) /\ tx[r].dying = {t} \cup Store!Below(t)
      BY <1>2, <2>4, DyingIsWhole
    <3>2. Store!Delete(t)
      BY <2>1, <2>2, <3>1 DEF Store!Delete, Store!Live, Live
    <3> QED
      BY <1>2, <3>2 DEF Store!Next
  <2> QED
    BY <2>3, <2>4
<1> QED
  BY <1>4, <1>5

(* However the locks, triggers and cascades of the statements interleave, *)
(* the rows are those of a store of trees with atomic INSERTs and DELETEs. *)
THEOREM RowsAreAtomic == Spec => AtomicRows
<1>1. IndInv /\ [Next]_vars => [Store!Next]_(Store!vars)
  <2> SUFFICES ASSUME IndInv, [Next]_vars PROVE [Store!Next]_(Store!vars)
    OBVIOUS
  <2>1. Types
    BY DEF IndInv
  <2>2. Store!Next \/ UNCHANGED <<status, parent>>
    BY <2>1, Rows, CommitRefines
  <2> QED
    BY <2>2 DEF Store!vars
<1> QED
  BY <1>1, InitRefines, Inductive, PTL DEF Spec, AtomicRows, Store!Spec

=============================================================================
