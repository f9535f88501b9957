------------------------------ MODULE TaskCrud ------------------------------
(***************************************************************************)
(* The task API of examples/basic-crud: concurrent POST, PATCH and DELETE  *)
(* over one SQLite table; GET only reads.  A SELECT runs outside of any    *)
(* transaction, a write locks the database until its commit: a request is  *)
(* a read, a write and another read, and others write between them.        *)
(*                                                                         *)
(* A task is named by the request that created it.  Its id is the largest  *)
(* id plus one, so that the id of a deleted task may be given again.       *)
(***************************************************************************)
EXTENDS Integers, FiniteSets

CONSTANTS
  Creates, Patches, Deletes,  \* the requests
  TargetOf,   \* the id in the path of a patch or delete
  Fields,     \* the fields that a patch sends
  Titles,     \* the values of title
  TitleOf,    \* the title that a create or a patch carries
  DoneOf,     \* the value of completed that a patch carries: yes or no
  Null,       \* the patches that send a null
  MaxFaults,  \* bound on failing statements
  None

Requests == Creates \cup Patches \cup Deletes
Ids == 1..Cardinality(Creates)

Row == [task : Creates, title : Titles, completed : {"no", "yes"}]

ASSUME RequestsAssumption ==
  /\ IsFiniteSet(Creates)
  /\ Creates \cap (Patches \cup Deletes) = {} /\ Patches \cap Deletes = {}
  /\ TargetOf \in [Patches \cup Deletes -> Nat \ {0}]
  /\ Fields \in [Patches -> SUBSET {"title", "completed"}]
  /\ TitleOf \in [Creates \cup Patches -> Titles]
  /\ DoneOf \in [Patches -> {"no", "yes"}]
  /\ None \notin Creates \cup Row \cup Nat
  /\ MaxFaults \in Nat

VARIABLES
  rows,     \* the table: the row with an id, or None
  pc,       \* how far a request is
  id,       \* the id of the row that a request works on
  loaded,   \* the row as the request's session has loaded it
  touched,  \* history: the task whose row a patch wrote
  answer,   \* the status code of the response
  body,     \* the task that the response shows
  faults

vars == <<rows, pc, id, loaded, touched, answer, body, faults>>

Init ==
  /\ rows = [i \in Ids |-> None]
  /\ pc = [r \in Requests |-> "new"]
  /\ id = [r \in Requests |-> IF r \in Creates THEN 0 ELSE TargetOf[r]]
  /\ loaded = [r \in Patches \cup Deletes |-> None]
  /\ touched = [p \in Patches |-> None]
  /\ answer = [r \in Requests |-> None]
  /\ body = [r \in Requests |-> None]
  /\ faults = 0

Go(r, step) == pc' = [pc EXCEPT ![r] = step]

Answer(r, status) ==
  /\ answer' = [answer EXCEPT ![r] = status]
  /\ Go(r, "done")

-----------------------------------------------------------------------------
Stored == {i \in Ids : rows[i] # None}

\* n is the rowid that SQLite gives to a new row.
IsNextId(n) == (\A i \in Stored : i < n) /\ n - 1 \in Stored \cup {0}

\* create_task up to its commit.
Create(c) ==
  /\ c \in Creates /\ pc[c] = "new"
  /\ \E n \in Ids :
       /\ IsNextId(n)
       /\ rows' = [rows EXCEPT ![n] =
                     [task |-> c, title |-> TitleOf[c], completed |-> "no"]]
       /\ id' = [id EXCEPT ![c] = n]
  /\ Go(c, "committed")
  /\ UNCHANGED <<loaded, touched, answer, body, faults>>

\* require_task, and the patch that sends a null.
Load(r) ==
  /\ r \in Patches \cup Deletes /\ pc[r] = "new"
  /\ CASE id[r] \notin Stored -> Answer(r, 404) /\ UNCHANGED loaded
       [] id[r] \in Stored /\ r \in Null -> Answer(r, 422) /\ UNCHANGED loaded
       [] OTHER -> /\ loaded' = [loaded EXCEPT ![r] = rows[id[r]]]
                   /\ Go(r, "loaded")
                   /\ UNCHANGED answer
  /\ UNCHANGED <<rows, id, touched, body, faults>>

\* (mutant) The UPDATE names every column.
WrittenWhole(p, row) ==
  [row EXCEPT
    !.title = IF "title" \in Fields[p] THEN TitleOf[p] ELSE loaded[p].title,
    !.completed = IF "completed" \in Fields[p] THEN DoneOf[p] ELSE loaded[p].completed]

\* The UPDATE names the columns whose value differs from the loaded one.
Written(p, row) ==
  [row EXCEPT
    !.title = IF "title" \in Fields[p] /\ TitleOf[p] # loaded[p].title
                THEN TitleOf[p] ELSE @,
    !.completed = IF "completed" \in Fields[p] /\ DoneOf[p] # loaded[p].completed
                    THEN DoneOf[p] ELSE @]

\* Without a difference there is no UPDATE; an UPDATE that meets no row
\* raises StaleDataError.
Update(p) ==
  /\ p \in Patches /\ pc[p] = "loaded"
  /\ \/ /\ Written(p, loaded[p]) = loaded[p]
        /\ Go(p, "committed")
        /\ UNCHANGED <<rows, touched, answer>>
     \/ /\ Written(p, loaded[p]) # loaded[p] /\ id[p] \in Stored
        /\ rows' = [rows EXCEPT ![id[p]] = Written(p, @)]
        /\ touched' = [touched EXCEPT ![p] = rows[id[p]].task]
        /\ Go(p, "committed")
        /\ UNCHANGED answer
     \/ /\ Written(p, loaded[p]) # loaded[p] /\ id[p] \notin Stored
        /\ Answer(p, 500)
        /\ UNCHANGED <<rows, touched>>
  /\ UNCHANGED <<id, loaded, body, faults>>

\* (mutant) The transaction is not committed.
DeleteUncommitted(d) ==
  /\ d \in Deletes /\ pc[d] = "loaded"
  /\ Answer(d, 204)
  /\ UNCHANGED <<rows, id, loaded, touched, body, faults>>

\* A DELETE that meets no row is as good as one that does.
Delete(d) ==
  /\ d \in Deletes /\ pc[d] = "loaded"
  /\ rows' = [rows EXCEPT ![id[d]] = None]
  /\ Answer(d, 204)
  /\ UNCHANGED <<id, loaded, touched, body, faults>>

\* session.refresh selects the row by its id, or raises.
Refresh(r) ==
  /\ pc[r] = "committed"
  /\ IF id[r] \in Stored
       THEN /\ Answer(r, IF r \in Creates THEN 201 ELSE 200)
            /\ body' = [body EXCEPT ![r] = rows[id[r]].task]
       ELSE Answer(r, 500) /\ UNCHANGED body
  /\ UNCHANGED <<rows, id, loaded, touched, faults>>

\* The next statement fails, a read or a write, the database being locked by
\* another for too long.  What was committed before stays.
Locked(r) ==
  /\ faults < MaxFaults
  /\ faults' = faults + 1
  /\ pc[r] # "done"
  /\ Answer(r, 500)
  /\ UNCHANGED <<rows, id, loaded, touched, body>>

Next ==
  \E r \in Requests :
    Create(r) \/ Load(r) \/ Update(r) \/ Delete(r) \/ Refresh(r) \/ Locked(r)

Spec == Init /\ [][Next]_vars

-----------------------------------------------------------------------------
(* Properties.                                                             *)

TypeOK ==
  /\ rows \in [Ids -> Row \cup {None}]
  /\ pc \in [Requests -> {"new", "loaded", "committed", "done"}]
  /\ id \in [Requests -> Nat]
  /\ loaded \in [Patches \cup Deletes -> Row \cup {None}]
  /\ touched \in [Patches -> Creates \cup {None}]
  /\ answer \in [Requests -> {None, 200, 201, 204, 404, 422, 500}]
  /\ body \in [Requests -> Creates \cup {None}]
  /\ faults \in 0..MaxFaults

\* Patches that interleave do not undo each other: what a patch wrote to a
\* task stands as long as no other patch of that id sets the field, although
\* the others work on rows that they loaded before.
Alone(p, field) ==
  field \in Fields[p] /\ \A q \in Patches \ (Null \cup {p}) :
                           TargetOf[q] = TargetOf[p] => field \notin Fields[q]

PatchesStand ==
  \A p \in Patches : \A i \in Stored :
    rows[i].task = touched[p] =>
      /\ Alone(p, "title") => rows[i].title = TitleOf[p] \/ loaded[p].title = TitleOf[p]
      /\ Alone(p, "completed") => rows[i].completed = DoneOf[p]

\* A deleted task does not come back, and a request answers with the row of
\* another task than its own only if its id was deleted and given again.
Own(r) == IF r \in Creates THEN r ELSE loaded[r].task

AnswersAgree ==
  /\ \A d \in Deletes : answer[d] = 204 =>
       \A i \in Stored : rows[i].task # loaded[d].task
  /\ \A r \in Creates \cup Patches : body[r] # None =>
       \/ body[r] = Own(r)
       \/ \E d \in Deletes : TargetOf[d] = id[r] /\ answer[d] = 204
=============================================================================
