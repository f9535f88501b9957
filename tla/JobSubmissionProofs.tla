------------------------ MODULE JobSubmissionProofs ------------------------
(***************************************************************************)
(* Proofs about JobSubmission, for any calls, keys, payloads and releases. *)
(* Only Commit writes a row; every other step moves one call, and it is    *)
(* enough that this call knows what its new phase says.                    *)
(***************************************************************************)
EXTENDS JobSubmission, TLAPS

\* What a call stores: the hash of its key, unless it has none.
LEMMA RowType ==
  ASSUME NEW r \in Requests
  PROVE  /\ RowOf(r).job = r /\ RowOf(r).key = KeyHash(r)
         /\ RowOf(r).fingerprint = Fingerprint(r)
         /\ Fingerprint(r) \in Fingerprints
         /\ KeyOf[r] \in Keys => KeyHash(r) \in Hashes
         /\ KeyHash(r) \in Hashes => KeyOf[r] \in Keys
         /\ Valid(r) => RowOf(r) \in Row
<1>1. Fingerprint(r) \in Fingerprints
  BY CallsAssumption, ReleasesAssumption DEF Fingerprint, Fingerprints
<1>2. KeyOf[r] \in Keys => KeyHash(r) \in Hashes
  BY CallsAssumption, ReleasesAssumption DEF KeyHash, Hashes
<1>3. KeyHash(r) \in Hashes => KeyOf[r] \in Keys
  BY CallsAssumption DEF KeyHash, Hashes
<1>4. Valid(r) => KeyHash(r) \in Hashes \cup {None}
  BY <1>2, CallsAssumption DEF Valid, KeyHash
<1> QED BY <1>1, <1>2, <1>3, <1>4 DEF RowOf, Row

\* At first nobody knows anything.
LEMMA InitInvariant == Init => IInv
BY FaultsAssumption DEF Init, IInv, TypeOK, InsertedAlone, RowsUnique, Told,
   At, Call, CallPC

\* A call moves to another phase without writing.
LEMMA CallMoves ==
  ASSUME IInv, NEW r \in Requests, NEW c \in Call,
         calls' = [calls EXCEPT ![r] = c], UNCHANGED rows,
         faults' \in 0..MaxFaults,
         Told(r)',
         c.pc = "inserted" =>
           /\ Valid(r) /\ Same(r) = {}
           /\ KeyHash(r) # None =>
                \A o \in Requests :
                  calls[o].pc = "inserted" => KeyHash(o) # KeyHash(r)
  PROVE  IInv'
<1>1. TypeOK'
  BY DEF IInv, TypeOK
<1>2. calls'[r] = c /\ \A o \in Requests \ {r} : calls'[o] = calls[o]
  BY DEF IInv, TypeOK
<1>3. InsertedAlone'
  BY <1>2 DEF IInv, InsertedAlone, Same
<1>4. RowsUnique'
  BY DEF IInv, RowsUnique
<1>5. \A o \in Requests : Told(o)'
  BY <1>2 DEF IInv, Told, ToldOf, Same
<1> QED BY <1>1, <1>3, <1>4, <1>5 DEF IInv

\* A refusal needs nothing of the database.
LEMMA RefuseStep ==
  ASSUME IInv, NEW r \in Requests, Refuse(r)
  PROVE  IInv'
<1>1. At("refused", None, 0) \in Call
  BY DEF At, Call, CallPC, Answers
<1>2. calls'[r] = At("refused", None, 0)
  BY DEF Refuse, IInv, TypeOK
<1>3. Told(r)'
  BY <1>2 DEF Told, At
<1> QED BY <1>1, <1>3, CallMoves DEF Refuse, At, IInv, TypeOK

\* The index admits one transaction per hash, or shows a committed row.
LEMMA InsertStep ==
  ASSUME IInv, NEW r \in Requests, Insert(r)
  PROVE  IInv'
<1>1. calls[r].pc = "called" /\ RowOf(r) \notin rows
  BY DEF Insert, IInv, Told
<1>2. faults' \in 0..MaxFaults /\ UNCHANGED rows
  BY DEF Insert, IInv, TypeOK
<1>3. CASE Same(r) = {}
  <2>1. At("inserted", None, 0) \in Call /\ At("inserted", None, 0).pc = "inserted"
    BY DEF At, Call, CallPC
  <2>2. calls' = [calls EXCEPT ![r] = At("inserted", None, 0)]
    BY <1>3 DEF Insert
  <2>3. calls'[r].pc = "inserted"
    BY <2>1, <2>2 DEF IInv, TypeOK
  <2>4. Told(r)'
    BY <1>1, <1>2, <2>3 DEF Told, RowOf
  <2> QED BY <1>2, <1>3, <2>1, <2>2, <2>4, CallMoves DEF Insert
<1>4. CASE Same(r) # {}
  <2>1. At("collided", None, 0) \in Call /\ At("collided", None, 0).pc = "collided"
    BY DEF At, Call, CallPC
  <2>2. calls' = [calls EXCEPT ![r] = At("collided", None, 0)]
    BY <1>4 DEF Insert
  <2>3. calls'[r].pc = "collided"
    BY <2>1, <2>2 DEF IInv, TypeOK
  <2>4. Told(r)'
    BY <1>1, <1>2, <1>4, <2>3 DEF Told, RowOf, Same
  <2> QED BY <1>2, <2>1, <2>2, <2>4, CallMoves
<1> QED BY <1>3, <1>4

\* The commit adds the only row of its hash.
LEMMA CommitStep ==
  ASSUME IInv, NEW r \in Requests, Commit(r)
  PROVE  IInv'
<1> USE DEF IInv
<1>1. /\ calls[r].pc = "inserted" /\ Valid(r) /\ Same(r) = {}
      /\ RowOf(r) \notin rows
      /\ rows' = rows \cup {RowOf(r)}
  BY DEF Commit, InsertedAlone, Told
<1>2. /\ calls'[r].pc = "committed"
      /\ At("committed", r, 0) \in Call
      /\ \A o \in Requests \ {r} : calls'[o] = calls[o]
  BY DEF Commit, At, Call, CallPC, TypeOK
<1>3. TypeOK'
  <2>1. rows' \in SUBSET Row
    BY <1>1, RowType DEF TypeOK
  <2> QED BY <1>2, <2>1 DEF Commit, TypeOK
<1>4. InsertedAlone'
  <2> SUFFICES ASSUME NEW o \in Requests, calls'[o].pc = "inserted"
               PROVE  /\ Valid(o)
                      /\ Same(o)' = {}
                      /\ KeyHash(o) # None =>
                           \A q \in Requests :
                             calls'[q].pc = "inserted" /\ KeyHash(q) = KeyHash(o)
                               => q = o
    BY DEF InsertedAlone, Valid, KeyHash
  <2>1. o # r /\ calls[o].pc = "inserted"
    BY <1>2
  <2>2. Valid(o) /\ Same(o) = {} /\ (KeyHash(o) # None => KeyHash(o) # KeyHash(r))
    BY <1>1, <2>1 DEF InsertedAlone
  <2>3. Same(o)' = {}
    BY <1>1, <2>2, RowType DEF Same, KeyHash
  <2> QED BY <1>2, <2>1, <2>2, <2>3 DEF InsertedAlone
<1>5. RowsUnique'
  <2>1. \A row \in rows' : row = RowOf(row.job)
    BY <1>1, RowType DEF RowsUnique
  <2>2. \A row \in rows : row.key # None => row.key # KeyHash(r)
    BY <1>1 DEF Same
  <2> QED BY <1>1, <2>1, <2>2, RowType DEF RowsUnique, RowOf, KeyHash, Fingerprint
<1>6. ASSUME NEW o \in Requests PROVE Told(o)'
  <2>1. rows \subseteq rows' /\ RowOf(o)' = RowOf(o)
    BY <1>1 DEF RowOf, KeyHash, Fingerprint
  <2>2. CASE o = r
    BY <1>1, <1>2, <2>1, <2>2 DEF Told
  <2>3. CASE o # r
    <3>1. Told(o) /\ calls'[o] = calls[o]
      BY <1>2, <2>3
    <3>2. RowOf(o) \in rows' => RowOf(o) \in rows
      BY <1>1, <2>3, RowType
    <3>3. Same(o) \subseteq Same(o)'
      BY <2>1 DEF Same, KeyHash
    <3>4. ToldOf(o, calls[o].job) => ToldOf(o, calls[o].job)'
      BY <2>1, <3>1 DEF ToldOf
    <3> QED BY <2>1, <3>1, <3>2, <3>3, <3>4 DEF Told, Fingerprint
  <2> QED BY <2>2, <2>3
<1> QED BY <1>3, <1>4, <1>5, <1>6

\* The creator is told of its own row.
LEMMA RefreshStep ==
  ASSUME IInv, NEW r \in Requests, Refresh(r)
  PROVE  IInv'
<1>1. RowOf(r) \in rows /\ UNCHANGED <<rows, faults>>
  BY DEF Refresh, IInv, Told
<1>2. At("ok", r, 1) \in Call /\ At("ok", r, 1).pc = "ok"
  BY DEF At, Call, CallPC, Answers
<1>3. calls'[r].pc = "ok" /\ calls'[r].job = r /\ calls'[r].created = 1
  BY DEF Refresh, At, IInv, TypeOK
<1>4. Told(r)'
  BY <1>1, <1>3 DEF Told, ToldOf, RowOf
<1> QED BY <1>1, <1>2, <1>4, CallMoves DEF Refresh, IInv, TypeOK

\* A call that was stopped is told of another call's row, or is refused.
LEMMA FindStep ==
  ASSUME IInv, NEW r \in Requests, Find(r)
  PROVE  IInv'
<1>1. PICK row \in Same(r) :
        calls' = [calls EXCEPT ![r] =
          IF row.fingerprint = Fingerprint(r) THEN At("ok", row.job, 0)
                                              ELSE At("mismatch", None, 0)]
  BY DEF Find
<1>2. /\ row \in rows /\ row.job \in Requests /\ row = RowOf(row.job)
      /\ KeyHash(r) # None /\ row.key = KeyHash(r)
      /\ RowOf(r) \notin rows
      /\ UNCHANGED <<rows, faults>>
  BY DEF Same, Find, IInv, TypeOK, RowsUnique, Row, Told
<1>3. CASE row.fingerprint = Fingerprint(r)
  <2>1. At("ok", row.job, 0) \in Call /\ At("ok", row.job, 0).pc = "ok"
    BY <1>2 DEF At, Call, CallPC, Answers
  <2>2. calls'[r].pc = "ok" /\ calls'[r].job = row.job /\ calls'[r].created = 0
    BY <1>1, <1>3 DEF At, IInv, TypeOK
  <2>3. /\ RowOf(row.job) \in rows /\ row.job # r
        /\ Fingerprint(row.job) = Fingerprint(r)
        /\ KeyHash(row.job) = KeyHash(r)
    BY <1>2, <1>3, RowType
  <2>4. Told(r)'
    BY <1>2, <2>2, <2>3 DEF Told, ToldOf
  <2> QED BY <1>1, <1>2, <1>3, <2>1, <2>4, CallMoves DEF IInv, TypeOK
<1>4. CASE row.fingerprint # Fingerprint(r)
  <2>1. At("mismatch", None, 0) \in Call /\ At("mismatch", None, 0).pc = "mismatch"
    BY DEF At, Call, CallPC, Answers
  <2>2. calls'[r].pc = "mismatch" /\ calls'[r].job = None
    BY <1>1, <1>4 DEF At, IInv, TypeOK
  <2>3. Told(r)'
    BY <1>1, <1>2, <1>4, <2>2 DEF Told, Same
  <2> QED BY <1>1, <1>2, <1>4, <2>1, <2>3, CallMoves DEF IInv, TypeOK
<1> QED BY <1>3, <1>4

\* A failed call knows nothing.
LEMMA FailStep ==
  ASSUME IInv, NEW r \in Requests, Fail(r)
  PROVE  IInv'
<1>1. At("error", None, 0) \in Call /\ At("error", None, 0).pc = "error"
  BY DEF At, Call, CallPC, Answers
<1>2. calls'[r].pc = "error" /\ calls'[r].job = None
  BY DEF Fail, At, IInv, TypeOK
<1>3. Told(r)'
  BY <1>2 DEF Told
<1>4. faults' \in 0..MaxFaults
  BY FaultsAssumption DEF Fail, IInv, TypeOK
<1> QED BY <1>1, <1>3, <1>4, CallMoves DEF Fail

\* Every step of a call keeps the invariant.
LEMMA NextInvariant == IInv /\ [Next]_vars => IInv'
<1> SUFFICES ASSUME IInv, [Next]_vars PROVE IInv'
  OBVIOUS
<1>1. ASSUME NEW r \in Requests, Submit(r) \/ Fail(r) PROVE IInv'
  BY <1>1, RefuseStep, InsertStep, CommitStep, RefreshStep, FindStep, FailStep
     DEF Submit
<1>2. CASE UNCHANGED vars
  BY <1>2 DEF vars, IInv, TypeOK, InsertedAlone, RowsUnique, Told, ToldOf, Same
<1> QED BY <1>1, <1>2 DEF Next

\* The invariant that the theorems below rest on.
THEOREM Invariant == Spec => []IInv
BY InitInvariant, NextInvariant, PTL DEF Spec

\* The calls, the table and the count of faults keep their types.
THEOREM TypeCorrect == Spec => []TypeOK
<1>1. IInv => TypeOK
  BY DEF IInv
<1> QED BY <1>1, Invariant, PTL

\* A client is told of a job that was asked for like its own, by a release
\* with the same model and instructions, and that it created the job exactly
\* if it did; 409 is for a key that stands for something else.
THEOREM AnswersAreTrue == Spec => []AnswersAgree
<1>1. ASSUME NEW r \in Requests, NEW o \in Requests, KeyHash(r) # None,
             KeyHash(o) = KeyHash(r)
      PROVE  KeyOf[o] = KeyOf[r] /\ SecretOf[ServedBy[o]] = SecretOf[ServedBy[r]]
  BY <1>1 DEF KeyHash
<1>2. ASSUME IInv, NEW r \in Requests, calls[r].pc = "ok"
      PROVE  LET j == calls[r].job IN
             /\ RowOf(j) \in rows
             /\ PayloadOf[j] = PayloadOf[r]
             /\ ProfileOf[ServedBy[j]] = ProfileOf[ServedBy[r]]
             /\ calls[r].created = 1 <=> j = r
             /\ j # r => KeyOf[j] = KeyOf[r]
  <2>1. PICK j \in Requests : j = calls[r].job /\ ToldOf(r, j)
    BY <1>2 DEF IInv, Told, ToldOf
  <2>2. PayloadOf[j] = PayloadOf[r] /\ ProfileOf[ServedBy[j]] = ProfileOf[ServedBy[r]]
    BY <2>1 DEF ToldOf, Fingerprint
  <2>3. j # r => KeyOf[j] = KeyOf[r]
    BY <1>1, <2>1 DEF ToldOf
  <2>4. RowOf(j) \in rows /\ (calls[r].created = 1 <=> j = r)
    BY <2>1 DEF ToldOf
  <2> QED BY <2>1, <2>2, <2>3, <2>4
<1>3. ASSUME IInv, NEW r \in Requests, calls[r].pc = "mismatch"
      PROVE  \E o \in Requests :
               /\ RowOf(o) \in rows
               /\ KeyOf[o] = KeyOf[r]
               /\ \/ PayloadOf[o] # PayloadOf[r]
                  \/ ProfileOf[ServedBy[o]] # ProfileOf[ServedBy[r]]
  <2>1. PICK row \in Same(r) : row.fingerprint # Fingerprint(r)
    BY <1>3 DEF IInv, Told
  <2>2. PICK o \in Requests : row = RowOf(o)
    BY <1>3 DEF Same, IInv, TypeOK, RowsUnique, Row
  <2>3. /\ RowOf(o) \in rows /\ KeyHash(r) # None
        /\ KeyHash(o) = KeyHash(r) /\ Fingerprint(o) # Fingerprint(r)
    BY <2>1, <2>2, RowType DEF Same
  <2>4. KeyOf[o] = KeyOf[r] /\ SecretOf[ServedBy[o]] = SecretOf[ServedBy[r]]
    BY <1>1, <2>3
  <2>5. \/ PayloadOf[o] # PayloadOf[r]
        \/ ProfileOf[ServedBy[o]] # ProfileOf[ServedBy[r]]
    BY <2>3, <2>4 DEF Fingerprint
  <2> QED BY <2>3, <2>4, <2>5
<1>4. IInv => AnswersAgree
  BY <1>2, <1>3 DEF AnswersAgree
<1> QED BY <1>4, Invariant, PTL

-----------------------------------------------------------------------------
(* The endpoint implements IdempotentCreate.                               *)

\* The refinement mapping of Promise.
Owners == [h \in Hashes |-> {row.job : row \in {x \in rows : x.key = h}}]

Outcomes == [r \in Keyed |-> Outcome(r)]

\* What a step of JobSubmission is to IdempotentCreate.
PromiseStep == Promise!Next \/ UNCHANGED <<Owners, Outcomes>>

\* The owners of a hash are the calls whose rows have it.
LEMMA OwnersOf ==
  ASSUME IInv, NEW r \in Keyed
  PROVE  /\ KeyHash(r) \in Hashes /\ KeyHash(r) # None
         /\ Owners[KeyHash(r)] = {row.job : row \in Same(r)}
         /\ \A row \in Same(r) : /\ row.job \in Owners[KeyHash(r)]
                                 /\ row.job \in Keyed
                                 /\ Fingerprint(row.job) = row.fingerprint
<1>1. KeyHash(r) \in Hashes /\ KeyHash(r) # None
  BY RowType, CallsAssumption DEF Keyed, Hashes
<1>2. ASSUME NEW row \in Same(r)
      PROVE  row.job \in Keyed /\ Fingerprint(row.job) = row.fingerprint
  <2>1. row = RowOf(row.job) /\ row.job \in Requests /\ row.key = KeyHash(r)
    BY DEF Same, IInv, RowsUnique, TypeOK, Row
  <2> QED BY <1>1, <2>1, RowType DEF Keyed
<1> QED BY <1>1, <1>2 DEF Owners, Same

\* A call that moves without writing is not seen until it ends, and calls
\* without a key never are.
LEMMA Silent ==
  ASSUME IInv, NEW r \in Requests, NEW c \in Call, ~Ended(r),
         calls' = [calls EXCEPT ![r] = c], UNCHANGED rows,
         r \notin Keyed \/ c.pc \notin Answers
  PROVE  PromiseStep
<1>1. calls'[r] = c /\ \A o \in Requests \ {r} : calls'[o] = calls[o]
  BY DEF IInv, TypeOK
<1>2. \A o \in Keyed : Outcome(o)' = Outcome(o)
  BY <1>1 DEF Keyed, Outcome, Ended
<1> QED BY <1>2 DEF PromiseStep, Outcomes, Owners

\* A keyed call that ends is answered in the way its last phase says.
LEMMA Answering ==
  ASSUME IInv, NEW r \in Keyed, NEW c \in Call, ~Ended(r),
         calls' = [calls EXCEPT ![r] = c], UNCHANGED rows, c.pc \in Answers
  PROVE  Promise!Answered(r, IF c.pc = "refused" THEN "error" ELSE c.pc, c.job)
<1> DEFINE kind == IF c.pc = "refused" THEN "error" ELSE c.pc
<1>1. calls'[r] = c /\ \A o \in Requests \ {r} : calls'[o] = calls[o]
  BY DEF IInv, TypeOK, Keyed
<1>2. \A o \in Keyed \ {r} : Outcome(o)' = Outcome(o)
  BY <1>1 DEF Keyed, Outcome, Ended
<1>3. Outcome(r) = [kind |-> "pending", job |-> None]
  BY DEF Outcome
<1>4. Outcome(r)' = [kind |-> kind, job |-> c.job]
  BY <1>1 DEF Outcome, Ended
<1> HIDE DEF kind
<1>5. /\ Owners' = Owners
      /\ Outcomes[r] = [kind |-> "pending", job |-> None]
      /\ Outcomes' = [Outcomes EXCEPT ![r] = [kind |-> kind, job |-> c.job]]
  BY <1>2, <1>3, <1>4 DEF Outcomes, Owners
<1>6. Promise!Answered(r, kind, c.job)
  BY <1>5 DEF Promise!Answered, Promise!Pending, Owners, Outcomes
<1> QED BY <1>6 DEF kind

\* A refusal tells a keyed client no more than an error.
LEMMA RefuseKeeps ==
  ASSUME IInv, NEW r \in Requests, Refuse(r)
  PROVE  PromiseStep
<1> DEFINE c == At("refused", None, 0)
<1>1. /\ c \in Call /\ c.pc = "refused" /\ c.job = None /\ c.pc \in Answers
      /\ calls' = [calls EXCEPT ![r] = c] /\ UNCHANGED rows /\ ~Ended(r)
  BY DEF Refuse, At, Call, CallPC, Answers, Ended
<1> HIDE DEF c
<1>2. CASE r \in Keyed
  <2>1. Promise!GiveUp(r)
    BY <1>1, <1>2, Answering DEF Promise!GiveUp
  <2> QED BY <1>2, <2>1 DEF PromiseStep, Promise!Next
<1>3. CASE r \notin Keyed
  BY <1>1, <1>3, Silent
<1> QED BY <1>2, <1>3

\* What happens inside a transaction is not seen.
LEMMA InsertKeeps ==
  ASSUME IInv, NEW r \in Requests, Insert(r)
  PROVE  PromiseStep
<1> DEFINE c == At(IF Same(r) = {} THEN "inserted" ELSE "collided", None, 0)
<1>1. /\ c \in Call /\ c.pc \notin Answers
      /\ calls' = [calls EXCEPT ![r] = c] /\ UNCHANGED rows /\ ~Ended(r)
  BY DEF Insert, At, Call, CallPC, Answers, Ended
<1> HIDE DEF c
<1> QED BY <1>1, Silent

\* The commit binds the hash, which had no row.
LEMMA CommitKeeps ==
  ASSUME IInv, NEW r \in Requests, Commit(r)
  PROVE  PromiseStep
<1>1. /\ calls[r].pc = "inserted" /\ Same(r) = {} /\ Valid(r)
      /\ rows' = rows \cup {RowOf(r)}
  BY DEF Commit, IInv, InsertedAlone
<1>2. calls'[r].pc = "committed" /\ \A o \in Requests \ {r} : calls'[o] = calls[o]
  BY DEF Commit, At, IInv, TypeOK
<1>3. Outcomes' = Outcomes
  <2>1. \A o \in Requests : Outcome(o)' = Outcome(o)
    BY <1>1, <1>2 DEF Outcome, Ended, Answers
  <2> QED BY <2>1 DEF Outcomes, Keyed
<1> DEFINE Of(h) == {row.job : row \in {x \in rows : x.key = h}}
           Now(h) == {row.job : row \in {x \in rows' : x.key = h}}
<1>4. Owners = [h \in Hashes |-> Of(h)] /\ Owners' = [h \in Hashes |-> Now(h)]
  BY DEF Owners
<1>5. \A h \in Hashes : h # KeyHash(r) => Now(h) = Of(h)
  BY <1>1, RowType
<1>6. CASE r \in Keyed
  <2>1. KeyHash(r) \in Hashes /\ KeyHash(r) # None /\ Owners[KeyHash(r)] = {}
    BY <1>1, <1>6, OwnersOf
  <2>2. Now(KeyHash(r)) = {r}
    <3>1. {x \in rows' : x.key = KeyHash(r)} = {RowOf(r)}
      BY <1>1, <2>1, RowType DEF Same
    <3> QED BY <3>1, RowType
  <2> HIDE DEF Of, Now
  <2>3. Owners' = [Owners EXCEPT ![KeyHash(r)] = {r}]
    BY <1>4, <1>5, <2>1, <2>2
  <2>4. Outcomes[r] = [kind |-> "pending", job |-> None]
    BY <1>1, <1>6 DEF Outcomes, Outcome, Ended, Answers
  <2>5. Promise!Bind(r)
    BY <1>3, <1>6, <2>1, <2>3, <2>4
       DEF Promise!Bind, Promise!Pending, Owners, Outcomes
  <2> QED BY <1>6, <2>5 DEF PromiseStep, Promise!Next
<1>7. CASE r \notin Keyed
  <2>1. KeyHash(r) \notin Hashes
    BY <1>7, RowType DEF Keyed
  <2> HIDE DEF Of, Now
  <2>2. Owners' = Owners
    BY <1>4, <1>5, <2>1
  <2> QED BY <1>3, <2>2 DEF PromiseStep
<1> QED BY <1>6, <1>7

\* The creator is told of the job it has bound.
LEMMA RefreshKeeps ==
  ASSUME IInv, NEW r \in Requests, Refresh(r)
  PROVE  PromiseStep
<1> DEFINE c == At("ok", r, 1)
<1>1. /\ c \in Call /\ c.pc = "ok" /\ c.job = r /\ c.pc \in Answers
      /\ calls' = [calls EXCEPT ![r] = c] /\ UNCHANGED rows /\ ~Ended(r)
      /\ RowOf(r) \in rows
  BY DEF Refresh, At, Call, CallPC, Answers, Ended, IInv, Told
<1> HIDE DEF c
<1>2. CASE r \in Keyed
  <2>1. Promise!Answered(r, "ok", r)
    BY <1>1, <1>2, Answering
  <2>2. KeyHash(r) \in Hashes /\ r \in Owners[KeyHash(r)]
    BY <1>1, <1>2, OwnersOf, RowType DEF Same
  <2>3. Promise!Tell(r)
    BY <1>2, <2>1, <2>2 DEF Promise!Tell, Owners
  <2> QED BY <1>2, <2>3 DEF PromiseStep, Promise!Next
<1>3. CASE r \notin Keyed
  BY <1>1, <1>3, Silent
<1> QED BY <1>2, <1>3

\* A call that lost to another is told of the winner, or refused.
LEMMA FindKeeps ==
  ASSUME IInv, NEW r \in Requests, Find(r)
  PROVE  PromiseStep
<1>1. PICK row \in Same(r) :
        calls' = [calls EXCEPT ![r] =
          IF row.fingerprint = Fingerprint(r) THEN At("ok", row.job, 0)
                                              ELSE At("mismatch", None, 0)]
  BY DEF Find
<1>2. ~Ended(r) /\ UNCHANGED rows
  BY DEF Find, Ended, Answers
<1>3. r \in Keyed
  <2>1. row \in Row /\ row.key = KeyHash(r) /\ KeyHash(r) # None
    BY DEF Same, IInv, TypeOK
  <2> QED BY <2>1, RowType DEF Keyed, Row
<1>4. PICK o \in Keyed : o = row.job
  BY <1>3, OwnersOf
<1>5. o \in Owners[KeyHash(r)] /\ Fingerprint(o) = row.fingerprint
  BY <1>3, <1>4, OwnersOf
<1>6. CASE row.fingerprint = Fingerprint(r)
  <2> DEFINE c == At("ok", o, 0)
  <2>1. /\ c \in Call /\ c.pc = "ok" /\ c.job = o /\ c.pc \in Answers
        /\ calls' = [calls EXCEPT ![r] = c]
    BY <1>1, <1>4, <1>6 DEF At, Call, CallPC, Answers, Keyed
  <2> HIDE DEF c
  <2>2. Promise!Answered(r, "ok", o)
    BY <1>2, <1>3, <2>1, Answering
  <2>3. Promise!Tell(r)
    BY <1>3, <1>5, <1>6, <2>2 DEF Promise!Tell, Owners
  <2> QED BY <1>3, <2>3 DEF PromiseStep, Promise!Next
<1>7. CASE row.fingerprint # Fingerprint(r)
  <2> DEFINE c == At("mismatch", None, 0)
  <2>1. /\ c \in Call /\ c.pc = "mismatch" /\ c.job = None /\ c.pc \in Answers
        /\ calls' = [calls EXCEPT ![r] = c]
    BY <1>1, <1>7 DEF At, Call, CallPC, Answers
  <2> HIDE DEF c
  <2>2. Promise!Answered(r, "mismatch", None)
    BY <1>2, <1>3, <2>1, Answering
  <2>3. Promise!RefuseOther(r)
    BY <1>3, <1>4, <1>5, <1>7, <2>2 DEF Promise!RefuseOther, Owners
  <2> QED BY <1>3, <2>3 DEF PromiseStep, Promise!Next
<1> QED BY <1>6, <1>7

\* A call may end without a job to tell of at any time.
LEMMA FailKeeps ==
  ASSUME IInv, NEW r \in Requests, Fail(r)
  PROVE  PromiseStep
<1> DEFINE c == At("error", None, 0)
<1>1. /\ c \in Call /\ c.pc = "error" /\ c.job = None /\ c.pc \in Answers
      /\ calls' = [calls EXCEPT ![r] = c] /\ UNCHANGED rows /\ ~Ended(r)
  BY DEF Fail, At, Call, CallPC, Answers
<1> HIDE DEF c
<1>2. CASE r \in Keyed
  <2>1. Promise!GiveUp(r)
    BY <1>1, <1>2, Answering DEF Promise!GiveUp
  <2> QED BY <1>2, <2>1 DEF PromiseStep, Promise!Next
<1>3. CASE r \notin Keyed
  BY <1>1, <1>3, Silent
<1> QED BY <1>2, <1>3

\* The endpoint keeps the promise of its Idempotency-Key, with hashes for
\* keys and fingerprints for payloads: this is what a redeployment between a
\* request and its repeat leaves of the promise.
THEOREM PromiseIsKept == Spec => KeepsPromise
<1>1. Init => Promise!Init
  BY DEF Init, Promise!Init, Promise!Pending, At, Outcome, Ended, Answers, Keyed
<1>2. IInv /\ [Next]_vars => [Promise!Next]_<<Owners, Outcomes>>
  <2> SUFFICES ASSUME IInv, [Next]_vars PROVE PromiseStep
    BY DEF PromiseStep
  <2>1. ASSUME NEW r \in Requests, Submit(r) \/ Fail(r) PROVE PromiseStep
    BY <2>1, RefuseKeeps, InsertKeeps, CommitKeeps, RefreshKeeps, FindKeeps,
       FailKeeps DEF Submit
  <2>2. CASE UNCHANGED vars
    BY <2>2 DEF vars, PromiseStep, Owners, Outcomes, Outcome, Ended
  <2> QED BY <2>1, <2>2 DEF Next
<1> QED BY <1>1, <1>2, Invariant, PTL
        DEF Spec, KeepsPromise, Promise!Spec, Owners, Outcomes

-----------------------------------------------------------------------------
(* What EveryCallEnds rests on, the fairness apart: a call is never stuck  *)
(* but behind a transaction that can commit, every step takes one call     *)
(* nearer to its answer, and behind a commit no call waits again.          *)

\* The transaction of o has inserted the hash of r.
Bars(o, r) ==
  calls[o].pc = "inserted" /\ KeyHash(o) = KeyHash(r) /\ KeyHash(r) # None

\* The guards of the actions that Submit(r) consists of.
MayGoOn(r) ==
  \/ calls[r].pc = "called" /\ ~Valid(r)
  \/ calls[r].pc = "called" /\ \A o \in Requests : ~Bars(o, r)
  \/ calls[r].pc \in {"inserted", "committed"}
  \/ calls[r].pc = "collided" /\ Same(r) # {}

\* A call that can not go on waits for one that can, and for no other.
NeverStuck ==
  \A r \in Requests :
    \/ Ended(r) \/ MayGoOn(r)
    \/ \E o \in Requests \ {r} :
         Bars(o, r) /\ MayGoOn(o) /\ \A q \in Requests : Bars(q, r) => q = o

Rung(pc) ==
  CASE pc = "called" -> 0 [] pc \in {"inserted", "collided"} -> 1
    [] pc = "committed" -> 2 [] OTHER -> 3

\* One call goes on, and the others stay where they are.
Advances ==
  \E r \in Requests :
    /\ Rung(calls[r].pc) < Rung(calls'[r].pc)
    /\ \A q \in Requests \ {r} : calls'[q] = calls[q]

\* A transaction that others wait for leaves a row behind, which nobody waits
\* for, or was one of the calls that fail.
WaitEnds ==
  \A r, o \in Requests :
    /\ Same(r) # {} => Same(r)' # {} /\ ~Bars(o, r)
    /\ Bars(o, r) /\ ~Bars(o, r)' => Same(r)' # {} \/ faults' = faults + 1

LEMMA WaitingForOne ==
  ASSUME IInv
  PROVE  NeverStuck
<1> SUFFICES ASSUME NEW r \in Requests, ~Ended(r), ~MayGoOn(r)
             PROVE  \E o \in Requests \ {r} :
                      /\ Bars(o, r) /\ MayGoOn(o)
                      /\ \A q \in Requests : Bars(q, r) => q = o
  BY DEF NeverStuck
<1>1. calls[r].pc \in {"called", "inserted", "collided", "committed"}
  BY DEF IInv, TypeOK, Call, CallPC, Ended
<1>2. calls[r].pc = "called"
  BY <1>1 DEF MayGoOn, IInv, Told
<1>3. PICK o \in Requests : Bars(o, r)
  BY <1>2 DEF MayGoOn
<1>4. o # r /\ MayGoOn(o)
  BY <1>2, <1>3 DEF Bars, MayGoOn
<1>5. \A q \in Requests : Bars(q, r) => q = o
  BY <1>3 DEF Bars, IInv, InsertedAlone
<1> QED BY <1>3, <1>4, <1>5

LEMMA StepAdvances ==
  ASSUME IInv, NEW r \in Requests, Submit(r) \/ Fail(r)
  PROVE  Advances
<1>0. calls \in [Requests -> Call]
  BY DEF IInv, TypeOK
<1> SUFFICES /\ Rung(calls[r].pc) < Rung(calls'[r].pc)
             /\ \A q \in Requests \ {r} : calls'[q] = calls[q]
  BY DEF Advances
<1>1. CASE Refuse(r)
  BY <1>0, <1>1 DEF Refuse, At, Rung
<1>2. CASE Insert(r)
  BY <1>0, <1>2 DEF Insert, At, Rung
<1>3. CASE Commit(r)
  BY <1>0, <1>3 DEF Commit, At, Rung
<1>4. CASE Refresh(r)
  BY <1>0, <1>4 DEF Refresh, At, Rung
<1>5. CASE Find(r)
  BY <1>0, <1>5 DEF Find, At, Rung
<1>6. CASE Fail(r)
  BY <1>0, <1>6 DEF Fail, Ended, Answers, At, Rung, Call, CallPC
<1> QED BY <1>1, <1>2, <1>3, <1>4, <1>5, <1>6 DEF Submit

LEMMA StepEndsWait ==
  ASSUME IInv, [Next]_vars
  PROVE  WaitEnds
<1>1. rows \subseteq rows'
  BY DEF Next, Submit, Refuse, Insert, Commit, Refresh, Find, Fail, vars
<1> SUFFICES ASSUME NEW r \in Requests, NEW o \in Requests
             PROVE  /\ Same(r) # {} => Same(r)' # {} /\ ~Bars(o, r)
                    /\ Bars(o, r) /\ ~Bars(o, r)' => Same(r)' # {} \/ faults' = faults + 1
  BY DEF WaitEnds
<1>2. Same(r) # {} => Same(r)' # {}
  BY <1>1 DEF Same, KeyHash
<1>3. Same(r) # {} => ~Bars(o, r)
  BY DEF Bars, Same, IInv, InsertedAlone
<1>4. ASSUME Bars(o, r), ~Bars(o, r)'
      PROVE  Same(r)' # {} \/ faults' = faults + 1
  <2>1. calls[o].pc = "inserted" /\ calls'[o] # calls[o]
    BY <1>4 DEF Bars, KeyHash
  <2>2. PICK q \in Requests : Submit(q) \/ Fail(q)
    BY <2>1 DEF Next, vars
  <2>3. q = o
    BY <2>1, <2>2 DEF Submit, Refuse, Insert, Commit, Refresh, Find, Fail, IInv, TypeOK
  <2>4. CASE Submit(o)
    <3>1. rows' = rows \cup {RowOf(o)}
      BY <2>1, <2>4 DEF Submit, Refuse, Insert, Commit, Refresh, Find
    <3>2. RowOf(o).key = KeyHash(r) /\ KeyHash(r) # None
      BY <1>4, RowType DEF Bars
    <3> QED BY <3>1, <3>2 DEF Same, KeyHash
  <2>5. CASE Fail(o)
    BY <2>5 DEF Fail
  <2> QED BY <2>2, <2>3, <2>4, <2>5
<1> QED BY <1>2, <1>3, <1>4

\* For any calls and releases, a call that is not answered can go on, or it
\* waits for the one transaction that holds its hash, which can.
THEOREM NoDeadlock == Spec => []NeverStuck
BY WaitingForOne, Invariant, PTL

\* For any calls and releases, every step takes one call nearer to its answer,
\* and a wait ends with a row that nobody waits for or with a failed call: a
\* call waits no oftener than calls fail, and once more.
THEOREM StepsAdvance == Spec => [][Advances /\ WaitEnds]_vars
<1>1. IInv /\ [Next]_vars => [Advances /\ WaitEnds]_vars
  BY StepAdvances, StepEndsWait DEF Next
<1> QED BY <1>1, Invariant, PTL DEF Spec
=============================================================================
