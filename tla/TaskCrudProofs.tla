--------------------------- MODULE TaskCrudProofs ---------------------------
(***************************************************************************)
(* Proofs about TaskCrud for any requests.  The invariant ties a row to    *)
(* the request that created it (RowsKnown), what a request has loaded to   *)
(* the row that it will meet again (Meets), and what a patch has written   *)
(* to the rows that others loaded earlier (Stands).                        *)
(***************************************************************************)
EXTENDS TaskCrud, TLAPS

Editors == Patches \cup Deletes

Gone(i) == \E d \in Deletes : TargetOf[d] = i /\ answer[d] = 204

\* A task has one row, and its request has inserted it.
RowsKnown ==
  /\ \A r \in Editors : id[r] = TargetOf[r]
  /\ \A i \in Stored : pc[rows[i].task] # "new" /\ id[rows[i].task] = i

\* What a request has loaded is a row with its id.
LoadsKnown ==
  \A r \in Editors :
    /\ loaded[r] # None => /\ pc[r] # "new"
                           /\ pc[loaded[r].task] # "new"
                           /\ id[loaded[r].task] = id[r]
    /\ pc[r] \in {"loaded", "committed"} => loaded[r] # None /\ r \notin Null

\* A deleted task has no row.
Final ==
  \A d \in Deletes : answer[d] = 204 =>
    /\ pc[d] = "done" /\ loaded[d] # None
    /\ \A i \in Stored : rows[i].task # loaded[d].task

\* Unless its id was deleted, a request will meet its own task again.
MeetsOwn(r) ==
  /\ pc[r] \in {"loaded", "committed"} /\ ~Gone(id[r]) =>
       id[r] \in Stored /\ rows[id[r]].task = Own(r)
  /\ body[r] # None => /\ pc[r] = "done"
                       /\ body[r] = Own(r) \/ Gone(id[r])

Meets == \A r \in Creates \cup Patches : MeetsOwn(r)

\* What a patch has written stands, and a field that it will be the first to
\* write is as it was created.
Stands ==
  /\ \A p \in Patches :
       /\ touched[p] # None => /\ pc[touched[p]] # "new"
                               /\ id[touched[p]] = TargetOf[p]
                               /\ pc[p] \in {"committed", "done"}
       /\ Alone(p, "completed") /\ touched[p] = None =>
            /\ \A i \in Stored : i = TargetOf[p] => rows[i].completed = "no"
            /\ loaded[p] # None => loaded[p].completed = "no"
  /\ PatchesStand

IInv == TypeOK /\ RowsKnown /\ LoadsKnown /\ Final /\ Meets /\ Stands

LEMMA NoneApart == None \notin Creates /\ None \notin Row /\ None \notin Nat
BY RequestsAssumption

LEMMA StoredRows ==
  ASSUME TypeOK
  PROVE  /\ Stored \subseteq Ids
         /\ \A i \in Stored : rows[i] \in Row /\ rows[i].task \in Creates
BY DEF TypeOK, Stored, Row

LEMMA LoadedRows ==
  ASSUME TypeOK, NEW r \in Editors, loaded[r] # None
  PROVE  loaded[r] \in Row /\ loaded[r].task \in Creates
<1>1. loaded[r] \in Row
  BY DEF TypeOK, Editors
<1> QED BY <1>1 DEF Row

\* What an UPDATE leaves and sets.
LEMMA WrittenRow ==
  ASSUME NEW p \in Patches, NEW row \in Row, loaded[p] \in Row
  PROVE  /\ Written(p, row) \in Row
         /\ Written(p, row).task = row.task
         /\ "title" \notin Fields[p] => Written(p, row).title = row.title
         /\ "completed" \notin Fields[p] => Written(p, row).completed = row.completed
         /\ "title" \in Fields[p] =>
              Written(p, row).title =
                IF TitleOf[p] # loaded[p].title THEN TitleOf[p] ELSE row.title
         /\ "completed" \in Fields[p] =>
              Written(p, row).completed =
                IF DoneOf[p] # loaded[p].completed THEN DoneOf[p] ELSE row.completed
<1>1. TitleOf[p] \in Titles /\ DoneOf[p] \in {"no", "yes"}
  BY RequestsAssumption
<1> DEFINE t == IF "title" \in Fields[p] /\ TitleOf[p] # loaded[p].title
                  THEN TitleOf[p] ELSE row.title
           d == IF "completed" \in Fields[p] /\ DoneOf[p] # loaded[p].completed
                  THEN DoneOf[p] ELSE row.completed
<1>2. t \in Titles /\ d \in {"no", "yes"}
  BY <1>1 DEF Row
<1>3. Written(p, row) = [row EXCEPT !.title = t, !.completed = d]
  BY DEF Written, Row
<1>4. /\ Written(p, row) \in Row
      /\ Written(p, row).task = row.task
      /\ Written(p, row).title = t /\ Written(p, row).completed = d
  <2> HIDE DEF t, d
  <2> QED BY <1>2, <1>3 DEF Row
<1> QED BY <1>4

LEMMA InitIInv == Init => IInv
<1> SUFFICES ASSUME Init PROVE IInv
  OBVIOUS
<1>1. Stored = {}
  BY DEF Init, Stored
<1>2. TypeOK
  <2>1. \A r \in Requests : (IF r \in Creates THEN 0 ELSE TargetOf[r]) \in Nat
    BY RequestsAssumption DEF Requests
  <2> QED BY <2>1, RequestsAssumption DEF Init, TypeOK
<1>3. RowsKnown /\ LoadsKnown
  BY <1>1, RequestsAssumption DEF Init, RowsKnown, LoadsKnown, Editors, Requests
<1>4. Final /\ Meets
  BY <1>1, NoneApart DEF Init, Final, Meets, MeetsOwn, Requests
<1>5. Stands
  BY <1>1 DEF Init, Stands, PatchesStand
<1> QED BY <1>2, <1>3, <1>4, <1>5 DEF IInv

LEMMA CreateIInv ==
  ASSUME IInv, NEW c \in Requests, Create(c)
  PROVE  IInv'
<1>1. c \in Creates /\ pc[c] = "new" /\ c \notin Editors
  BY RequestsAssumption DEF Create, Editors
<1>2. PICK n \in Ids :
        /\ IsNextId(n)
        /\ rows' = [rows EXCEPT ![n] =
                     [task |-> c, title |-> TitleOf[c], completed |-> "no"]]
        /\ id' = [id EXCEPT ![c] = n]
  BY DEF Create
<1> DEFINE new == [task |-> c, title |-> TitleOf[c], completed |-> "no"]
<1>3. new \in Row /\ new.task = c /\ new.completed = "no" /\ new # None
  BY <1>1, RequestsAssumption DEF Row
<1> HIDE DEF new
<1>4. /\ pc' = [pc EXCEPT ![c] = "committed"]
      /\ UNCHANGED <<loaded, touched, answer, body, faults>>
  BY DEF Create, Go
<1>5. /\ n \notin Stored
      /\ Stored' = Stored \cup {n}
      /\ rows'[n] = new
      /\ \A i \in Stored : rows'[i] = rows[i]
  <2>1. n \notin Stored
    BY <1>2 DEF IsNextId, Ids
  <2>2. rows'[n] = new /\ \A i \in Ids \ {n} : rows'[i] = rows[i]
    BY <1>2 DEF new, IInv, TypeOK
  <2> QED BY <1>3, <2>1, <2>2 DEF Stored
<1>6. /\ pc'[c] = "committed" /\ id'[c] = n
      /\ \A r \in Requests \ {c} : pc'[r] = pc[r] /\ id'[r] = id[r]
  BY <1>2, <1>4 DEF IInv, TypeOK
<1>7. Editors \subseteq Requests \ {c} /\ Creates \subseteq Requests
  BY <1>1 DEF Editors, Requests
<1>8. /\ Stored \subseteq Ids
      /\ \A i \in Stored : rows[i] \in Row /\ rows[i].task \in Creates \ {c}
  BY <1>1, StoredRows DEF IInv, RowsKnown
<1>9. TypeOK'
  <2>1. n \in Nat
    BY DEF Ids
  <2>2. rows' \in [Ids -> Row \cup {None}]
    BY <1>2, <1>3 DEF IInv, TypeOK, new
  <2> QED BY <1>2, <1>4, <2>1, <2>2 DEF IInv, TypeOK
<1>10. RowsKnown'
  BY <1>3, <1>5, <1>6, <1>7, <1>8 DEF IInv, RowsKnown, Requests
<1>11. LoadsKnown'
  <2>1. ASSUME NEW r \in Editors, loaded[r] # None
        PROVE  loaded[r].task \in Creates \ {c}
    BY <1>1, <2>1, LoadedRows DEF IInv, LoadsKnown
  <2>2. ASSUME NEW r \in Editors
        PROVE  /\ pc'[r] = pc[r] /\ id'[r] = id[r] /\ loaded'[r] = loaded[r]
               /\ loaded[r] # None => /\ pc'[loaded[r].task] = pc[loaded[r].task]
                                      /\ id'[loaded[r].task] = id[loaded[r].task]
    BY <1>4, <1>6, <1>7, <2>1
  <2> QED BY <2>2 DEF IInv, LoadsKnown
<1>12. Final'
  <2>1. ASSUME NEW d \in Deletes, answer[d] = 204
        PROVE  loaded[d] # None /\ loaded[d].task # c
    BY <1>1, <2>1 DEF IInv, Final, LoadsKnown, Editors
  <2>2. \A d \in Deletes : d \in Requests \ {c}
    BY <1>7 DEF Editors
  <2> QED BY <1>3, <1>4, <1>5, <1>6, <2>1, <2>2 DEF IInv, Final
<1>13. Meets'
  <2>1. \A d \in Deletes : answer'[d] = answer[d]
    BY <1>4
  <2>2. ASSUME NEW r \in (Creates \cup Patches) \ {c}
        PROVE  /\ Own(r)' = Own(r) /\ pc'[r] = pc[r] /\ id'[r] = id[r]
               /\ body'[r] = body[r]
    BY <1>4, <1>6 DEF Own, Requests
  <2>3. Own(c)' = c /\ body'[c] = body[c] /\ body[c] = None
    BY <1>1, <1>4 DEF Own, IInv, Meets, MeetsOwn
  <2>4. ASSUME NEW r \in (Creates \cup Patches) \ {c}
        PROVE  MeetsOwn(r)'
    BY <1>5, <2>1, <2>2 DEF IInv, Meets, MeetsOwn, Gone
  <2>5. MeetsOwn(c)'
    BY <1>3, <1>5, <1>6, <2>3 DEF MeetsOwn
  <2> QED BY <2>4, <2>5 DEF Meets
<1>14. Stands'
  <2>1. \A p \in Patches : touched[p] # c
    BY <1>1, NoneApart DEF IInv, Stands
  <2>2. ASSUME NEW p \in Patches, touched[p] # None
        PROVE  /\ pc'[touched[p]] # "new" /\ id'[touched[p]] = TargetOf[p]
               /\ pc'[p] \in {"committed", "done"}
    <3>1. touched[p] \in Requests \ {c} /\ p \in Requests \ {c}
      BY <1>7, <2>1, <2>2 DEF IInv, TypeOK, Editors
    <3> QED BY <1>6, <2>2, <3>1 DEF IInv, Stands
  <2>3. ASSUME NEW p \in Patches, Alone(p, "completed"), touched[p] = None
        PROVE  /\ \A i \in Stored' : i = TargetOf[p] => rows'[i].completed = "no"
               /\ loaded[p] # None => loaded[p].completed = "no"
    BY <1>3, <1>5, <2>3 DEF IInv, Stands
  <2>4. PatchesStand'
    BY <1>3, <1>4, <1>5, <2>1 DEF IInv, Stands, PatchesStand, Alone
  <2> QED BY <1>4, <2>2, <2>3, <2>4 DEF Stands, Alone
<1> QED BY <1>9, <1>10, <1>11, <1>12, <1>13, <1>14 DEF IInv

\* A request that ends without a row to show and without a deletion disturbs
\* nothing.
LEMMA EndsIInv ==
  ASSUME IInv, NEW r \in Requests, pc[r] # "done",
         NEW status \in {404, 422, 500}, Answer(r, status),
         faults' \in 0..MaxFaults,
         UNCHANGED <<rows, id, loaded, touched, body>>
  PROVE  IInv'
<1>1. /\ pc' = [pc EXCEPT ![r] = "done"]
      /\ answer' = [answer EXCEPT ![r] = status]
  BY DEF Answer, Go
<1>2. /\ pc'[r] = "done" /\ answer'[r] = status
      /\ \A q \in Requests \ {r} : pc'[q] = pc[q] /\ answer'[q] = answer[q]
  BY <1>1 DEF IInv, TypeOK
<1>3. Stored' = Stored /\ \A d \in Deletes : answer[d] # 204 => answer'[d] # 204
  BY <1>2 DEF Stored, Requests
<1>4. \A q \in Requests : pc[q] = "done" => pc'[q] = "done"
  BY <1>2
<1>5. \A q \in Requests : pc'[q] \in {"new", "loaded", "committed"} => pc'[q] = pc[q]
  BY <1>2
<1>6. \A d \in Deletes : answer[d] = 204 => answer'[d] = 204
  BY <1>2 DEF IInv, Final, Requests
<1>8. Editors \subseteq Requests /\ Creates \subseteq Requests
      /\ Patches \subseteq Editors /\ Deletes \subseteq Editors
  BY DEF Editors, Requests
<1>9. TypeOK'
  BY <1>1 DEF IInv, TypeOK
<1>10. RowsKnown'
  BY <1>3, <1>5, <1>8, StoredRows DEF IInv, RowsKnown
<1>11. LoadsKnown'
  <2>1. ASSUME NEW q \in Editors, loaded[q] # None PROVE loaded[q].task \in Requests
    BY <1>8, <2>1, LoadedRows DEF IInv
  <2>2. ASSUME NEW q \in Editors
        PROVE  /\ pc'[q] = "new" => pc[q] = "new"
               /\ pc'[q] \in {"loaded", "committed"} => pc[q] = pc'[q]
               /\ loaded[q] # None => (pc'[loaded[q].task] = "new"
                                        => pc[loaded[q].task] = "new")
    BY <1>5, <1>8, <2>1
  <2> QED BY <2>2 DEF IInv, LoadsKnown
<1>12. Final'
  BY <1>3, <1>4, <1>8 DEF IInv, Final
<1>13. Meets'
  <2>1. ASSUME NEW q \in Creates \cup Patches
        PROVE  Own(q)' = Own(q)
    BY DEF Own
  <2>2. ASSUME NEW q \in Creates \cup Patches
        PROVE  MeetsOwn(q)'
    BY <1>3, <1>4, <1>5, <1>6, <1>8, <2>1 DEF IInv, Meets, MeetsOwn, Gone
  <2> QED BY <2>2 DEF Meets
<1>14. Stands'
  <2>1. ASSUME NEW p \in Patches, touched[p] # None PROVE touched[p] \in Requests
    BY <1>8, <2>1 DEF IInv, TypeOK
  <2>2. PatchesStand'
    BY <1>3 DEF IInv, Stands, PatchesStand, Alone
  <2>3. ASSUME NEW p \in Patches
        PROVE  /\ touched[p] # None => /\ pc'[touched[p]] # "new"
                                       /\ id[touched[p]] = TargetOf[p]
                                       /\ pc'[p] \in {"committed", "done"}
               /\ Alone(p, "completed") /\ touched[p] = None =>
                    /\ \A i \in Stored : i = TargetOf[p] => rows[i].completed = "no"
                    /\ loaded[p] # None => loaded[p].completed = "no"
    BY <1>2, <1>5, <1>8, <2>1 DEF IInv, Stands
  <2> QED BY <1>3, <2>2, <2>3 DEF Stands, Alone
<1> QED BY <1>9, <1>10, <1>11, <1>12, <1>13, <1>14 DEF IInv

LEMMA LoadIInv ==
  ASSUME IInv, NEW r \in Requests, Load(r)
  PROVE  IInv'
<1>1. /\ r \in Editors /\ r \notin Creates /\ pc[r] = "new"
      /\ UNCHANGED <<rows, id, touched, body, faults>>
  BY RequestsAssumption DEF Load, Editors
<1>2. CASE \/ id[r] \notin Stored /\ Answer(r, 404) /\ UNCHANGED loaded
           \/ Answer(r, 422) /\ UNCHANGED loaded
  <2>1. faults' \in 0..MaxFaults /\ pc[r] # "done"
    BY <1>1 DEF IInv, TypeOK
  <2> QED BY <1>1, <1>2, <2>1, EndsIInv
<1>3. CASE /\ id[r] \in Stored /\ r \notin Null
           /\ loaded' = [loaded EXCEPT ![r] = rows[id[r]]]
           /\ Go(r, "loaded")
           /\ UNCHANGED answer
  <2> DEFINE row == rows[id[r]]
  <2>1. /\ loaded'[r] = row /\ pc'[r] = "loaded"
        /\ \A q \in Editors \ {r} : loaded'[q] = loaded[q]
        /\ \A q \in Requests \ {r} : pc'[q] = pc[q]
    BY <1>1, <1>3 DEF IInv, TypeOK, Go, Editors
  <2>2. /\ row \in Row /\ row.task \in Creates /\ row # None
        /\ pc[row.task] # "new" /\ id[row.task] = id[r]
    BY <1>3, StoredRows, NoneApart DEF IInv, RowsKnown
  <2>3. row.task # r /\ Creates \subseteq Requests \ {r} /\ Editors \subseteq Requests
    BY <1>1, <2>2 DEF Requests, Editors
  <2> HIDE DEF row
  <2>4. Stored' = Stored
    BY <1>1 DEF Stored
  <2>5. TypeOK'
    <3>1. loaded' \in [Patches \cup Deletes -> Row \cup {None}]
      BY <1>3, <2>2 DEF IInv, TypeOK, row
    <3>2. pc' \in [Requests -> {"new", "loaded", "committed", "done"}]
      BY <1>3 DEF IInv, TypeOK, Go
    <3> QED BY <1>1, <1>3, <3>1, <3>2 DEF IInv, TypeOK
  <2>6. RowsKnown'
    BY <1>1, <2>1, <2>3, <2>4, StoredRows DEF IInv, RowsKnown
  <2>7. LoadsKnown'
    <3>0. r \notin Null
      BY <1>3
    <3>1. ASSUME NEW q \in Editors \ {r}
          PROVE  /\ loaded'[q] = loaded[q] /\ pc'[q] = pc[q]
                 /\ loaded[q] # None => pc'[loaded[q].task] = pc[loaded[q].task]
      BY <2>1, <2>3, LoadedRows DEF IInv
    <3>2. pc'[row.task] = pc[row.task]
      BY <2>1, <2>2, <2>3
    <3> QED BY <1>1, <2>1, <2>2, <3>0, <3>1, <3>2 DEF IInv, LoadsKnown
  <2>8. Final'
    <3>1. ASSUME NEW d \in Deletes, answer[d] = 204
          PROVE  d # r /\ d \in Editors
      BY <1>1, <3>1 DEF IInv, Final, Editors
    <3> QED BY <1>1, <1>3, <2>1, <2>3, <2>4, <3>1 DEF IInv, Final
  <2>9. Meets'
    <3>1. ASSUME NEW q \in (Creates \cup Patches) \ {r}
          PROVE  MeetsOwn(q)'
      <4>1. pc'[q] = pc[q] /\ (q \notin Creates => loaded'[q] = loaded[q])
        BY <2>1 DEF Requests, Editors
      <4> QED BY <1>1, <1>3, <2>4, <4>1 DEF IInv, Meets, MeetsOwn, Own, Gone
    <3>2. ASSUME r \in Patches
          PROVE  MeetsOwn(r)'
      <4>1. body[r] = None
        BY <1>1, <3>2 DEF IInv, Meets, MeetsOwn
      <4>2. r \notin Creates /\ loaded'[r].task = row.task
        BY <1>1, <2>1
      <4>3. id'[r] \in Stored' /\ rows'[id'[r]] = row
        BY <1>1, <1>3, <2>4 DEF row
      <4>4. body'[r] = None
        BY <1>1, <4>1
      <4> QED BY <4>2, <4>3, <4>4 DEF MeetsOwn, Own
    <3> QED BY <1>1, <3>1, <3>2 DEF Meets
  <2>10. Stands'
    <3>1. ASSUME NEW p \in Patches, touched[p] # None
          PROVE  /\ pc'[touched[p]] # "new" /\ id[touched[p]] = TargetOf[p]
                 /\ pc'[p] \in {"committed", "done"} /\ loaded'[p] = loaded[p]
      <4>1. p # r /\ p \in Editors /\ p \in Requests
        BY <1>1, <2>3, <3>1 DEF IInv, Stands, Editors
      <4>2. touched[p] \in Requests \ {r}
        BY <2>3, <3>1 DEF IInv, TypeOK
      <4> QED BY <2>1, <3>1, <4>1, <4>2 DEF IInv, Stands
    <3>2. ASSUME NEW p \in Patches, Alone(p, "completed"), touched[p] = None
          PROVE  /\ \A i \in Stored : i = TargetOf[p] => rows[i].completed = "no"
                 /\ loaded'[p] # None => loaded'[p].completed = "no"
      <4>1. CASE p = r
        <5>1. id[r] = TargetOf[r]
          BY <1>1 DEF IInv, RowsKnown
        <5> QED BY <1>3, <2>1, <3>2, <4>1, <5>1 DEF IInv, Stands, row
      <4>2. CASE p # r
        BY <2>1, <3>2, <4>2 DEF IInv, Stands, Editors
      <4> QED BY <4>1, <4>2
    <3>3. PatchesStand'
      <4>1. ASSUME NEW p \in Patches, NEW i \in Stored, rows[i].task = touched[p]
            PROVE  touched[p] # None
        BY <4>1, StoredRows, NoneApart DEF IInv
      <4> QED BY <1>1, <2>4, <3>1, <4>1 DEF IInv, Stands, PatchesStand, Alone
    <3> QED BY <1>1, <2>4, <3>1, <3>2, <3>3 DEF Stands, Alone
  <2> QED BY <2>5, <2>6, <2>7, <2>8, <2>9, <2>10 DEF IInv
<1> QED BY <1>2, <1>3 DEF Load

LEMMA RefreshIInv ==
  ASSUME IInv, NEW r \in Requests, Refresh(r)
  PROVE  IInv'
<1>1. pc[r] = "committed" /\ UNCHANGED <<rows, id, loaded, touched, faults>>
  BY DEF Refresh
<1>2. CASE id[r] \notin Stored
  <2>1. Answer(r, 500) /\ UNCHANGED body /\ faults' \in 0..MaxFaults
    BY <1>1, <1>2 DEF Refresh, IInv, TypeOK
  <2> QED BY <1>1, <2>1, EndsIInv
<1>3. CASE id[r] \in Stored
  <2>1. PICK status \in {200, 201} : Answer(r, status)
    BY <1>3 DEF Refresh
  <2>2. /\ pc' = [pc EXCEPT ![r] = "done"]
        /\ answer' = [answer EXCEPT ![r] = status]
        /\ body' = [body EXCEPT ![r] = rows[id[r]].task]
    BY <1>3, <2>1 DEF Refresh, Answer, Go
  <2>3. /\ pc'[r] = "done" /\ answer'[r] = status /\ body'[r] = rows[id[r]].task
        /\ \A q \in Requests \ {r} :
             pc'[q] = pc[q] /\ answer'[q] = answer[q] /\ body'[q] = body[q]
    BY <2>2 DEF IInv, TypeOK
  <2>4. Stored' = Stored
    BY <1>1 DEF Stored
  <2>5. /\ Editors \subseteq Requests /\ Creates \subseteq Requests
        /\ Patches \subseteq Editors /\ Deletes \subseteq Editors
    BY DEF Editors, Requests
  <2>6. \A d \in Deletes : answer'[d] = 204 <=> answer[d] = 204
    <3>1. answer[r] # 204 \/ r \notin Deletes
      BY <1>1 DEF IInv, Final
    <3> QED BY <2>3, <2>5, <3>1
  <2>7. \A q \in Requests : pc'[q] \in {"new", "loaded", "committed"} => pc'[q] = pc[q]
    BY <2>3
  <2>8. TypeOK'
    <3>1. rows[id[r]].task \in Creates
      BY <1>3, StoredRows DEF IInv
    <3> QED BY <1>1, <2>2, <3>1 DEF IInv, TypeOK
  <2>9. RowsKnown'
    BY <1>1, <2>4, <2>5, <2>7, StoredRows DEF IInv, RowsKnown
  <2>10. LoadsKnown'
    <3>1. ASSUME NEW q \in Editors, loaded[q] # None PROVE loaded[q].task \in Requests
      BY <2>5, <3>1, LoadedRows DEF IInv
    <3>2. ASSUME NEW q \in Editors
          PROVE  /\ pc'[q] = "new" => pc[q] = "new"
                 /\ pc'[q] \in {"loaded", "committed"} => pc[q] = pc'[q]
                 /\ loaded[q] # None => (pc'[loaded[q].task] = "new"
                                          => pc[loaded[q].task] = "new")
      BY <2>5, <2>7, <3>1
    <3> QED BY <1>1, <3>2 DEF IInv, LoadsKnown
  <2>11. Final'
    <3>1. \A d \in Deletes : pc[d] = "done" => pc'[d] = "done"
      BY <2>3, <2>5
    <3> QED BY <1>1, <2>4, <2>6, <3>1 DEF IInv, Final
  <2>12. Meets'
    <3>1. ASSUME NEW q \in (Creates \cup Patches) \ {r}
          PROVE  MeetsOwn(q)'
      <4>1. pc'[q] = pc[q] /\ body'[q] = body[q]
        BY <2>3, <2>5
      <4> QED BY <1>1, <2>4, <2>6, <4>1 DEF IInv, Meets, MeetsOwn, Own, Gone
    <3>2. ASSUME r \in Creates \cup Patches
          PROVE  MeetsOwn(r)'
      BY <1>1, <2>3, <2>4, <2>6, <3>2 DEF IInv, Meets, MeetsOwn, Own, Gone
    <3> QED BY <3>1, <3>2 DEF Meets
  <2>13. Stands'
    <3>1. ASSUME NEW p \in Patches, touched[p] # None PROVE touched[p] \in Requests
      BY <2>5, <3>1 DEF IInv, TypeOK
    <3>2. PatchesStand'
      BY <1>1, <2>4 DEF IInv, Stands, PatchesStand, Alone
    <3>3. ASSUME NEW p \in Patches
          PROVE  /\ touched[p] # None => /\ pc'[touched[p]] # "new"
                                         /\ id[touched[p]] = TargetOf[p]
                                         /\ pc'[p] \in {"committed", "done"}
                 /\ Alone(p, "completed") /\ touched[p] = None =>
                      /\ \A i \in Stored : i = TargetOf[p] => rows[i].completed = "no"
                      /\ loaded[p] # None => loaded[p].completed = "no"
      BY <2>3, <2>5, <2>7, <3>1 DEF IInv, Stands
    <3> QED BY <1>1, <2>4, <3>2, <3>3 DEF Stands, Alone
  <2> QED BY <2>8, <2>9, <2>10, <2>11, <2>12, <2>13 DEF IInv
<1> QED BY <1>2, <1>3

LEMMA UpdateIInv ==
  ASSUME IInv, NEW p \in Requests, Update(p)
  PROVE  IInv'
<1>1. /\ p \in Patches /\ p \in Editors /\ p \notin Creates /\ pc[p] = "loaded"
      /\ UNCHANGED <<id, loaded, body, faults>>
  BY RequestsAssumption DEF Update, Editors
<1>2. /\ Editors \subseteq Requests /\ Creates \subseteq Requests \ {p}
      /\ Patches \subseteq Editors /\ Deletes \subseteq Editors
  BY <1>1 DEF Editors, Requests
<1>3. /\ loaded[p] \in Row /\ loaded[p] # None /\ p \notin Null
      /\ id[p] = TargetOf[p] /\ touched[p] = None
  BY <1>1, LoadedRows DEF IInv, RowsKnown, LoadsKnown, Stands
<1>4. CASE /\ id[p] \notin Stored
           /\ Answer(p, 500)
           /\ UNCHANGED <<rows, touched>>
  <2>1. faults' \in 0..MaxFaults
    BY <1>1 DEF IInv, TypeOK
  <2> QED BY <1>1, <1>4, <2>1, EndsIInv
<1>5. ASSUME NEW seen \in Creates \cup {None},
             Go(p, "committed"), UNCHANGED answer,
             Stored' = Stored,
             rows' \in [Ids -> Row \cup {None}],
             \A i \in Stored : rows'[i].task = rows[i].task,
             touched' = [touched EXCEPT ![p] = seen],
             Stands'
      PROVE  IInv'
  <2>1. /\ pc' = [pc EXCEPT ![p] = "committed"]
        /\ pc'[p] = "committed"
        /\ \A q \in Requests \ {p} : pc'[q] = pc[q]
    BY <1>5 DEF IInv, TypeOK, Go
  <2>2. TypeOK'
    BY <1>1, <1>5, <2>1 DEF IInv, TypeOK
  <2>3. RowsKnown'
    BY <1>1, <1>2, <1>5, <2>1, StoredRows DEF IInv, RowsKnown
  <2>4. LoadsKnown'
    <3>1. ASSUME NEW q \in Editors, loaded[q] # None
          PROVE  pc'[loaded[q].task] = pc[loaded[q].task]
      BY <1>2, <2>1, <3>1, LoadedRows DEF IInv
    <3>2. ASSUME NEW q \in Editors
          PROVE  /\ pc'[q] = "new" <=> pc[q] = "new"
                 /\ pc'[q] \in {"loaded", "committed"} => pc[q] \in {"loaded", "committed"}
      BY <1>1, <1>2, <2>1
    <3> QED BY <1>1, <3>1, <3>2 DEF IInv, LoadsKnown
  <2>5. Final'
    <3>1. \A d \in Deletes : answer[d] = 204 => d # p /\ d \in Requests
      BY <1>1, <1>2 DEF IInv, Final
    <3> QED BY <1>1, <1>5, <2>1, <3>1 DEF IInv, Final
  <2>6. Meets'
    <3>1. ASSUME NEW q \in Creates \cup Patches
          PROVE  MeetsOwn(q)'
      <4>1. /\ pc'[q] \in {"loaded", "committed"} => pc[q] \in {"loaded", "committed"}
            /\ pc[q] = "done" => pc'[q] = "done"
        BY <1>1, <1>2, <2>1
      <4> QED BY <1>1, <1>5, <4>1 DEF IInv, Meets, MeetsOwn, Own, Gone
    <3> QED BY <3>1 DEF Meets
  <2> QED BY <1>5, <2>2, <2>3, <2>4, <2>5, <2>6 DEF IInv
<1>6. ASSUME NEW q \in Patches, Go(p, "committed"), touched[q] # None
      PROVE  /\ q # p
             /\ pc'[touched[q]] # "new" /\ id[touched[q]] = TargetOf[q]
             /\ pc'[q] \in {"committed", "done"}
  <2>1. q # p /\ q \in Requests /\ touched[q] \in Requests \ {p}
    BY <1>2, <1>3, <1>6 DEF IInv, TypeOK
  <2> QED BY <1>6, <2>1 DEF IInv, Stands, TypeOK, Go
<1>7. CASE /\ Go(p, "committed")
           /\ UNCHANGED <<rows, touched, answer>>
  <2>1. /\ Stored' = Stored
        /\ touched' = [touched EXCEPT ![p] = None]
        /\ rows' \in [Ids -> Row \cup {None}]
    BY <1>1, <1>3, <1>7 DEF Stored, IInv, TypeOK
  <2>2. PatchesStand'
    BY <1>1, <1>7, <2>1 DEF IInv, Stands, PatchesStand, Alone
  <2>3. Stands'
    BY <1>1, <1>6, <1>7, <2>1, <2>2 DEF IInv, Stands, Alone
  <2> QED BY <1>5, <1>7, <2>1, <2>3
<1>8. CASE /\ id[p] \in Stored
           /\ rows' = [rows EXCEPT ![id[p]] = Written(p, @)]
           /\ touched' = [touched EXCEPT ![p] = rows[id[p]].task]
           /\ Go(p, "committed")
           /\ UNCHANGED answer
  <2>1. PICK i0 \in Stored : i0 = id[p]
    BY <1>8
  <2>2. PICK row \in Row : row = rows[i0]
    BY StoredRows DEF IInv
  <2>3. /\ row.task \in Creates /\ row.task # None
        /\ pc[row.task] # "new" /\ id[row.task] = i0
    BY <2>1, <2>2, NoneApart DEF IInv, RowsKnown, Row
  <2>4. PICK w \in Row : w = Written(p, row)
    BY <1>1, <1>3, WrittenRow
  <2>5. /\ w.task = row.task
        /\ "title" \notin Fields[p] => w.title = row.title
        /\ "completed" \notin Fields[p] => w.completed = row.completed
        /\ "title" \in Fields[p] =>
             w.title = IF TitleOf[p] # loaded[p].title THEN TitleOf[p] ELSE row.title
        /\ "completed" \in Fields[p] =>
             w.completed = IF DoneOf[p] # loaded[p].completed THEN DoneOf[p]
                                                             ELSE row.completed
    BY <1>1, <1>3, <2>4, WrittenRow
  <2>6. rows' = [rows EXCEPT ![i0] = w]
    BY <1>8, <2>1, <2>2, <2>4
  <2>7. /\ rows'[i0] = w /\ rows[i0] = row
        /\ \A i \in Ids \ {i0} : rows'[i] = rows[i]
        /\ rows' \in [Ids -> Row \cup {None}]
        /\ Stored \subseteq Ids
    BY <2>1, <2>2, <2>6 DEF IInv, TypeOK, Stored
  <2>8. Stored' = Stored
    BY <2>1, <2>4, <2>7, NoneApart DEF Stored
  <2>9. \A i \in Stored : rows'[i].task = rows[i].task
    BY <2>5, <2>7
  <2>10. /\ touched' = [touched EXCEPT ![p] = row.task]
         /\ touched'[p] = row.task
         /\ \A q \in Patches \ {p} : touched'[q] = touched[q]
    BY <1>1, <1>8, <2>1, <2>2 DEF IInv, TypeOK
  <2>11. pc'[p] = "committed" /\ pc'[row.task] = pc[row.task]
    BY <1>1, <1>2, <1>8, <2>3 DEF IInv, TypeOK, Go
  <2>12. ASSUME NEW q \in Patches \ {p}, NEW field, Alone(q, field), TargetOf[q] = i0
         PROVE  field \notin Fields[p]
    BY <1>1, <1>3, <2>1, <2>12 DEF Alone
  <2>13. ASSUME NEW q \in Patches, touched'[q] # None
         PROVE  /\ pc'[touched'[q]] # "new" /\ id'[touched'[q]] = TargetOf[q]
                /\ pc'[q] \in {"committed", "done"}
    <3>1. CASE q = p
      BY <1>1, <1>3, <2>1, <2>3, <2>10, <2>11, <3>1
    <3>2. CASE q # p
      BY <1>1, <1>6, <1>8, <2>10, <2>13, <3>2
    <3> QED BY <3>1, <3>2
  <2>14. ASSUME NEW q \in Patches, Alone(q, "completed"), touched'[q] = None
         PROVE  /\ \A i \in Stored' : i = TargetOf[q] => rows'[i].completed = "no"
                /\ loaded'[q] # None => loaded'[q].completed = "no"
    <3>1. q # p /\ touched[q] = None
      BY <2>3, <2>10, <2>14
    <3>2. /\ \A i \in Stored : i = TargetOf[q] => rows[i].completed = "no"
          /\ loaded[q] # None => loaded[q].completed = "no"
      BY <2>14, <3>1 DEF IInv, Stands
    <3>3. i0 = TargetOf[q] => w.completed = "no"
      BY <2>5, <2>7, <2>12, <2>14, <3>1, <3>2
    <3> QED BY <1>1, <2>7, <2>8, <3>2, <3>3
  <2>15. PatchesStand'
    <3>1. ASSUME NEW q \in Patches, NEW i \in Stored, rows'[i].task = touched'[q]
          PROVE  /\ Alone(q, "title") => rows'[i].title = TitleOf[q]
                                           \/ loaded[q].title = TitleOf[q]
                 /\ Alone(q, "completed") => rows'[i].completed = DoneOf[q]
      <4>1. CASE q = p
        <5>1. i = i0
          BY <2>3, <2>9, <2>10, <3>1, <4>1 DEF IInv, RowsKnown
        <5>2. Alone(p, "completed") => /\ row.completed = "no"
                                       /\ loaded[p].completed = "no"
          BY <1>1, <1>3, <2>1, <2>7 DEF IInv, Stands
        <5>3. Alone(p, "completed") => w.completed = DoneOf[p]
          BY <2>5, <5>2 DEF Alone
        <5>4. Alone(p, "title") => w.title = TitleOf[p] \/ loaded[p].title = TitleOf[p]
          BY <2>5 DEF Alone
        <5> QED BY <2>7, <4>1, <5>1, <5>3, <5>4
      <4>2. CASE q # p
        <5>1. rows[i].task = touched[q] /\ touched[q] # None
          BY <2>9, <2>10, <3>1, <4>2, StoredRows, NoneApart DEF IInv
        <5>2. /\ Alone(q, "title") => rows[i].title = TitleOf[q]
                                        \/ loaded[q].title = TitleOf[q]
              /\ Alone(q, "completed") => rows[i].completed = DoneOf[q]
          BY <5>1 DEF IInv, Stands, PatchesStand
        <5>3. CASE i # i0
          BY <2>7, <5>2, <5>3
        <5>4. CASE i = i0
          <6>1. TargetOf[q] = i0
            BY <2>3, <2>7, <5>1, <5>4 DEF IInv, Stands
          <6>2. /\ Alone(q, "title") => w.title = row.title
                /\ Alone(q, "completed") => w.completed = row.completed
            BY <2>5, <2>12, <4>2, <6>1
          <6> QED BY <2>7, <5>2, <5>4, <6>2
        <5> QED BY <5>3, <5>4
      <4> QED BY <4>1, <4>2
    <3> QED BY <1>1, <2>8, <3>1 DEF PatchesStand, Alone
  <2>16. Stands'
    BY <2>13, <2>14, <2>15 DEF Stands, Alone
  <2> QED BY <1>5, <1>8, <2>3, <2>7, <2>8, <2>9, <2>10, <2>16
<1> QED BY <1>4, <1>7, <1>8 DEF Update

LEMMA DeleteIInv ==
  ASSUME IInv, NEW d \in Requests, Delete(d)
  PROVE  IInv'
<1>1. /\ d \in Deletes /\ d \in Editors /\ d \notin Creates /\ d \notin Patches
      /\ pc[d] = "loaded"
      /\ UNCHANGED <<id, loaded, touched, body, faults>>
  BY RequestsAssumption DEF Delete, Editors
<1>2. /\ Editors \subseteq Requests
      /\ Creates \subseteq Requests \ {d} /\ Patches \subseteq Requests \ {d}
      /\ Patches \subseteq Editors /\ Deletes \subseteq Editors
  BY <1>1 DEF Editors, Requests
<1>3. id[d] = TargetOf[d] /\ loaded[d] # None /\ id[loaded[d].task] = id[d]
  BY <1>1 DEF IInv, RowsKnown, LoadsKnown
<1>4. /\ rows' = [rows EXCEPT ![id[d]] = None]
      /\ pc' = [pc EXCEPT ![d] = "done"]
      /\ answer' = [answer EXCEPT ![d] = 204]
  BY DEF Delete, Answer, Go
<1>5. /\ pc'[d] = "done" /\ answer'[d] = 204
      /\ \A q \in Requests \ {d} : pc'[q] = pc[q] /\ answer'[q] = answer[q]
  BY <1>4 DEF IInv, TypeOK
<1>6. /\ Stored' = Stored \ {id[d]}
      /\ \A i \in Stored' : rows'[i] = rows[i]
  BY <1>4 DEF Stored, IInv, TypeOK
<1>7. \A i : Gone(i) => Gone(i)'
  BY <1>2, <1>5 DEF Gone
<1>8. Gone(id[d])'
  BY <1>1, <1>3, <1>5 DEF Gone
<1>9. TypeOK'
  BY <1>1, <1>4 DEF IInv, TypeOK
<1>10. RowsKnown'
  <2>1. \A i \in Stored' : i \in Stored /\ rows[i].task \in Requests \ {d}
    BY <1>2, <1>6, StoredRows DEF IInv
  <2> QED BY <1>1, <1>5, <1>6, <2>1 DEF IInv, RowsKnown
<1>11. LoadsKnown'
  <2>1. ASSUME NEW q \in Editors, loaded[q] # None
        PROVE  pc'[loaded[q].task] = pc[loaded[q].task]
    BY <1>2, <1>5, <2>1, LoadedRows DEF IInv
  <2>2. ASSUME NEW q \in Editors
        PROVE  /\ pc'[q] = "new" => pc[q] = "new"
               /\ pc'[q] \in {"loaded", "committed"} => pc[q] = pc'[q]
    BY <1>2, <1>5
  <2> QED BY <1>1, <2>1, <2>2 DEF IInv, LoadsKnown
<1>12. Final'
  <2>1. ASSUME NEW e \in Deletes, answer'[e] = 204
        PROVE  /\ pc'[e] = "done" /\ loaded[e] # None
               /\ \A i \in Stored' : rows[i].task # loaded[e].task
    <3>1. CASE e = d
      <4>1. \A i \in Stored' : id[rows[i].task] # id[d]
        BY <1>6 DEF IInv, RowsKnown
      <4> QED BY <1>3, <1>5, <3>1, <4>1
    <3>2. CASE e # d
      BY <1>2, <1>5, <1>6, <2>1, <3>2 DEF IInv, Final
    <3> QED BY <3>1, <3>2
  <2> QED BY <1>1, <1>6, <2>1 DEF Final
<1>13. Meets'
  <2>1. ASSUME NEW q \in Creates \cup Patches
        PROVE  MeetsOwn(q)'
    <3>1. pc'[q] = pc[q] /\ id'[q] = id[q] /\ body'[q] = body[q] /\ Own(q)' = Own(q)
      BY <1>1, <1>2, <1>5 DEF Own
    <3>2. ASSUME ~Gone(id[q])'
          PROVE  ~Gone(id[q]) /\ (id[q] \in Stored => id[q] \in Stored')
      BY <1>1, <1>6, <1>7, <1>8, <3>2
    <3>3. Gone(id[q]) => Gone(id[q])'
      BY <1>1, <1>7
    <3> QED BY <1>6, <3>1, <3>2, <3>3 DEF IInv, Meets, MeetsOwn
  <2> QED BY <2>1 DEF Meets
<1>14. Stands'
  <2>1. ASSUME NEW p \in Patches, touched[p] # None
        PROVE  touched[p] \in Requests \ {d} /\ p \in Requests \ {d}
    BY <1>2, <2>1 DEF IInv, TypeOK
  <2>2. PatchesStand'
    BY <1>1, <1>6 DEF IInv, Stands, PatchesStand, Alone
  <2>3. ASSUME NEW p \in Patches
        PROVE  /\ touched[p] # None => /\ pc'[touched[p]] # "new"
                                       /\ id[touched[p]] = TargetOf[p]
                                       /\ pc'[p] \in {"committed", "done"}
               /\ Alone(p, "completed") /\ touched[p] = None =>
                    /\ \A i \in Stored' : i = TargetOf[p] => rows'[i].completed = "no"
                    /\ loaded[p] # None => loaded[p].completed = "no"
    BY <1>5, <1>6, <2>1 DEF IInv, Stands
  <2> QED BY <1>1, <2>2, <2>3 DEF Stands, Alone
<1> QED BY <1>9, <1>10, <1>11, <1>12, <1>13, <1>14 DEF IInv

LEMMA LockedIInv ==
  ASSUME IInv, NEW r \in Requests, Locked(r)
  PROVE  IInv'
<1>1. pc[r] # "done" /\ Answer(r, 500) /\ UNCHANGED <<rows, id, loaded, touched, body>>
  BY DEF Locked
<1>2. faults' \in 0..MaxFaults
  BY RequestsAssumption DEF Locked, IInv, TypeOK
<1> QED BY <1>1, <1>2, EndsIInv

LEMMA NextIInv ==
  ASSUME IInv, [Next]_vars
  PROVE  IInv'
<1>1. CASE UNCHANGED vars
  BY <1>1 DEF vars, IInv, TypeOK, RowsKnown, LoadsKnown, Final, Meets, MeetsOwn,
              Stands, PatchesStand, Alone, Own, Gone, Stored
<1>2. CASE Next
  <2>1. PICK r \in Requests : \/ Create(r) \/ Load(r) \/ Update(r)
                              \/ Delete(r) \/ Refresh(r) \/ Locked(r)
    BY <1>2 DEF Next
  <2> QED BY <2>1, CreateIInv, LoadIInv, UpdateIInv, DeleteIInv, RefreshIInv, LockedIInv
<1> QED BY <1>1, <1>2

\* For any requests, whatever they interleave, the invariant holds.
THEOREM Invariant == Spec => []IInv
BY InitIInv, NextIInv, PTL DEF Spec

\* For any requests, the rows, the loaded rows and the answers have the types
\* of models.py and of the handlers.
THEOREM TypeCorrect == Spec => []TypeOK
<1>1. IInv => TypeOK
  BY DEF IInv
<1> QED BY <1>1, Invariant, PTL

\* For any patches that interleave with any other requests, what a patch of
\* main.py wrote to a task stands unless another patch names the field.
THEOREM PatchesKeep == Spec => []PatchesStand
<1>1. IInv => PatchesStand
  BY DEF IInv, Stands
<1> QED BY <1>1, Invariant, PTL

\* For any requests, a task whose deletion was answered has no row, and a
\* body shows the request's own task unless the id was deleted meanwhile.
THEOREM AnswersTrue == Spec => []AnswersAgree
<1>1. ASSUME IInv PROVE AnswersAgree
  BY <1>1 DEF IInv, Final, Meets, MeetsOwn, Gone, AnswersAgree
<1> QED BY <1>1, Invariant, PTL
=============================================================================
