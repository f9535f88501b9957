-------------------------- MODULE ProjectsApiProofs --------------------------
(***************************************************************************)
(* Proofs about ProjectsApi for any clients, threads and connections.  A   *)
(* row belongs to the request that inserted it and stays as it is, so that *)
(* what is true of one request (RequestOK) is not disturbed by a step of   *)
(* another (OneMoves).                                                     *)
(***************************************************************************)
EXTENDS ProjectsApi, FiniteSetTheorems, WellFoundedInduction, TLAPS

Answered == {"returned", "holding", "done"}

RegisterOK(r) ==
  /\ pc[r] \in {"new", "asking", "connected"} \cup Answered
  /\ answer[r] = 201 => r \in accounts
  /\ answer[r] = 409 => \E a \in accounts \ {r} : SameEmail(a, r)
  /\ r \in accounts => answer[r] \in {201, 500}

LoginOK(l) ==
  /\ pc[l] \in {"new", "asking", "connected", "verified"} \cup Answered
  /\ answer[l] = 200 => session[l] # None
  /\ session[l] # None => /\ session[l] \in accounts /\ Verified(session[l], l)
                          /\ answer[l] \in {200, 500}

\* Who was authenticated is whom the token was issued for.
ProjectOK(r) ==
  /\ pc[r] # "verified"
  /\ pc[r] \in {"new", "asking", "connected"} => caller[r] = None
  /\ pc[r] \in {"ready", "working", "stored", "refreshing"} => caller[r] # None
  /\ pc[r] \in {"stored", "refreshing"} => r \in Creates
  /\ caller[r] # None => caller[r] = session[LoginOf[r]]

CreateOK(c) ==
  /\ owner[c] # None => /\ owner[c] = caller[c]
                        /\ pc[c] \in {"stored", "refreshing"} \cup Answered
                        /\ answer[c] \in {None, 201, 500}
  /\ pc[c] \in {"stored", "refreshing"} => owner[c] # None
  /\ answer[c] = 201 => owner[c] # None
  /\ answer[c] = 409 => /\ caller[c] # None
                        /\ \E d \in Creates \ {c} :
                             owner[d] = caller[c] /\ NameOf[d] = NameOf[c]

PageOK(q) ==
  \A c \in page[q] : owner[c] # None /\ owner[c] = session[LoginOf[q]]

ReadOK(r) ==
  answer[r] = 200 => /\ session[LoginOf[r]] # None
                     /\ owner[TargetOf[r]] = session[LoginOf[r]]

RequestOK(r) ==
  /\ pc[r] \notin Answered => answer[r] = None
  /\ r \in Registers => RegisterOK(r)
  /\ r \in Logins => LoginOK(r)
  /\ r \in ProjectRequests => ProjectOK(r)
  /\ r \in Creates => CreateOK(r)
  /\ r \in Pages => PageOK(r)
  /\ r \in Reads => ReadOK(r)

\* The unique constraints.
Unique ==
  /\ \A a, b \in accounts : SameEmail(a, b) => a = b
  /\ \A c, d \in Creates :
       owner[c] # None /\ owner[c] = owner[d] /\ NameOf[c] = NameOf[d] => c = d

IInv == TypeOK /\ Unique /\ \A r \in Requests : RequestOK(r)

\* A row stays as it was inserted.
Grows ==
  /\ accounts \subseteq accounts'
  /\ \A l \in Logins : session[l] # None => session'[l] = session[l]
  /\ \A c \in Creates : owner[c] # None => owner'[c] = owner[c]

Untouched(q) ==
  /\ pc'[q] = pc[q] /\ answer'[q] = answer[q]
  /\ q \in Registers => (q \in accounts' <=> q \in accounts)
  /\ q \in Logins => session'[q] = session[q]
  /\ q \in ProjectRequests => caller'[q] = caller[q]
  /\ q \in Creates => owner'[q] = owner[q]
  /\ q \in Pages => page'[q] = page[q]

LEMMA Kinds ==
  /\ Registers \subseteq Requests /\ Logins \subseteq Requests
  /\ ProjectRequests \subseteq Requests
  /\ Creates \subseteq ProjectRequests /\ Pages \subseteq ProjectRequests
  /\ Reads \subseteq ProjectRequests
  /\ \A r \in ProjectRequests : LoginOf[r] \in Logins
  /\ \A r \in Reads : TargetOf[r] \in Creates
  /\ None \notin Requests /\ None \notin Nat
BY RequestsAssumption DEF Requests, ProjectRequests

LEMMA Apart ==
  /\ \A r \in Registers : r \notin Logins /\ r \notin ProjectRequests
  /\ \A r \in Logins : r \notin Registers /\ r \notin ProjectRequests
  /\ \A r \in ProjectRequests : r \notin Registers /\ r \notin Logins
  /\ \A r \in Creates : r \notin Pages /\ r \notin Reads
  /\ \A r \in Pages : r \notin Creates /\ r \notin Reads
  /\ \A r \in Reads : r \notin Creates /\ r \notin Pages
BY RequestsAssumption

\* How many requests hold a thread or a connection after one has moved.
LEMMA UsingOne ==
  ASSUME TypeOK, NEW r \in Requests, NEW step, Go(r, step),
         NEW steps, NEW n \in Nat, Using(steps) <= n,
         step \in steps => pc[r] \in steps \/ Using(steps) < n
  PROVE  Using(steps)' <= n
<1> DEFINE before == {q \in Requests : pc[q] \in steps}
           after == {q \in Requests : pc'[q] \in steps}
<1>1. \A q \in Requests \ {r} : pc'[q] = pc[q]
  BY DEF TypeOK, Go
<1>2. pc'[r] = step
  BY DEF TypeOK, Go
<1>3. IsFiniteSet(before) /\ Cardinality(before) \in Nat
  BY RequestsAssumption, FS_Subset, FS_CardinalityType
<1>4. Using(steps) = Cardinality(before) /\ Using(steps)' = Cardinality(after)
  BY DEF Using
<1>5. CASE step \in steps /\ pc[r] \notin steps
  <2>1. after = before \cup {r} /\ r \notin before
    BY <1>1, <1>2, <1>5
  <2>2. Cardinality(after) = Cardinality(before) + 1
    BY <1>3, <2>1, FS_AddElement
  <2> QED BY <1>3, <1>4, <1>5, <2>2
<1>6. CASE ~(step \in steps /\ pc[r] \notin steps)
  <2>1. after \subseteq before
    BY <1>1, <1>2, <1>6
  <2>2. Cardinality(after) <= Cardinality(before)
    BY <1>3, <2>1, FS_Subset
  <2>3. Cardinality(after) \in Nat
    BY <1>3, <2>1, FS_Subset, FS_CardinalityType
  <2> QED BY <1>3, <1>4, <2>2, <2>3
<1> QED BY <1>5, <1>6

LEMMA PcMoves ==
  ASSUME TypeOK, NEW r \in Requests, NEW step \in Steps, Go(r, step),
         step \in InThread => pc[r] \in InThread \/ Using(InThread) < Threads,
         step \in Connected => pc[r] \in Connected \/ Using(Connected) < PoolSize
  PROVE  /\ pc' \in [Requests -> Steps]
         /\ pc'[r] = step /\ \A q \in Requests \ {r} : pc'[q] = pc[q]
         /\ Using(InThread)' <= Threads
         /\ Using(Connected)' <= PoolSize
<1>1. Using(InThread) <= Threads /\ Using(Connected) <= PoolSize
  BY DEF TypeOK
<1>2. Threads \in Nat /\ PoolSize \in Nat
  BY SizesAssumption
<1>3. Using(InThread)' <= Threads
  BY <1>1, <1>2, UsingOne
<1>4. Using(Connected)' <= PoolSize
  BY <1>1, <1>2, UsingOne
<1> QED BY <1>3, <1>4 DEF TypeOK, Go

\* A step of one request does not disturb what is true of another.
LEMMA OneMoves ==
  ASSUME IInv, NEW r \in Requests, Grows,
         \A q \in Requests \ {r} : Untouched(q),
         TypeOK', Unique', RequestOK(r)'
  PROVE  IInv'
<1> SUFFICES ASSUME NEW q \in Requests \ {r} PROVE RequestOK(q)'
  BY DEF IInv
<1>1. Untouched(q) /\ RequestOK(q)
  BY DEF IInv
<1>2. q \in Registers => RegisterOK(q)'
  BY <1>1 DEF Untouched, RequestOK, RegisterOK, Grows, SameEmail
<1>3. q \in Logins => LoginOK(q)'
  BY <1>1 DEF Untouched, RequestOK, LoginOK, Grows, Verified, SameEmail
<1>4. q \in ProjectRequests => ProjectOK(q)'
  BY <1>1, Kinds DEF Untouched, RequestOK, ProjectOK, Grows
<1>5. q \in Creates => CreateOK(q)'
  <2>1. q \in Creates => q \in ProjectRequests
    BY Kinds
  <2> QED BY <1>1, <2>1 DEF Untouched, RequestOK, CreateOK, Grows
<1>6. q \in Pages => PageOK(q)'
  <2>1. q \in Pages => LoginOf[q] \in Logins /\ page[q] \subseteq Creates
    BY Kinds DEF IInv, TypeOK
  <2> QED BY <1>1, <2>1 DEF Untouched, RequestOK, PageOK, Grows
<1>7. q \in Reads => ReadOK(q)'
  <2>1. q \in Reads => LoginOf[q] \in Logins /\ TargetOf[q] \in Creates
    BY Kinds
  <2> QED BY <1>1, <2>1 DEF Untouched, RequestOK, ReadOK, Grows
<1> QED BY <1>1, <1>2, <1>3, <1>4, <1>5, <1>6, <1>7 DEF RequestOK, Untouched

-----------------------------------------------------------------------------
\* What a step may do to the variables that no answer depends on.
RestTyped ==
  /\ began' \in Seq(Creates) /\ expired' \subseteq Logins
  /\ visible' \in [Pages -> SUBSET Creates] /\ faults' \in 0..MaxFaults

\* A request goes on, with nothing said and nothing written.
LEMMA GoesOn ==
  ASSUME IInv, NEW r \in Requests, NEW step \in Steps, Go(r, step),
         step \in InThread => pc[r] \in InThread \/ Using(InThread) < Threads,
         step \in Connected => pc[r] \in Connected \/ Using(Connected) < PoolSize,
         \/ <<pc[r], step>> \in {<<"new", "asking">>, <<"ready", "working">>,
                                 <<"asking", "connected">>,
                                 <<"stored", "refreshing">>,
                                 <<"returned", "holding">>, <<"holding", "done">>}
         \/ r \in Logins /\ pc[r] = "connected" /\ step = "verified",
         UNCHANGED <<rows, caller, answer, page>>, RestTyped
  PROVE  IInv'
<1>1. /\ pc' \in [Requests -> Steps]
      /\ pc'[r] = step /\ \A q \in Requests \ {r} : pc'[q] = pc[q]
      /\ Using(InThread)' <= Threads /\ Using(Connected)' <= PoolSize
  BY PcMoves DEF IInv
<1>2. TypeOK'
  BY <1>1 DEF IInv, TypeOK, RestTyped, rows
<1>3. Unique' /\ Grows /\ \A q \in Requests \ {r} : Untouched(q)
  BY <1>1 DEF IInv, Unique, Grows, Untouched, rows, SameEmail
<1>4. RequestOK(r)'
  <2>1. RequestOK(r) /\ (r \in Creates => r \in ProjectRequests)
    BY Kinds DEF IInv
  <2>2. r \in Registers => RegisterOK(r)'
    BY <1>1, <2>1, Apart DEF RequestOK, RegisterOK, Answered, rows, SameEmail
  <2>3. r \in Logins => LoginOK(r)'
    BY <1>1, <2>1 DEF RequestOK, LoginOK, Answered, rows, Verified, SameEmail
  <2>4. r \in ProjectRequests => ProjectOK(r)'
    BY <1>1, <2>1, Apart DEF RequestOK, ProjectOK, rows
  <2>5. r \in Creates => CreateOK(r)'
    BY <1>1, <2>1, Apart DEF RequestOK, CreateOK, ProjectOK, Answered, rows
  <2>6. (r \in Pages => PageOK(r)') /\ (r \in Reads => ReadOK(r)')
    BY <2>1 DEF RequestOK, PageOK, ReadOK, rows
  <2>7. pc'[r] \notin Answered => answer'[r] = None
    BY <1>1, <2>1 DEF RequestOK, Answered
  <2> QED BY <2>2, <2>3, <2>4, <2>5, <2>6, <2>7 DEF RequestOK
<1> QED BY <1>2, <1>3, <1>4, OneMoves

\* The frame of a step that answers.
LEMMA AnswerMoves ==
  ASSUME IInv, NEW r \in Requests,
         NEW status \in {200, 201, 401, 404, 409, 500},
         NEW step \in Answered, Answer(r, status, step),
         step # "done" => pc[r] \in Connected
  PROVE  /\ pc' \in [Requests -> Steps]
         /\ answer' \in [Requests -> {None, 200, 201, 401, 404, 409, 500}]
         /\ pc'[r] = step /\ answer'[r] = status
         /\ \A q \in Requests \ {r} : pc'[q] = pc[q] /\ answer'[q] = answer[q]
         /\ Using(InThread)' <= Threads /\ Using(Connected)' <= PoolSize
<1>1. /\ step \in Steps /\ step \notin InThread
      /\ step \in Connected => pc[r] \in Connected
  BY DEF Answered, Steps, InThread, Connected
<1>2. /\ pc' \in [Requests -> Steps]
      /\ pc'[r] = step /\ \A q \in Requests \ {r} : pc'[q] = pc[q]
      /\ Using(InThread)' <= Threads /\ Using(Connected)' <= PoolSize
  BY <1>1, PcMoves DEF IInv, Answer
<1>3. answer' = [answer EXCEPT ![r] = status]
  BY DEF Answer
<1> QED BY <1>2, <1>3 DEF IInv, TypeOK

\* A request is refused or fails, and nothing is written.
LEMMA Ends ==
  ASSUME IInv, NEW r \in Requests, pc[r] \notin Answered,
         NEW status \in {401, 404, 500},
         NEW step \in Answered, Answer(r, status, step),
         step # "done" => pc[r] \in Connected,
         status = 500 \/ pc[r] \notin {"stored", "refreshing"},
         UNCHANGED <<rows, caller, page>>, RestTyped
  PROVE  IInv'
<1>1. /\ pc' \in [Requests -> Steps]
      /\ answer' \in [Requests -> {None, 200, 201, 401, 404, 409, 500}]
      /\ pc'[r] = step /\ answer'[r] = status
      /\ \A q \in Requests \ {r} : pc'[q] = pc[q] /\ answer'[q] = answer[q]
      /\ Using(InThread)' <= Threads /\ Using(Connected)' <= PoolSize
  BY AnswerMoves
<1>2. TypeOK'
  BY <1>1 DEF IInv, TypeOK, RestTyped, rows
<1>3. Unique' /\ Grows /\ \A q \in Requests \ {r} : Untouched(q)
  BY <1>1 DEF IInv, Unique, Grows, Untouched, rows, SameEmail
<1>4. RequestOK(r)'
  <2>1. RequestOK(r) /\ answer[r] = None /\ status # None
        /\ status \notin {200, 201, 409}
    BY <1>1, Kinds DEF IInv, RequestOK
  <2>2. r \in Registers => RegisterOK(r)'
    BY <1>1, <2>1, Kinds DEF RequestOK, RegisterOK, Answered, rows
  <2>3. r \in Logins => LoginOK(r)'
    BY <1>1, <2>1, Kinds DEF RequestOK, LoginOK, Answered, rows
  <2>4. r \in ProjectRequests => ProjectOK(r)'
    BY <1>1, <2>1 DEF RequestOK, ProjectOK, Answered, rows
  <2>5. r \in Creates => CreateOK(r)'
    BY <1>1, <2>1 DEF RequestOK, CreateOK, Answered, rows
  <2>6. (r \in Pages => PageOK(r)') /\ (r \in Reads => ReadOK(r)')
    BY <1>1, <2>1 DEF RequestOK, PageOK, ReadOK, rows
  <2> QED BY <1>1, <2>2, <2>3, <2>4, <2>5, <2>6 DEF RequestOK
<1> QED BY <1>2, <1>3, <1>4, OneMoves

\* The row of a registration is inserted.
LEMMA AccountStored ==
  ASSUME IInv, NEW r \in Registers, pc[r] = "connected", EmailFree(r),
         NEW status \in {201, 500}, NEW step \in Answered, Answer(r, status, step),
         accounts' = accounts \cup {r}, UNCHANGED <<session, owner, caller, page>>,
         RestTyped
  PROVE  IInv'
<1>1. r \in Requests /\ pc[r] \in Connected
  BY Kinds DEF Connected
<1>2. /\ pc' \in [Requests -> Steps]
      /\ answer' \in [Requests -> {None, 200, 201, 401, 404, 409, 500}]
      /\ pc'[r] = step /\ answer'[r] = status
      /\ \A q \in Requests \ {r} : pc'[q] = pc[q] /\ answer'[q] = answer[q]
      /\ Using(InThread)' <= Threads /\ Using(Connected)' <= PoolSize
  BY <1>1, AnswerMoves
<1>3. TypeOK'
  BY <1>2 DEF IInv, TypeOK, RestTyped
<1>4. Unique'
  BY DEF IInv, Unique, EmailFree, SameEmail
<1>5. Grows /\ \A q \in Requests \ {r} : Untouched(q)
  BY <1>2 DEF Grows, Untouched
<1>6. RequestOK(r)'
  <2>1. r \notin Logins /\ r \notin ProjectRequests /\ r \notin Creates
        /\ r \notin Pages /\ r \notin Reads
    BY Kinds, Apart
  <2>2. RegisterOK(r)'
    BY <1>2 DEF RegisterOK
  <2> QED BY <1>2, <2>1, <2>2 DEF RequestOK
<1> QED BY <1>1, <1>3, <1>4, <1>5, <1>6, OneMoves

\* The row of a session is inserted.
LEMMA SessionStored ==
  ASSUME IInv, NEW l \in Logins, pc[l] = "verified",
         NEW a \in accounts, Verified(a, l),
         Answer(l, 200, "done") \/ Answer(l, 500, "holding"),
         session' = [session EXCEPT ![l] = a],
         UNCHANGED <<accounts, owner, caller, page>>, RestTyped
  PROVE  IInv'
<1>1. l \in Requests /\ pc[l] \in Connected
  BY Kinds DEF Connected
<1> PICK status \in {200, 500}, step \in Answered : Answer(l, status, step)
  BY DEF Answered
<1>2. /\ pc' \in [Requests -> Steps]
      /\ answer' \in [Requests -> {None, 200, 201, 401, 404, 409, 500}]
      /\ pc'[l] = step /\ answer'[l] = status
      /\ \A q \in Requests \ {l} : pc'[q] = pc[q] /\ answer'[q] = answer[q]
      /\ Using(InThread)' <= Threads /\ Using(Connected)' <= PoolSize
  BY <1>1, AnswerMoves
<1>3. TypeOK'
  BY <1>2 DEF IInv, TypeOK, RestTyped
<1>4. Unique'
  BY DEF IInv, Unique, SameEmail
<1>5. /\ session'[l] = a /\ session[l] = None
      /\ \A m \in Logins \ {l} : session'[m] = session[m]
  <2>1. answer[l] = None
    BY <1>1 DEF IInv, RequestOK, Answered
  <2> QED BY <1>1, <2>1, Kinds DEF IInv, TypeOK, RequestOK, LoginOK
<1>6. Grows /\ \A q \in Requests \ {l} : Untouched(q)
  BY <1>2, <1>5 DEF Grows, Untouched
<1>7. RequestOK(l)'
  <2>1. l \notin Registers /\ l \notin ProjectRequests /\ l \notin Creates
        /\ l \notin Pages /\ l \notin Reads
    BY Kinds, Apart
  <2>2. a # None
    BY Kinds DEF IInv, TypeOK
  <2>3. LoginOK(l)'
    BY <1>2, <1>5, <2>2 DEF LoginOK, Verified, SameEmail
  <2> QED BY <1>2, <2>1, <2>3 DEF RequestOK
<1> QED BY <1>1, <1>3, <1>4, <1>6, <1>7, OneMoves

\* The row of a project is inserted.
LEMMA ProjectStored ==
  ASSUME IInv, NEW c \in Creates, pc[c] = "working", NameFree(c),
         \/ Go(c, "stored") /\ UNCHANGED answer
         \/ Answer(c, 500, "holding"),
         owner' = [owner EXCEPT ![c] = caller[c]],
         UNCHANGED <<accounts, session, caller, page>>, RestTyped
  PROVE  IInv'
<1>1. c \in Requests /\ c \in ProjectRequests /\ LoginOf[c] \in Logins
  BY Kinds
<1>2. RequestOK(c) /\ ProjectOK(c) /\ CreateOK(c)
  BY <1>1 DEF IInv, RequestOK
<1>3. /\ answer[c] = None /\ owner[c] = None
      /\ caller[c] # None /\ caller[c] = session[LoginOf[c]]
  BY <1>2 DEF RequestOK, ProjectOK, CreateOK, Answered
<1>4. /\ pc' \in [Requests -> Steps]
      /\ answer' \in [Requests -> {None, 200, 201, 401, 404, 409, 500}]
      /\ \/ pc'[c] = "stored" /\ answer'[c] = None
         \/ pc'[c] = "holding" /\ answer'[c] = 500
      /\ \A q \in Requests \ {c} : pc'[q] = pc[q] /\ answer'[q] = answer[q]
      /\ Using(InThread)' <= Threads /\ Using(Connected)' <= PoolSize
  <2>1. pc[c] \in InThread /\ pc[c] \in Connected
    BY DEF InThread, Connected
  <2>2. CASE Go(c, "stored") /\ UNCHANGED answer
    <3>1. "stored" \in Steps /\ "stored" \notin Connected
      BY DEF Steps, InThread, Connected
    <3>2. /\ pc' \in [Requests -> Steps]
          /\ pc'[c] = "stored" /\ \A q \in Requests \ {c} : pc'[q] = pc[q]
          /\ Using(InThread)' <= Threads /\ Using(Connected)' <= PoolSize
      BY <1>1, <2>1, <2>2, <3>1, PcMoves DEF IInv
    <3> QED BY <1>3, <2>2, <3>2 DEF IInv, TypeOK
  <2>3. CASE Answer(c, 500, "holding")
    <3>1. "holding" \in Answered
      BY DEF Answered
    <3> QED BY <1>1, <2>1, <2>3, <3>1, AnswerMoves
  <2> QED BY <2>2, <2>3
<1>5. /\ owner'[c] = caller[c] /\ \A d \in Creates \ {c} : owner'[d] = owner[d]
      /\ caller[c] \in Registers
      /\ owner' \in [Creates -> Registers \cup {None}]
  BY <1>1, <1>3 DEF IInv, TypeOK
<1>6. TypeOK'
  BY <1>4, <1>5 DEF IInv, TypeOK, RestTyped
<1>7. Unique'
  BY <1>3, <1>5 DEF IInv, Unique, NameFree, SameEmail
<1>8. Grows /\ \A q \in Requests \ {c} : Untouched(q)
  BY <1>3, <1>4, <1>5 DEF Grows, Untouched
<1>9. RequestOK(c)'
  <2>1. c \notin Registers /\ c \notin Logins /\ c \notin Pages /\ c \notin Reads
    BY <1>1, Apart
  <2>2. ProjectOK(c)'
    BY <1>2, <1>3, <1>4 DEF ProjectOK
  <2>3. CreateOK(c)'
    BY <1>3, <1>4, <1>5, Kinds DEF CreateOK, Answered
  <2> QED BY <1>1, <1>4, <2>1, <2>2, <2>3 DEF RequestOK, Answered
<1> QED BY <1>1, <1>6, <1>7, <1>8, <1>9, OneMoves

-----------------------------------------------------------------------------
LEMMA TypedRest ==
  ASSUME IInv
  PROVE  /\ began \in Seq(Creates) /\ expired \subseteq Logins
         /\ visible \in [Pages -> SUBSET Creates] /\ faults \in 0..MaxFaults
BY DEF IInv, TypeOK

LEMMA ResourcesIInv ==
  ASSUME IInv, NEW r \in Requests,
         TakeThread(r) \/ Connect(r) \/ PoolTimeout(r) \/ Close(r)
  PROVE  IInv'
<1>1. CASE TakeThread(r)
  <2>1. /\ UNCHANGED <<rows, caller, answer, page>> /\ RestTyped
        /\ Using(InThread) < Threads
    BY <1>1, TypedRest DEF TakeThread, RestTyped
  <2>2. CASE pc[r] = "new" /\ Go(r, "asking")
    <3>1. "asking" \in Steps /\ "asking" \notin Connected
      BY DEF Steps, InThread, Connected
    <3> QED BY <2>1, <2>2, <3>1, GoesOn
  <2>3. CASE pc[r] = "ready" /\ Go(r, "working")
    <3>1. "working" \in Steps /\ pc[r] \in Connected
      BY <2>3 DEF Steps, InThread, Connected
    <3> QED BY <2>1, <2>3, <3>1, GoesOn
  <2>4. CASE pc[r] = "returned" /\ Go(r, "holding")
    <3>1. "holding" \in Steps /\ "holding" \notin InThread /\ pc[r] \in Connected
      BY <2>4 DEF Steps, InThread, Connected
    <3> QED BY <2>1, <2>4, <3>1, GoesOn
  <2> QED BY <1>1, <2>2, <2>3, <2>4 DEF TakeThread
<1>2. CASE Connect(r)
  <2>1. /\ UNCHANGED <<rows, caller, answer, page>> /\ RestTyped
        /\ Using(Connected) < PoolSize
    BY <1>2, TypedRest DEF Connect, RestTyped
  <2>2. {"asking", "connected", "stored", "refreshing"} \subseteq InThread
        /\ {"connected", "refreshing"} \subseteq Steps
    BY DEF Steps, InThread, Connected
  <2>3. CASE pc[r] = "asking" /\ Go(r, "connected")
    BY <2>1, <2>2, <2>3, GoesOn
  <2>4. CASE pc[r] = "stored" /\ Go(r, "refreshing")
    BY <2>1, <2>2, <2>4, GoesOn
  <2> QED BY <1>2, <2>3, <2>4 DEF Connect
<1>3. CASE PoolTimeout(r)
  <2>1. /\ UNCHANGED <<rows, caller, page>> /\ RestTyped
        /\ pc[r] \in {"asking", "stored"} /\ Answer(r, 500, "done")
    BY <1>3, TypedRest DEF PoolTimeout, RestTyped
  <2>2. pc[r] \notin Answered /\ "done" \in Answered
    BY <2>1 DEF Answered
  <2> QED BY <2>1, <2>2, Ends
<1>4. CASE Close(r)
  <2>1. /\ UNCHANGED <<rows, caller, answer, page>> /\ RestTyped
        /\ pc[r] = "holding" /\ Go(r, "done")
    BY <1>4, TypedRest DEF Close, RestTyped
  <2>2. "done" \in Steps /\ "done" \notin InThread /\ "done" \notin Connected
    BY DEF Steps, InThread, Connected
  <2> QED BY <2>1, <2>2, GoesOn
<1> QED BY <1>1, <1>2, <1>3, <1>4

LEMMA RegisterIInv ==
  ASSUME IInv, NEW r \in Requests, Register(r)
  PROVE  IInv'
<1>1. /\ r \in Registers /\ pc[r] = "connected"
      /\ UNCHANGED <<session, owner, caller, page>> /\ RestTyped
      /\ "done" \in Answered /\ pc[r] \notin Answered
  BY TypedRest DEF Register, RestTyped, Answered
<1>2. CASE EmailFree(r)
  BY <1>1, <1>2, AccountStored DEF Register
<1>3. CASE ~EmailFree(r)
  <2>1. Answer(r, 409, "done") /\ UNCHANGED accounts
    BY <1>3 DEF Register
  <2>2. /\ pc' \in [Requests -> Steps]
        /\ answer' \in [Requests -> {None, 200, 201, 401, 404, 409, 500}]
        /\ pc'[r] = "done" /\ answer'[r] = 409
        /\ \A q \in Requests \ {r} : pc'[q] = pc[q] /\ answer'[q] = answer[q]
        /\ Using(InThread)' <= Threads /\ Using(Connected)' <= PoolSize
    BY <1>1, <2>1, AnswerMoves
  <2>3. r \notin accounts
    BY <1>1, Kinds DEF IInv, RequestOK, RegisterOK
  <2>4. RegisterOK(r)'
    BY <1>3, <2>1, <2>2, <2>3 DEF RegisterOK, EmailFree, SameEmail, Answered
  <2>5. RequestOK(r)'
    <3>1. r \notin Logins /\ r \notin ProjectRequests /\ r \notin Creates
          /\ r \notin Pages /\ r \notin Reads
      BY <1>1, Kinds, Apart
    <3> QED BY <2>2, <2>4, <3>1 DEF RequestOK, Answered
  <2>6. TypeOK' /\ Unique' /\ Grows /\ \A q \in Requests \ {r} : Untouched(q)
    BY <1>1, <2>1, <2>2
       DEF IInv, TypeOK, Unique, Grows, Untouched, RestTyped, SameEmail
  <2> QED BY <2>5, <2>6, OneMoves
<1> QED BY <1>2, <1>3

LEMMA LoginIInv ==
  ASSUME IInv, NEW r \in Requests, Lookup(r) \/ IssueSession(r)
  PROVE  IInv'
<1>1. CASE Lookup(r)
  <2>1. /\ r \in Logins /\ pc[r] = "connected"
        /\ UNCHANGED <<rows, caller, page>> /\ RestTyped
    BY <1>1, TypedRest DEF Lookup, RestTyped
  <2>2. pc[r] \notin Answered /\ "holding" \in Answered
        /\ "verified" \in Steps /\ pc[r] \in InThread /\ pc[r] \in Connected
    BY <2>1 DEF Answered, Steps, InThread, Connected
  <2>3. CASE Go(r, "verified") /\ UNCHANGED answer
    BY <2>1, <2>2, <2>3, GoesOn
  <2>4. CASE Answer(r, 401, "holding")
    BY <2>1, <2>2, <2>4, Ends
  <2> QED BY <1>1, <2>3, <2>4 DEF Lookup
<1>2. CASE IssueSession(r)
  <2>1. /\ r \in Logins /\ pc[r] = "verified" /\ Answer(r, 200, "done")
        /\ UNCHANGED <<accounts, owner, caller, page>> /\ RestTyped
        /\ "done" \in Answered
    BY <1>2, TypedRest DEF IssueSession, RestTyped, Answered
  <2>2. PICK a \in accounts : Verified(a, r) /\ session' = [session EXCEPT ![r] = a]
    BY <1>2 DEF IssueSession
  <2> QED BY <2>1, <2>2, SessionStored
<1> QED BY <1>1, <1>2

LEMMA NoCredentialsIInv ==
  ASSUME IInv, NEW r \in Requests, NoCredentials(r)
  PROVE  IInv'
<1>1. /\ pc[r] = "asking" /\ Answer(r, 401, "done")
      /\ UNCHANGED <<rows, caller, page>> /\ RestTyped
  BY TypedRest DEF NoCredentials, RestTyped
<1>2. pc[r] \notin Answered /\ "done" \in Answered
  BY <1>1 DEF Answered
<1> QED BY <1>1, <1>2, Ends

LEMMA AuthenticateIInv ==
  ASSUME IInv, NEW r \in Requests, Authenticate(r)
  PROVE  IInv'
<1>1. /\ r \in ProjectRequests /\ pc[r] = "connected"
      /\ UNCHANGED <<rows, page, visible>>
  BY DEF Authenticate
<1>2. LoginOf[r] \in Logins
  BY <1>1, Kinds
<1>3. RestTyped
  <2>1. began' \in Seq(Creates)
    <3>1. CASE r \in Creates
      BY <3>1, TypedRest DEF Authenticate
    <3>2. CASE r \notin Creates
      BY <3>2, TypedRest DEF Authenticate
    <3> QED BY <3>1, <3>2
  <2>2. expired' \subseteq Logins /\ faults' \in 0..MaxFaults
    BY <1>2, TypedRest, SizesAssumption DEF Authenticate
  <2> QED BY <1>1, <2>1, <2>2, TypedRest DEF RestTyped
<1>4. CASE Answer(r, 401, "holding") /\ UNCHANGED caller
  <2>1. pc[r] \notin Answered /\ "holding" \in Answered /\ pc[r] \in Connected
    BY <1>1 DEF Answered, Connected
  <2> QED BY <1>1, <1>3, <1>4, <2>1, Ends
<1>5. CASE /\ session[LoginOf[r]] # None
           /\ caller' = [caller EXCEPT ![r] = session[LoginOf[r]]]
           /\ Go(r, "ready")
           /\ UNCHANGED answer
  <2>1. /\ "ready" \in Steps /\ "ready" \notin InThread /\ pc[r] \in Connected
    BY <1>1 DEF Steps, InThread, Connected
  <2>2. /\ pc' \in [Requests -> Steps]
        /\ pc'[r] = "ready" /\ \A q \in Requests \ {r} : pc'[q] = pc[q]
        /\ Using(InThread)' <= Threads /\ Using(Connected)' <= PoolSize
    BY <1>5, <2>1, PcMoves DEF IInv
  <2>3. /\ caller'[r] = session[LoginOf[r]]
        /\ caller' \in [ProjectRequests -> Registers \cup {None}]
        /\ \A q \in ProjectRequests \ {r} : caller'[q] = caller[q]
    BY <1>1, <1>2, <1>5 DEF IInv, TypeOK
  <2>4. TypeOK'
    BY <1>1, <1>3, <1>5, <2>2, <2>3 DEF IInv, TypeOK, RestTyped, rows
  <2>5. Unique' /\ Grows /\ \A q \in Requests \ {r} : Untouched(q)
    BY <1>1, <1>5, <2>2, <2>3 DEF IInv, Unique, Grows, Untouched, rows, SameEmail
  <2>6. RequestOK(r)'
    <3>1. RequestOK(r) /\ r \notin Registers /\ r \notin Logins
          /\ answer[r] = None /\ None \notin Nat
      BY <1>1, Apart, Kinds DEF IInv, RequestOK, Answered
    <3>2. ProjectOK(r)'
      BY <1>1, <1>5, <2>2, <2>3 DEF ProjectOK, rows
    <3>3. r \in Creates => CreateOK(r)'
      BY <1>1, <1>5, <2>2, <3>1 DEF RequestOK, CreateOK, rows, Answered
    <3>4. (r \in Pages => PageOK(r)') /\ (r \in Reads => ReadOK(r)')
      BY <1>1, <1>5, <3>1 DEF RequestOK, PageOK, ReadOK, rows
    <3> QED BY <1>5, <3>1, <3>2, <3>3, <3>4 DEF RequestOK
  <2> QED BY <2>4, <2>5, <2>6, OneMoves
<1> QED BY <1>4, <1>5 DEF Authenticate

\* What an authenticated request has when it works.
LEMMA Working ==
  ASSUME IInv, NEW r \in Requests, pc[r] = "working"
  PROVE  /\ r \in ProjectRequests /\ r \notin Registers /\ r \notin Logins
         /\ LoginOf[r] \in Logins
         /\ answer[r] = None
         /\ caller[r] \in Registers /\ caller[r] # None
         /\ caller[r] = session[LoginOf[r]]
         /\ pc[r] \in Connected /\ pc[r] \notin Answered
<1>1. pc[r] \in Connected /\ pc[r] \notin Answered
  BY DEF Connected, Answered
<1>2. RequestOK(r)
  BY DEF IInv
<1>3. r \in ProjectRequests
  BY <1>2 DEF RequestOK, RegisterOK, LoginOK, Answered, Requests
<1>4. r \notin Registers /\ r \notin Logins /\ LoginOf[r] \in Logins
  BY <1>3, Apart, Kinds
<1>5. caller[r] # None /\ caller[r] = session[LoginOf[r]] /\ answer[r] = None
  BY <1>1, <1>2, <1>3 DEF RequestOK, ProjectOK
<1> QED BY <1>1, <1>3, <1>4, <1>5 DEF IInv, TypeOK

LEMMA CreateProjectIInv ==
  ASSUME IInv, NEW r \in Requests, CreateProject(r)
  PROVE  IInv'
<1>1. /\ r \in Creates /\ pc[r] = "working"
      /\ UNCHANGED <<accounts, session, caller, page>> /\ RestTyped
  BY TypedRest DEF CreateProject, RestTyped
<1>2. CASE NameFree(r)
  BY <1>1, <1>2, ProjectStored DEF CreateProject
<1>3. CASE ~NameFree(r)
  <2>1. Answer(r, 409, "done") /\ UNCHANGED owner /\ "done" \in Answered
    BY <1>3 DEF CreateProject, Answered
  <2>2. /\ pc' \in [Requests -> Steps]
        /\ answer' \in [Requests -> {None, 200, 201, 401, 404, 409, 500}]
        /\ pc'[r] = "done" /\ answer'[r] = 409
        /\ \A q \in Requests \ {r} : pc'[q] = pc[q] /\ answer'[q] = answer[q]
        /\ Using(InThread)' <= Threads /\ Using(Connected)' <= PoolSize
    BY <2>1, AnswerMoves
  <2>3. RequestOK(r) /\ owner[r] = None /\ r \notin Pages /\ r \notin Reads
    BY <1>1, Apart DEF IInv, RequestOK, CreateOK, Answered
  <2>4. PICK d \in Creates : owner[d] = caller[r] /\ NameOf[d] = NameOf[r]
    BY <1>3 DEF NameFree
  <2>5. CreateOK(r)'
    BY <1>1, <2>1, <2>2, <2>3, <2>4, Working DEF CreateOK, Answered
  <2>6. ProjectOK(r)'
    BY <1>1, <2>2, <2>3, Working DEF RequestOK, ProjectOK
  <2>7. RequestOK(r)'
    BY <1>1, <2>1, <2>2, <2>3, <2>5, <2>6, Working DEF RequestOK
  <2>8. TypeOK' /\ Unique' /\ Grows /\ \A q \in Requests \ {r} : Untouched(q)
    BY <1>1, <2>1, <2>2
       DEF IInv, TypeOK, Unique, Grows, Untouched, RestTyped, SameEmail
  <2> QED BY <2>7, <2>8, OneMoves
<1> QED BY <1>2, <1>3

LEMMA RefreshIInv ==
  ASSUME IInv, NEW r \in Requests, Refresh(r)
  PROVE  IInv'
<1>1. /\ pc[r] = "refreshing" /\ Answer(r, 201, "returned")
      /\ UNCHANGED <<rows, caller, page>> /\ RestTyped
      /\ "returned" \in Answered /\ pc[r] \in Connected
  BY TypedRest DEF Refresh, RestTyped, Answered, Connected
<1>2. /\ pc' \in [Requests -> Steps]
      /\ answer' \in [Requests -> {None, 200, 201, 401, 404, 409, 500}]
      /\ pc'[r] = "returned" /\ answer'[r] = 201
      /\ \A q \in Requests \ {r} : pc'[q] = pc[q] /\ answer'[q] = answer[q]
      /\ Using(InThread)' <= Threads /\ Using(Connected)' <= PoolSize
  BY <1>1, AnswerMoves
<1>3. RequestOK(r)
  BY DEF IInv
<1>4. r \in ProjectRequests
  BY <1>1, <1>3 DEF RequestOK, RegisterOK, LoginOK, Answered, Requests
<1>5. r \in Creates
  BY <1>1, <1>3, <1>4 DEF RequestOK, ProjectOK
<1>6. r \notin Registers /\ r \notin Logins /\ r \notin Pages /\ r \notin Reads
  BY <1>4, <1>5, Apart
<1>7. ProjectOK(r)' /\ CreateOK(r)'
  BY <1>1, <1>2, <1>3, <1>4, <1>5 DEF RequestOK, ProjectOK, CreateOK, rows, Answered
<1>8. RequestOK(r)'
  BY <1>2, <1>6, <1>7 DEF RequestOK, Answered
<1>9. TypeOK' /\ Unique' /\ Grows /\ \A q \in Requests \ {r} : Untouched(q)
  BY <1>1, <1>2
     DEF IInv, TypeOK, Unique, Grows, Untouched, RestTyped, rows, SameEmail
<1> QED BY <1>8, <1>9, OneMoves

LEMMA ListProjectsIInv ==
  ASSUME IInv, NEW r \in Requests, ListProjects(r)
  PROVE  IInv'
<1> DEFINE mine == Owned(caller[r])
           listed == {c \in mine : Rank(c, mine) \in OffsetOf[r]..(OffsetOf[r] + Limit - 1)}
<1>1. listed \subseteq mine /\ mine \subseteq Creates
      /\ \A c \in mine : owner[c] = caller[r]
  BY DEF Owned
<1>2. /\ r \in Pages /\ pc[r] = "working" /\ Answer(r, 200, "returned")
      /\ page' = [page EXCEPT ![r] = listed]
      /\ visible' = [visible EXCEPT ![r] = mine]
      /\ UNCHANGED <<rows, expired, began, caller, faults>>
      /\ "returned" \in Answered
  BY DEF ListProjects, Answered
<1> HIDE DEF listed, mine
<1>3. /\ pc' \in [Requests -> Steps]
      /\ answer' \in [Requests -> {None, 200, 201, 401, 404, 409, 500}]
      /\ pc'[r] = "returned" /\ answer'[r] = 200
      /\ \A q \in Requests \ {r} : pc'[q] = pc[q] /\ answer'[q] = answer[q]
      /\ Using(InThread)' <= Threads /\ Using(Connected)' <= PoolSize
  BY <1>2, Working, AnswerMoves
<1>4. TypeOK'
  BY <1>1, <1>2, <1>3 DEF IInv, TypeOK, rows
<1>5. Unique' /\ Grows /\ \A q \in Requests \ {r} : Untouched(q)
  BY <1>2, <1>3 DEF IInv, TypeOK, Unique, Grows, Untouched, rows, SameEmail
<1>6. RequestOK(r)'
  <2>1. RequestOK(r) /\ r \notin Creates /\ r \notin Reads
    BY <1>2, Apart DEF IInv
  <2>2. page'[r] = listed
    BY <1>2 DEF IInv, TypeOK
  <2>3. PageOK(r)'
    BY <1>1, <1>2, <2>2, Working DEF PageOK, rows
  <2>4. ProjectOK(r)'
    BY <1>2, <1>3, <2>1, Working DEF RequestOK, ProjectOK, rows
  <2> QED BY <1>2, <1>3, <2>1, <2>3, <2>4, Working DEF RequestOK
<1> QED BY <1>4, <1>5, <1>6, OneMoves

LEMMA ReadProjectIInv ==
  ASSUME IInv, NEW r \in Requests, ReadProject(r)
  PROVE  IInv'
<1>1. /\ r \in Reads /\ pc[r] = "working"
      /\ UNCHANGED <<rows, caller, page>> /\ RestTyped
      /\ {"returned", "holding"} \subseteq Answered
  BY TypedRest DEF ReadProject, RestTyped, Answered
<1>2. CASE Answer(r, 404, "holding")
  BY <1>1, <1>2, Working, Ends
<1>3. CASE Answer(r, 200, "returned") /\ TargetOf[r] \in Owned(caller[r])
  <2>1. /\ pc' \in [Requests -> Steps]
        /\ answer' \in [Requests -> {None, 200, 201, 401, 404, 409, 500}]
        /\ pc'[r] = "returned" /\ answer'[r] = 200
        /\ \A q \in Requests \ {r} : pc'[q] = pc[q] /\ answer'[q] = answer[q]
        /\ Using(InThread)' <= Threads /\ Using(Connected)' <= PoolSize
    BY <1>1, <1>3, Working, AnswerMoves
  <2>2. RequestOK(r) /\ r \notin Creates /\ r \notin Pages
    BY <1>1, Apart DEF IInv
  <2>3. ReadOK(r)'
    BY <1>1, <1>3, Working DEF ReadOK, Owned, rows
  <2>4. ProjectOK(r)'
    BY <1>1, <2>1, <2>2, Working DEF RequestOK, ProjectOK, rows
  <2>5. RequestOK(r)'
    BY <1>1, <2>1, <2>2, <2>3, <2>4, Working DEF RequestOK
  <2>6. TypeOK' /\ Unique' /\ Grows /\ \A q \in Requests \ {r} : Untouched(q)
    BY <1>1, <2>1
       DEF IInv, TypeOK, Unique, Grows, Untouched, RestTyped, rows, SameEmail
  <2> QED BY <2>5, <2>6, OneMoves
<1> QED BY <1>2, <1>3 DEF ReadProject

LEMMA StatementFailsIInv ==
  ASSUME IInv, NEW r \in Requests, StatementFails(r)
  PROVE  IInv'
<1>1. /\ pc[r] \in {"connected", "verified", "working", "refreshing"}
      /\ Answer(r, 500, "holding")
      /\ UNCHANGED <<caller, page>>
      /\ "holding" \in Answered /\ pc[r] \notin Answered /\ pc[r] \in Connected
  BY DEF StatementFails, Answered, Connected
<1>2. RestTyped
  BY TypedRest, SizesAssumption DEF StatementFails, RestTyped
<1>3. CASE UNCHANGED rows
  BY <1>1, <1>2, <1>3, Ends
<1>4. CASE /\ r \in Registers /\ pc[r] = "connected" /\ EmailFree(r)
           /\ accounts' = accounts \cup {r}
           /\ UNCHANGED <<session, owner>>
  BY <1>1, <1>2, <1>4, AccountStored
<1>5. CASE /\ r \in Logins /\ pc[r] = "verified"
           /\ \E a \in accounts :
                Verified(a, r) /\ session' = [session EXCEPT ![r] = a]
           /\ UNCHANGED <<accounts, owner>>
  <2>1. PICK a \in accounts : Verified(a, r) /\ session' = [session EXCEPT ![r] = a]
    BY <1>5
  <2>2. UNCHANGED <<accounts, owner, caller, page>>
    BY <1>1, <1>5
  <2>3. r \in Logins /\ pc[r] = "verified"
    BY <1>5
  <2> QED BY <1>1, <1>2, <2>1, <2>2, <2>3, SessionStored
<1>6. CASE /\ r \in Creates /\ pc[r] = "working" /\ NameFree(r)
           /\ owner' = [owner EXCEPT ![r] = caller[r]]
           /\ UNCHANGED <<accounts, session>>
  BY <1>1, <1>2, <1>6, ProjectStored
<1> QED BY <1>3, <1>4, <1>5, <1>6 DEF StatementFails

-----------------------------------------------------------------------------
LEMMA InitIInv == Init => IInv
<1> SUFFICES ASSUME Init PROVE IInv
  OBVIOUS
<1>1. Using(InThread) = 0 /\ Using(Connected) = 0
  <2>1. {r \in Requests : pc[r] \in InThread} = {}
    BY DEF Init, InThread
  <2>2. {r \in Requests : pc[r] \in Connected} = {}
    BY DEF Init, Connected
  <2> QED BY <2>1, <2>2, FS_EmptySet DEF Using
<1>2. TypeOK
  <2>1. "new" \in Steps
    BY DEF Steps
  <2> QED BY <1>1, <2>1, SizesAssumption DEF Init, TypeOK
<1>3. Unique
  BY DEF Init, Unique
<1>4. ASSUME NEW r \in Requests PROVE RequestOK(r)
  <2>1. /\ pc[r] = "new" /\ answer[r] = None /\ None \notin Nat
        /\ accounts = {}
    BY Kinds DEF Init
  <2>2. r \in Registers => RegisterOK(r)
    BY <2>1 DEF RegisterOK
  <2>3. r \in Logins => LoginOK(r)
    BY <2>1 DEF Init, LoginOK
  <2>4. r \in ProjectRequests => ProjectOK(r)
    BY <2>1 DEF Init, ProjectOK
  <2>5. r \in Creates => CreateOK(r)
    BY <2>1 DEF Init, CreateOK
  <2>6. (r \in Pages => PageOK(r)) /\ (r \in Reads => ReadOK(r))
    BY <2>1 DEF Init, PageOK, ReadOK
  <2> QED BY <2>1, <2>2, <2>3, <2>4, <2>5, <2>6 DEF RequestOK
<1> QED BY <1>2, <1>3, <1>4 DEF IInv

LEMMA NextIInv ==
  ASSUME IInv, [Next]_vars
  PROVE  IInv'
<1>1. CASE UNCHANGED vars
  <2>1. TypeOK'
    BY <1>1 DEF vars, IInv, TypeOK, Using
  <2>2. Unique'
    BY <1>1 DEF vars, IInv, Unique, SameEmail
  <2>3. ASSUME NEW r \in Requests PROVE RequestOK(r)'
    BY <1>1 DEF vars, IInv, RequestOK, RegisterOK, LoginOK, ProjectOK, CreateOK,
                PageOK, ReadOK, SameEmail, Verified
  <2> QED BY <2>1, <2>2, <2>3 DEF IInv
<1>2. CASE Progress
  <2>1. PICK r \in Requests : TakeThread(r) \/ Connect(r) \/ PoolTimeout(r)
                              \/ Serve(r) \/ Close(r)
    BY <1>2 DEF Progress
  <2>2. CASE Serve(r)
    <3>1. CASE Register(r)
      BY <3>1, RegisterIInv
    <3>2. CASE Lookup(r) \/ IssueSession(r)
      BY <3>2, LoginIInv
    <3>3. CASE NoCredentials(r)
      BY <3>3, NoCredentialsIInv
    <3>4. CASE Authenticate(r)
      BY <3>4, AuthenticateIInv
    <3>5. CASE CreateProject(r)
      BY <3>5, CreateProjectIInv
    <3>6. CASE Refresh(r)
      BY <3>6, RefreshIInv
    <3>7. CASE ListProjects(r)
      BY <3>7, ListProjectsIInv
    <3>8. CASE ReadProject(r)
      BY <3>8, ReadProjectIInv
    <3> QED BY <2>2, <3>1, <3>2, <3>3, <3>4, <3>5, <3>6, <3>7, <3>8 DEF Serve
  <2> QED BY <2>1, <2>2, ResourcesIInv
<1>3. CASE \E r \in Requests : StatementFails(r)
  BY <1>3, StatementFailsIInv
<1> QED BY <1>1, <1>2, <1>3 DEF Next

\* For any clients, threads and connections, the invariant holds.
THEOREM Invariant == Spec => []IInv
BY InitIInv, NextIInv, PTL DEF Spec

\* For any clients, the rows and answers have the types of the routes, and no
\* more threads and connections are in use than session.py and the framework
\* provide.
THEOREM TypeCorrect == Spec => []TypeOK
<1>1. IInv => TypeOK
  BY DEF IInv
<1> QED BY <1>1, Invariant, PTL

\* For any registrations, logins and creates that race and fail, the unique
\* constraints hold and every answer is true of the row behind it.
THEOREM AnswersTrue == Spec => []AnswersAgree
<1>1. ASSUME IInv PROVE AnswersAgree
  <2>1. \A r \in Registers : RegisterOK(r)
    BY <1>1, Kinds DEF IInv, RequestOK
  <2>2. \A l \in Logins : LoginOK(l)
    BY <1>1, Kinds DEF IInv, RequestOK
  <2>3. \A c \in Creates : CreateOK(c)
    BY <1>1, Kinds DEF IInv, RequestOK
  <2>4. Unique
    BY <1>1 DEF IInv
  <2>5. \A r \in Registers :
          /\ answer[r] = 201 => r \in accounts
          /\ answer[r] = 409 => \E a \in accounts \ {r} : SameEmail(a, r)
          /\ r \in accounts => answer[r] \in {201, 500}
    BY <2>1 DEF RegisterOK
  <2>6. \A l \in Logins :
          /\ answer[l] = 200 => session[l] # None
          /\ session[l] # None => session[l] \in accounts /\ Verified(session[l], l)
    BY <2>2 DEF LoginOK
  <2>7. \A c \in Creates :
          /\ answer[c] = 201 => owner[c] # None
          /\ answer[c] = 409 => \E d \in Creates \ {c} :
                                  owner[d] = caller[c] /\ NameOf[d] = NameOf[c]
          /\ owner[c] # None => answer[c] \in {None, 201, 500}
    BY <2>3 DEF CreateOK
  <2> QED BY <2>4, <2>5, <2>6, <2>7 DEF AnswersAgree, Unique
<1> QED BY <1>1, Invariant, PTL

\* For any clients, a project is created, listed and read for the account
\* whose token the request carries, and for no other.
THEOREM RowsOfOwner == Spec => []OwnRowsOnly
<1>1. ASSUME IInv PROVE OwnRowsOnly
  <2>1. \A r \in ProjectRequests : RequestOK(r)
    BY <1>1, Kinds DEF IInv
  <2>2. \A c \in Creates : owner[c] # None => owner[c] = session[LoginOf[c]]
    BY <2>1, Kinds DEF RequestOK, CreateOK, ProjectOK
  <2>3. \A q \in Pages : \A c \in page[q] : owner[c] = session[LoginOf[q]]
    BY <2>1, Kinds DEF RequestOK, PageOK
  <2>4. \A r \in Reads :
          answer[r] = 200 => /\ session[LoginOf[r]] # None
                             /\ owner[TargetOf[r]] = session[LoginOf[r]]
    BY <2>1, Kinds DEF RequestOK, ReadOK
  <2> QED BY <2>2, <2>3, <2>4 DEF OwnRowsOnly
<1> QED BY <1>1, Invariant, PTL

-----------------------------------------------------------------------------
(* Paging.  The order of created_at only grows at its end, rows stay, and  *)
(* only a page's own request reads: PagesInv says what was read and when.  *)

Early == {"new", "asking", "connected"}

\* A create is in the order once, from its authentication on.
BeganOK ==
  /\ \A i, j \in DOMAIN began : began[i] = began[j] => i = j
  /\ \A i \in DOMAIN began : pc[began[i]] \notin Early
  /\ \A c \in Creates : caller[c] # None => \E i \in DOMAIN began : began[i] = c

\* A page lists the rows of its ranks among projects that are the caller's.
Shown(q) ==
  answer[q] = 200 =>
    /\ session[LoginOf[q]] # None
    /\ visible[q] \subseteq Owned(session[LoginOf[q]])
    /\ page[q] = {c \in visible[q] :
                    Rank(c, visible[q]) \in OffsetOf[q]..(OffsetOf[q] + Limit - 1)}

\* A page that is asked for after another sees no less.
InOrder(p, q) ==
  q \in After[p] =>
    /\ pc[p] # "new" => answer[q] # None
    /\ answer[p] = 200 /\ answer[q] = 200 /\ LoginOf[p] = LoginOf[q]
       => visible[q] \subseteq visible[p]

PagesInv ==
  /\ IInv
  /\ BeganOK
  /\ \A q \in Pages : Shown(q)
  /\ \A p, q \in Pages : InOrder(p, q)

\* What every step keeps: rows, answers, and the sequence of the client.
Orderly ==
  /\ Grows
  /\ \A q \in Requests : answer[q] # None => answer'[q] = answer[q]
  /\ \A q \in Requests : pc[q] \notin Early => pc'[q] \notin Early
  /\ \A q \in Requests :
       pc[q] = "new" /\ pc'[q] # "new" =>
         \A p \in After[q] : answer[p] # None /\ pc[p] # "returned"

LEMMA OrderlyMove ==
  ASSUME IInv, Grows, NEW r \in Requests, NEW step, Go(r, step), UNCHANGED answer,
         step \in Early => pc[r] \in Early,
         pc[r] = "new" =>
           \A p \in After[r] : answer[p] # None /\ pc[p] # "returned"
  PROVE  Orderly
BY DEF IInv, TypeOK, Go, Orderly

LEMMA OrderlyAnswer ==
  ASSUME IInv, Grows, NEW r \in Requests, NEW status, NEW step \in Answered,
         Answer(r, status, step), pc[r] \notin Answered \cup {"new"}
  PROVE  Orderly
<1>1. Go(r, step) /\ step \notin Early
  BY DEF Answer, Answered, Early
<1>2. \A q \in Requests : answer[q] # None => answer'[q] = answer[q]
  BY DEF IInv, TypeOK, RequestOK, Answer
<1> QED BY <1>1, <1>2 DEF IInv, TypeOK, Go, Orderly

LEMMA StepOrderly ==
  ASSUME IInv, [Next]_vars
  PROVE  Orderly
<1>1. CASE UNCHANGED vars
  BY <1>1 DEF vars, rows, Grows, Orderly
<1>2. UNCHANGED rows => Grows
  BY DEF rows, Grows
<1>3. {"returned", "holding", "done"} \subseteq Answered
  BY DEF Answered
<1>4. ASSUME NEW r \in Requests,
             TakeThread(r) \/ Connect(r) \/ PoolTimeout(r) \/ Close(r)
      PROVE  Orderly
  <2>1. Grows
    BY <1>2, <1>4 DEF TakeThread, Connect, PoolTimeout, Close
  <2>2. CASE TakeThread(r)
    BY <2>1, <2>2, OrderlyMove DEF TakeThread, Early
  <2>3. CASE Connect(r)
    BY <2>1, <2>3, OrderlyMove DEF Connect, Early
  <2>4. CASE PoolTimeout(r)
    <3>1. pc[r] \notin Answered \cup {"new"}
      BY <2>4 DEF PoolTimeout, Answered
    <3> QED BY <1>3, <2>1, <2>4, <3>1, OrderlyAnswer DEF PoolTimeout
  <2>5. CASE Close(r)
    BY <2>1, <2>5, OrderlyMove DEF Close, Early
  <2> QED BY <1>4, <2>2, <2>3, <2>4, <2>5
<1>5. ASSUME NEW r \in Requests, Serve(r) \/ StatementFails(r)
      PROVE  Orderly
  <2>1. pc[r] \notin Answered \cup {"new"}
    BY <1>5 DEF Serve, Register, Lookup, IssueSession, NoCredentials, Authenticate,
         CreateProject, Refresh, ListProjects, ReadProject, StatementFails, Answered
  <2>2. answer[r] = None
    BY <2>1 DEF IInv, RequestOK
  <2>3. Grows
    <3>1. CASE UNCHANGED rows
      BY <1>2, <3>1
    <3>2. CASE accounts' = accounts \cup {r} /\ UNCHANGED <<session, owner>>
      BY <3>2 DEF Grows
    <3>3. CASE /\ r \in Logins /\ UNCHANGED <<accounts, owner>>
               /\ \E a \in accounts : session' = [session EXCEPT ![r] = a]
      <4>1. session[r] = None
        BY <2>2, <3>3, Kinds DEF IInv, RequestOK, LoginOK
      <4> QED BY <3>3, <4>1 DEF IInv, TypeOK, Grows
    <3>4. CASE /\ r \in Creates /\ pc[r] = "working" /\ UNCHANGED <<accounts, session>>
               /\ owner' = [owner EXCEPT ![r] = caller[r]]
      <4>1. owner[r] = None
        BY <3>4, Kinds DEF IInv, RequestOK, CreateOK, Answered
      <4> QED BY <3>4, <4>1 DEF IInv, TypeOK, Grows
    <3>5. CASE StatementFails(r)
      BY <3>1, <3>2, <3>3, <3>4, <3>5 DEF StatementFails
    <3>6. CASE Serve(r)
      <4>1. CASE Register(r)
        BY <3>1, <3>2, <4>1 DEF Register, rows
      <4>2. CASE IssueSession(r)
        BY <3>3, <4>2 DEF IssueSession
      <4>3. CASE CreateProject(r)
        BY <3>1, <3>4, <4>3 DEF CreateProject, rows
      <4>4. CASE Lookup(r) \/ NoCredentials(r) \/ Authenticate(r) \/ Refresh(r)
                 \/ ListProjects(r) \/ ReadProject(r)
        BY <3>1, <4>4 DEF Lookup, NoCredentials, Authenticate, Refresh,
             ListProjects, ReadProject
      <4> QED BY <3>6, <4>1, <4>2, <4>3, <4>4 DEF Serve
    <3> QED BY <1>5, <3>5, <3>6
  <2>4. CASE StatementFails(r)
    BY <1>3, <2>1, <2>3, <2>4, OrderlyAnswer DEF StatementFails
  <2>5. CASE \E step \in Steps \ Early : Go(r, step) /\ UNCHANGED answer
    BY <2>1, <2>3, <2>5, OrderlyMove
  <2>6. CASE \E step \in Answered, status \in Nat : Answer(r, status, step)
    BY <2>1, <2>3, <2>6, OrderlyAnswer
  <2>7. CASE Serve(r)
    <3>1. {"verified", "ready", "stored"} \subseteq Steps \ Early
      BY DEF Steps, InThread, Connected, Early
    <3>2. CASE Register(r)
      BY <1>3, <2>6, <3>2 DEF Register
    <3>3. CASE Lookup(r)
      BY <1>3, <2>5, <2>6, <3>1, <3>3 DEF Lookup
    <3>4. CASE IssueSession(r) \/ NoCredentials(r) \/ Refresh(r) \/ ListProjects(r)
      BY <1>3, <2>6, <3>4 DEF IssueSession, NoCredentials, Refresh, ListProjects
    <3>5. CASE Authenticate(r)
      BY <1>3, <2>5, <2>6, <3>1, <3>5 DEF Authenticate
    <3>6. CASE CreateProject(r)
      BY <1>3, <2>5, <2>6, <3>1, <3>6 DEF CreateProject
    <3>7. CASE ReadProject(r)
      BY <1>3, <2>6, <3>7 DEF ReadProject
    <3> QED BY <2>7, <3>2, <3>3, <3>4, <3>5, <3>6, <3>7 DEF Serve
  <2> QED BY <1>5, <2>4, <2>7
<1> QED BY <1>1, <1>4, <1>5 DEF Next, Progress

-----------------------------------------------------------------------------
\* A set of numbers that is not empty has a least one: the argument by least
\* counterexample that stands for induction.
LEMMA LeastNatural ==
  ASSUME NEW S \in SUBSET Nat, S # {}
  PROVE  \E m \in S : \A k \in S : m <= k
<1>1. PICK m \in S : \A k \in S : <<k, m>> \notin OpToRel(<, Nat)
  BY NatLessThanWellFounded, WFMin, Zenon
<1>2. \A k \in S : ~(k < m)
  BY <1>1 DEF OpToRel
<1> QED BY <1>2

Placed(c) == \E i \in DOMAIN began : began[i] = c

LEMMA PositionOfPlaced ==
  ASSUME BeganOK, began \in Seq(Creates), NEW c, Placed(c)
  PROVE  /\ Position(c) \in 1..Len(began)
         /\ began[Position(c)] = c
BY DEF Placed, Position

\* When some project of S comes after n + l others, the ranks from n on are
\* taken by at least l of them: a page with a project beyond it is full.
LEMMA FullWindow ==
  ASSUME BeganOK, began \in Seq(Creates),
         NEW S, IsFiniteSet(S), \A d \in S : Placed(d),
         NEW n \in Nat, NEW l \in Nat,
         \E c \in S : Rank(c, S) >= n + l
  PROVE  Cardinality({d \in S : Rank(d, S) \in n..(n + l - 1)}) >= l
<1> DEFINE Behind(d) == {e \in S : Position(e) < Position(d)}
           far == {Position(c) : c \in {c \in S : Rank(c, S) >= n + l}}
           window == {d \in S : Rank(d, S) \in n..(n + l - 1)}
<1>1. \A d \in S : /\ Position(d) \in Nat /\ Position(d) <= Len(began)
                   /\ began[Position(d)] = d
  BY PositionOfPlaced
<1> Len(began) \in Nat
  OBVIOUS
<1>2. \A d \in S : /\ IsFiniteSet(Behind(d)) /\ Rank(d, S) = Cardinality(Behind(d))
                   /\ Rank(d, S) \in Nat
  <2> TAKE d \in S
  <2>1. Behind(d) \in SUBSET S
    OBVIOUS
  <2>2. IsFiniteSet(Behind(d)) /\ Cardinality(Behind(d)) \in Nat
    BY <2>1, FS_Subset, FS_CardinalityType
  <2> QED BY <2>2 DEF Rank
<1>3. PICK c \in S : /\ Rank(c, S) >= n + l
                     /\ \A d \in Behind(c) : Rank(d, S) < n + l
  <2>1. far \in SUBSET Nat /\ far # {}
    BY <1>1
  <2>2. PICK m \in far : \A k \in far : m <= k
    BY <2>1, LeastNatural
  <2>3. PICK c \in S : Rank(c, S) >= n + l /\ m = Position(c)
    BY <2>2
  <2>4. ASSUME NEW d \in Behind(c), ~(Rank(d, S) < n + l) PROVE FALSE
    <3>1. d \in S /\ Rank(d, S) >= n + l
      <4>1. d \in S
        BY <2>4
      <4>2. Rank(d, S) \in Nat
        BY <1>2, <4>1
      <4> QED BY <2>4, <4>1, <4>2
    <3>2. Position(d) \in far
      BY <3>1
    <3>3. Position(c) <= Position(d) /\ Position(c) \in Int /\ Position(d) \in Int
      BY <1>1, <2>2, <2>3, <3>2
    <3> QED BY <2>4, <3>3
  <2> QED BY <2>3, <2>4
<1> DEFINE early == {d \in Behind(c) : Rank(d, S) < n}
<1>4. IsFiniteSet(early) /\ Cardinality(early) \in Nat /\ Cardinality(early) <= n
  <2>1. IsFiniteSet(early) /\ Cardinality(early) \in Nat
    <3>1. early \in SUBSET S
      OBVIOUS
    <3> QED BY <3>1, FS_Subset, FS_CardinalityType
  <2>2. CASE early = {}
    <3>1. Cardinality(early) = 0
      BY <2>2, FS_EmptySet
    <3> QED BY <2>1, <3>1
  <2>3. CASE early # {}
    <3> DEFINE gaps == {Len(began) - Position(d) : d \in early}
    <3>1. gaps \in SUBSET Nat /\ gaps # {}
      BY <1>1, <2>3
    <3>2. PICK g \in gaps : \A k \in gaps : g <= k
      BY <3>1, LeastNatural
    <3>3. PICK a \in early : g = Len(began) - Position(a)
      BY <3>2
    <3>4. ASSUME NEW d \in early PROVE Position(d) <= Position(a)
      <4>1. Len(began) - Position(d) \in gaps
        OBVIOUS
      <4>2. Len(began) - Position(a) <= Len(began) - Position(d)
        BY <3>2, <3>3, <4>1
      <4>3. Position(d) \in Nat /\ Position(a) \in Nat
        BY <1>1
      <4> QED BY <4>2, <4>3
    <3>5. \A d \in early : d # a => Position(d) < Position(a)
      BY <1>1, <3>4
    <3>6. early \in SUBSET (Behind(a) \cup {a}) /\ a \notin Behind(a)
      BY <1>1, <3>5
    <3>7. /\ IsFiniteSet(Behind(a) \cup {a})
          /\ Cardinality(Behind(a) \cup {a}) = Cardinality(Behind(a)) + 1
      BY <1>2, <3>6, FS_AddElement
    <3>8. Cardinality(early) <= Cardinality(Behind(a)) + 1
      BY <3>6, <3>7, FS_Subset
    <3>9. Cardinality(Behind(a)) < n /\ Cardinality(Behind(a)) \in Nat
      BY <1>2
    <3> QED BY <2>1, <3>8, <3>9
  <2> QED BY <2>1, <2>2, <2>3
<1>5. Behind(c) \ early \in SUBSET window
  <2> SUFFICES ASSUME NEW d \in Behind(c), d \notin early
               PROVE  d \in S /\ Rank(d, S) \in n..(n + l - 1)
    OBVIOUS
  <2>1. d \in S
    OBVIOUS
  <2>2. Rank(d, S) \in Nat /\ Rank(d, S) < n + l /\ ~(Rank(d, S) < n)
    BY <1>2, <1>3, <2>1
  <2> QED BY <2>1, <2>2
<1>6. Cardinality(Behind(c) \ early) = Cardinality(Behind(c)) - Cardinality(early)
  <2>1. Behind(c) \cap early = early
    OBVIOUS
  <2>2. IsFiniteSet(Behind(c))
    BY <1>2
  <2> HIDE DEF Behind, early
  <2>3. Cardinality(Behind(c) \ early)
          = Cardinality(Behind(c)) - Cardinality(Behind(c) \cap early)
    BY <2>2, FS_Difference
  <2> QED BY <2>1, <2>3
<1>7. IsFiniteSet(window) /\ Cardinality(window) \in Nat
  <2>1. window \in SUBSET S
    OBVIOUS
  <2> QED BY <2>1, FS_Subset, FS_CardinalityType
<1>8. Cardinality(Behind(c) \ early) <= Cardinality(window)
  BY <1>5, <1>7, FS_Subset
<1>9. Cardinality(Behind(c)) >= n + l /\ Cardinality(Behind(c)) \in Nat
  BY <1>2, <1>3
<1> QED BY <1>4, <1>6, <1>7, <1>8, <1>9

LEMMA PlacedRows ==
  ASSUME PagesInv, NEW q \in Pages, answer[q] = 200
  PROVE  /\ visible[q] \subseteq Creates /\ IsFiniteSet(visible[q])
         /\ \A c \in visible[q] : Placed(c)
<1>1. visible[q] \subseteq Creates
  BY DEF PagesInv, IInv, TypeOK
<1>2. IsFiniteSet(visible[q])
  BY <1>1, Kinds, RequestsAssumption, FS_Subset
<1>3. ASSUME NEW c \in visible[q] PROVE Placed(c)
  <2>1. owner[c] = session[LoginOf[q]] /\ session[LoginOf[q]] # None
    BY DEF PagesInv, Shown, Owned
  <2>2. CreateOK(c)
    BY <1>1, <1>3, Kinds DEF PagesInv, IInv, RequestOK
  <2>3. caller[c] # None
    BY <2>1, <2>2 DEF CreateOK
  <2> QED BY <1>1, <1>3, <2>3 DEF PagesInv, BeganOK, Placed
<1> QED BY <1>1, <1>2, <1>3

\* More projects in sight put no project further to the front.
LEMMA RankGrows ==
  ASSUME NEW S, NEW T, IsFiniteSet(T), S \subseteq T, NEW c
  PROVE  Rank(c, S) \in Nat /\ Rank(c, T) \in Nat /\ Rank(c, S) <= Rank(c, T)
<1> DEFINE Behind(U) == {d \in U : Position(d) < Position(c)}
<1>1. Behind(T) \in SUBSET T /\ Behind(S) \in SUBSET Behind(T)
  OBVIOUS
<1>2. IsFiniteSet(Behind(T)) /\ IsFiniteSet(Behind(S))
  BY <1>1, FS_Subset
<1>3. Cardinality(Behind(S)) <= Cardinality(Behind(T))
  BY <1>1, <1>2, FS_Subset
<1>4. Cardinality(Behind(S)) \in Nat /\ Cardinality(Behind(T)) \in Nat
  BY <1>2, FS_CardinalityType
<1> QED BY <1>3, <1>4 DEF Rank

\* A project that no page has listed would be beyond every page of the walk.
LEMMA NothingMissed ==
  ASSUME PagesInv
  PROVE  PagesMissNothing
<1> SUFFICES ASSUME NEW last \in Pages, Follows(last),
                    \A q \in Walk(last) : answer[q] = 200,
                    Cardinality(page[last]) < Limit,
                    NEW first \in Walk(last), OffsetOf[first] = 0,
                    NEW c \in visible[first],
                    \A p \in Walk(last) : c \notin page[p]
             PROVE  FALSE
  BY DEF PagesMissNothing
<1>1. Walk(last) \subseteq Pages /\ last \in Walk(last)
      /\ \A p \in Walk(last) : LoginOf[p] = LoginOf[last]
  BY SizesAssumption DEF Walk
<1>2. \A p \in Pages : OffsetOf[p] \in Nat
  BY SizesAssumption
<1>3. Limit \in Nat
  BY SizesAssumption
<1>4. ASSUME NEW p \in Walk(last), c \in visible[p], Rank(c, visible[p]) >= OffsetOf[p]
      PROVE  Rank(c, visible[p]) >= OffsetOf[p] + Limit
  <2>1. c \notin page[p] /\ p \in Pages /\ answer[p] = 200
    BY <1>1
  <2>2. Rank(c, visible[p]) \notin OffsetOf[p]..(OffsetOf[p] + Limit - 1)
    BY <1>4, <2>1 DEF PagesInv, Shown
  <2>3. Rank(c, visible[p]) \in Nat
    BY <2>1, PlacedRows, RankGrows
  <2> QED BY <1>2, <1>3, <1>4, <2>1, <2>2, <2>3
<1> DEFINE Beyond(p) == c \in visible[p] /\ Rank(c, visible[p]) >= OffsetOf[p]
           missed == {p \in Walk(last) : ~Beyond(p)}
           offsets == {OffsetOf[p] : p \in missed}
<1>5. \A p \in Walk(last) : Beyond(p)
  <2> SUFFICES ASSUME missed # {} PROVE FALSE
    OBVIOUS
  <2>1. offsets \in SUBSET Nat /\ offsets # {}
    BY <1>1, <1>2
  <2>2. PICK m \in offsets : \A k \in offsets : m <= k
    BY <2>1, LeastNatural
  <2>3. PICK p \in missed : m = OffsetOf[p]
    BY <2>2
  <2>4. p \in Pages /\ OffsetOf[p] \in Nat
    BY <1>1, <1>2
  <2>5. CASE OffsetOf[p] = 0
    <3>1. p = first
      BY <2>5 DEF Follows
    <3>2. Rank(c, visible[p]) \in Nat
      BY <1>1, PlacedRows, RankGrows
    <3> QED BY <2>5, <3>1, <3>2
  <2>6. CASE OffsetOf[p] > 0
    <3>1. PICK q \in Walk(last) \cap After[p] :
            OffsetOf[q] < OffsetOf[p] /\ OffsetOf[p] <= OffsetOf[q] + Limit
      BY <2>6 DEF Follows
    <3>2. q \in Pages /\ OffsetOf[q] \in Nat
      BY <1>1, <1>2
    <3>3. q \notin missed
      <4> SUFFICES ASSUME q \in missed PROVE FALSE
        OBVIOUS
      <4>1. OffsetOf[q] \in offsets
        OBVIOUS
      <4> QED BY <2>2, <2>3, <2>4, <3>1, <3>2, <4>1
    <3>4. c \in visible[q] /\ Rank(c, visible[q]) >= OffsetOf[q] + Limit
      BY <1>4, <3>3
    <3>5. visible[q] \subseteq visible[p]
      <4>1. answer[p] = 200 /\ answer[q] = 200 /\ LoginOf[p] = LoginOf[q]
        BY <1>1
      <4>2. InOrder(p, q)
        BY <2>4, <3>2 DEF PagesInv
      <4> QED BY <3>1, <4>1, <4>2 DEF InOrder
    <3>6. /\ Rank(c, visible[q]) \in Nat /\ Rank(c, visible[p]) \in Nat
          /\ Rank(c, visible[q]) <= Rank(c, visible[p])
      BY <2>4, <3>5, PlacedRows, RankGrows
    <3>7. Rank(c, visible[p]) >= OffsetOf[p]
      BY <1>3, <2>4, <3>1, <3>2, <3>4, <3>6
    <3> QED BY <3>4, <3>5, <3>7
  <2> QED BY <2>4, <2>5, <2>6
<1>6. c \in visible[last] /\ Rank(c, visible[last]) >= OffsetOf[last] + Limit
  BY <1>1, <1>4, <1>5
<1>7. Cardinality({d \in visible[last] :
        Rank(d, visible[last]) \in OffsetOf[last]..(OffsetOf[last] + Limit - 1)}) >= Limit
  <2>1. IsFiniteSet(visible[last]) /\ \A d \in visible[last] : Placed(d)
    BY <1>1, PlacedRows
  <2>2. BeganOK /\ began \in Seq(Creates)
    BY DEF PagesInv, IInv, TypeOK
  <2> QED BY <1>2, <1>3, <1>6, <2>1, <2>2, FullWindow
<1>8. Cardinality(page[last]) >= Limit
  <2>1. page[last] = {d \in visible[last] :
          Rank(d, visible[last]) \in OffsetOf[last]..(OffsetOf[last] + Limit - 1)}
    BY <1>1 DEF PagesInv, Shown
  <2> QED BY <1>7, <2>1
<1>9. Cardinality(page[last]) \in Nat
  <2>1. page[last] \in SUBSET visible[last] /\ IsFiniteSet(visible[last])
    BY <1>1, PlacedRows DEF PagesInv, Shown
  <2> QED BY <2>1, FS_Subset, FS_CardinalityType
<1> QED BY <1>3, <1>8, <1>9

-----------------------------------------------------------------------------
\* The order grows at its end: what is placed keeps its place.
Extended ==
  /\ \A i \in DOMAIN began : i \in DOMAIN began' /\ began'[i] = began[i]
  /\ BeganOK /\ BeganOK' /\ began \in Seq(Creates) /\ began' \in Seq(Creates)

LEMMA PositionStays ==
  ASSUME Extended, NEW c, Placed(c)
  PROVE  Position(c)' = Position(c)
<1>1. Position(c) \in DOMAIN began /\ began[Position(c)] = c
  BY PositionOfPlaced DEF Extended
<1>2. Placed(c)'
  BY <1>1 DEF Extended, Placed
<1>3. Position(c)' \in DOMAIN began' /\ began'[Position(c)'] = c
  BY <1>2 DEF Placed, Position
<1>4. \A i, j \in DOMAIN began' : began'[i] = began'[j] => i = j
  BY DEF Extended, BeganOK
<1>5. Position(c) \in DOMAIN began' /\ began'[Position(c)] = c
  BY <1>1 DEF Extended
<1> QED BY <1>3, <1>4, <1>5

\* A page that was read stays what it was.
LEMMA PagesStay ==
  ASSUME PagesInv, IInv', Orderly, Extended, UNCHANGED <<page, visible>>,
         \A q \in Pages : answer'[q] = 200 => answer[q] = 200
  PROVE  PagesInv'
<1>1. \A q \in Pages : q \in Requests /\ LoginOf[q] \in Logins
  BY Kinds
<1>2. ASSUME NEW q \in Pages, answer'[q] = 200 PROVE Shown(q)'
  <2>1. answer[q] = 200 /\ Shown(q)
    BY <1>2 DEF PagesInv
  <2>2. /\ session[LoginOf[q]] # None
        /\ session'[LoginOf[q]] = session[LoginOf[q]]
    BY <1>1, <2>1 DEF Shown, Orderly, Grows
  <2>3. visible[q] \subseteq Owned(session[LoginOf[q]])'
    BY <2>1, <2>2 DEF Shown, Owned, Orderly, Grows
  <2>4. \A d \in visible[q] : Position(d)' = Position(d)
    BY <2>1, PlacedRows, PositionStays
  <2>5. ASSUME NEW c \in visible[q]
        PROVE  Rank(c, visible[q])' = Rank(c, visible[q])
    <3>1. {d \in visible[q] : Position(d)' < Position(c)'}
            = {d \in visible[q] : Position(d) < Position(c)}
      BY <2>4
    <3>2. visible'[q] = visible[q]
      OBVIOUS
    <3> QED BY <3>1, <3>2 DEF Rank
  <2>6. page[q] = {c \in visible[q] :
          Rank(c, visible[q])' \in OffsetOf[q]..(OffsetOf[q] + Limit - 1)}
    BY <2>1, <2>5 DEF Shown
  <2>7. visible'[q] = visible[q] /\ page'[q] = page[q]
    OBVIOUS
  <2> QED BY <2>2, <2>3, <2>6, <2>7 DEF Shown
<1>3. ASSUME NEW p \in Pages, NEW q \in Pages PROVE InOrder(p, q)'
  <2>1. InOrder(p, q)
    BY DEF PagesInv
  <2>2. pc'[p] # "new" /\ q \in After[p] => answer'[q] # None
    <3>1. pc[p] # "new" /\ q \in After[p] => answer[q] # None
      BY <2>1 DEF InOrder
    <3> QED BY <1>1, <3>1 DEF Orderly
  <2> QED BY <2>1, <2>2 DEF InOrder
<1>4. \A q \in Pages : Shown(q)'
  BY <1>2 DEF Shown
<1>5. BeganOK'
  BY DEF Extended
<1> QED BY <1>3, <1>4, <1>5 DEF PagesInv

\* A step that authenticates nobody leaves the order as it is.
LEMMA OrderStays ==
  ASSUME PagesInv, Orderly, UNCHANGED <<began, caller>>
  PROVE  Extended
<1>1. began \in Seq(Creates) /\ BeganOK
  BY DEF PagesInv, IInv, TypeOK
<1>2. \A i \in DOMAIN began : began[i] \in Creates /\ began[i] \in Requests
  BY <1>1, Kinds
<1>3. BeganOK'
  BY <1>1, <1>2 DEF BeganOK, Orderly
<1> QED BY <1>1, <1>3 DEF Extended

LEMMA AuthenticatePages ==
  ASSUME PagesInv, IInv', Orderly, NEW r \in Requests, Authenticate(r)
  PROVE  PagesInv'
<1>1. /\ r \in ProjectRequests /\ pc[r] = "connected" /\ UNCHANGED <<page, visible>>
      /\ began' = IF r \in Creates THEN Append(began, r) ELSE began
  BY DEF Authenticate
<1>2. began \in Seq(Creates) /\ began' \in Seq(Creates) /\ BeganOK
  BY DEF PagesInv, IInv, TypeOK
<1>3. \A q \in Pages : answer'[q] = 200 => answer[q] = 200
  BY Kinds DEF Authenticate, Answer, PagesInv, IInv, TypeOK
<1>4. \A c \in Creates : caller'[c] # None => caller[c] # None \/ c = r
  <2>1. \A c \in Creates : c # r => caller'[c] = caller[c]
    BY Kinds DEF Authenticate, PagesInv, IInv, TypeOK
  <2> QED BY <2>1
<1>5. \A i \in DOMAIN began : began[i] \in Creates /\ began[i] \in Requests /\ began[i] # r
  <2>1. \A i \in DOMAIN began : began[i] \in Creates
    BY <1>2
  <2> QED BY <1>1, <1>2, <2>1, Kinds DEF BeganOK, Early
<1>6. Extended
  <2>1. CASE r \in Creates
    <3>1. /\ DOMAIN began' = 1..(Len(began) + 1) /\ DOMAIN began = 1..Len(began)
          /\ \A i \in DOMAIN began : began'[i] = began[i]
          /\ began'[Len(began) + 1] = r /\ Len(began) \in Nat
      BY <1>1, <1>2, <2>1
    <3>2. pc'[r] \notin Early
      <4>1. pc'[r] \in {"ready", "holding"}
        BY DEF Authenticate, Answer, Go, PagesInv, IInv, TypeOK
      <4> QED BY <4>1 DEF Early
    <3>3. \A i \in DOMAIN began' : i \in DOMAIN began \/ (began'[i] = r /\ i = Len(began) + 1)
      <4> TAKE i \in DOMAIN began'
      <4>1. i \in 1..(Len(began) + 1) /\ Len(began) \in Nat
        BY <3>1
      <4>2. i \in 1..Len(began) \/ i = Len(began) + 1
        BY <4>1
      <4>3. CASE i \in 1..Len(began)
        BY <3>1, <4>3
      <4>4. CASE i = Len(began) + 1
        <5>1. began'[i] = r
          BY <3>1, <4>4
        <5> QED BY <4>4, <5>1
      <4> QED BY <4>2, <4>3, <4>4
    <3>4. \A i, j \in DOMAIN began' : began'[i] = began'[j] => i = j
      BY <1>2, <1>5, <3>1, <3>3 DEF BeganOK
    <3>5. \A i \in DOMAIN began' : pc'[began'[i]] \notin Early
      BY <1>2, <1>5, <3>1, <3>2, <3>3 DEF BeganOK, Orderly
    <3>6. \A c \in Creates : caller'[c] # None => \E i \in DOMAIN began' : began'[i] = c
      <4> SUFFICES ASSUME NEW c \in Creates, caller'[c] # None
                   PROVE  \E i \in DOMAIN began' : began'[i] = c
        OBVIOUS
      <4>1. CASE c = r
        BY <3>1, <4>1
      <4>2. CASE caller[c] # None
        <5>1. PICK i \in DOMAIN began : began[i] = c
          BY <1>2, <4>2 DEF BeganOK
        <5>2. i \in DOMAIN began' /\ began'[i] = c
          BY <3>1, <5>1
        <5> QED BY <5>2
      <4> QED BY <1>4, <4>1, <4>2
    <3> QED BY <1>2, <3>1, <3>4, <3>5, <3>6 DEF Extended, BeganOK
  <2>2. CASE r \notin Creates
    <3>1. BeganOK'
      BY <1>1, <1>2, <1>4, <1>5, <2>2 DEF BeganOK, Orderly
    <3> QED BY <1>1, <1>2, <2>2, <3>1 DEF Extended
  <2> QED BY <2>1, <2>2
<1> QED BY <1>1, <1>3, <1>6, PagesStay

LEMMA ListProjectsPages ==
  ASSUME PagesInv, IInv', Orderly, NEW r \in Requests, ListProjects(r)
  PROVE  PagesInv'
<1> DEFINE mine == Owned(caller[r])
           listed == {c \in mine : Rank(c, mine) \in OffsetOf[r]..(OffsetOf[r] + Limit - 1)}
<1>1. /\ r \in Pages /\ pc[r] = "working" /\ Answer(r, 200, "returned")
      /\ page' = [page EXCEPT ![r] = listed]
      /\ visible' = [visible EXCEPT ![r] = mine]
      /\ UNCHANGED <<rows, began, caller>>
  BY DEF ListProjects
<1>2. /\ answer'[r] = 200
      /\ \A q \in Requests \ {r} : answer'[q] = answer[q]
      /\ pc'[r] = "returned" /\ \A q \in Requests \ {r} : pc'[q] = pc[q]
      /\ page'[r] = listed /\ visible'[r] = mine
      /\ \A q \in Pages \ {r} : page'[q] = page[q] /\ visible'[q] = visible[q]
  BY <1>1, Kinds DEF Answer, Go, PagesInv, IInv, TypeOK
<1>3. /\ answer[r] = None /\ caller[r] # None /\ caller[r] = session[LoginOf[r]]
  BY <1>1, Working DEF PagesInv
<1>4. BeganOK'
  BY <1>1, OrderStays DEF Extended
<1>5. ASSUME NEW q \in Pages PROVE Shown(q)'
  <2>1. CASE q = r
    <3>1. visible'[q] = mine /\ mine = Owned(session[LoginOf[q]])'
      BY <1>1, <1>2, <1>3, <2>1 DEF Owned, rows
    <3>2. page'[q] = {c \in mine :
            Rank(c, mine) \in OffsetOf[q]..(OffsetOf[q] + Limit - 1)}
      BY <1>2, <2>1
    <3>3. \A c \in mine : Rank(c, visible[q])' = Rank(c, mine)
      BY <1>1, <3>1 DEF Rank, Position
    <3>4. session'[LoginOf[q]] # None
      BY <1>1, <1>3, <2>1 DEF rows
    <3>5. visible'[q] \subseteq Owned(session[LoginOf[q]])'
      BY <3>1
    <3>6. page'[q] = {c \in visible'[q] :
            Rank(c, visible[q])' \in OffsetOf[q]..(OffsetOf[q] + Limit - 1)}
      BY <3>1, <3>2, <3>3
    <3> QED BY <3>4, <3>5, <3>6 DEF Shown
  <2>2. CASE q # r
    <3>1. Shown(q) /\ answer'[q] = answer[q]
      BY <1>2, <2>2, Kinds DEF PagesInv
    <3>2. page'[q] = page[q] /\ visible'[q] = visible[q]
      BY <1>2, <2>2
    <3>3. \A c : Rank(c, visible[q])' = Rank(c, visible[q])
      BY <1>1, <3>2 DEF Rank, Position
    <3>4. Owned(session[LoginOf[q]])' = Owned(session[LoginOf[q]])
          /\ session'[LoginOf[q]] = session[LoginOf[q]]
      BY <1>1 DEF Owned, rows
    <3>5. answer[q] = 200 =>
            page'[q] = {c \in visible'[q] :
              Rank(c, visible[q])' \in OffsetOf[q]..(OffsetOf[q] + Limit - 1)}
      BY <3>1, <3>2, <3>3 DEF Shown
    <3> QED BY <3>1, <3>2, <3>4, <3>5 DEF Shown
  <2> QED BY <2>1, <2>2
<1>6. ASSUME NEW p \in Pages, NEW q \in Pages PROVE InOrder(p, q)'
  <2> SUFFICES ASSUME q \in After[p]
               PROVE  /\ pc'[p] # "new" => answer'[q] # None
                      /\ answer'[p] = 200 /\ answer'[q] = 200 /\ LoginOf[p] = LoginOf[q]
                         => visible'[q] \subseteq visible'[p]
    BY DEF InOrder
  <2>1. InOrder(p, q) /\ p \in Requests /\ q \in Requests
    BY Kinds DEF PagesInv
  <2>2. pc'[p] # "new" => answer'[q] # None
    <3>1. pc'[p] # "new" => pc[p] # "new"
      BY <1>1, <1>2, <2>1
    <3> QED BY <2>1, <3>1 DEF InOrder, Orderly
  <2>3. ASSUME answer'[p] = 200, answer'[q] = 200, LoginOf[p] = LoginOf[q]
        PROVE  visible'[q] \subseteq visible'[p]
    <3>1. CASE p = r /\ q # r
      <4>1. answer[q] = 200 /\ Shown(q)
        BY <1>2, <2>1, <2>3, <3>1 DEF PagesInv
      <4> QED BY <1>2, <1>3, <2>3, <3>1, <4>1 DEF Shown
    <3>2. CASE q = r /\ p # r
      <4>1. answer[p] # None
        BY <1>2, <2>1, <2>3, <3>2, Kinds
      <4>2. pc[p] # "new"
        BY <2>1, <4>1 DEF PagesInv, IInv, RequestOK, Answered
      <4> QED BY <1>3, <2>1, <3>2, <4>2 DEF InOrder
    <3>3. CASE p # r /\ q # r
      BY <1>2, <2>1, <2>3, <3>3 DEF InOrder
    <3> QED BY <3>1, <3>2, <3>3
  <2> QED BY <2>2, <2>3
<1> QED BY <1>4, <1>5, <1>6 DEF PagesInv

LEMMA InitPagesInv == Init => PagesInv
<1> SUFFICES ASSUME Init PROVE PagesInv
  OBVIOUS
<1>1. BeganOK
  <2>1. DOMAIN began = {}
    BY DEF Init
  <2>2. \A c \in Creates : caller[c] = None
    BY Kinds DEF Init
  <2> QED BY <2>1, <2>2 DEF BeganOK
<1>2. \A q \in Pages : Shown(q)
  BY Kinds DEF Init, Shown
<1>3. \A p, q \in Pages : InOrder(p, q)
  BY Kinds DEF Init, InOrder
<1> QED BY <1>1, <1>2, <1>3, InitIInv DEF PagesInv

LEMMA NextPagesInv ==
  ASSUME PagesInv, [Next]_vars
  PROVE  PagesInv'
<1>1. IInv /\ IInv' /\ Orderly
  BY NextIInv, StepOrderly DEF PagesInv
<1>2. ASSUME UNCHANGED <<began, caller, page, visible>>,
             \A q \in Pages : answer'[q] = 200 => answer[q] = 200
      PROVE  PagesInv'
  BY <1>1, <1>2, OrderStays, PagesStay
<1>3. ASSUME NEW r \in Requests, NEW status, NEW step, Answer(r, status, step),
             status # 200 \/ r \notin Pages
      PROVE  \A q \in Pages : answer'[q] = 200 => answer[q] = 200
  BY <1>1, <1>3, Kinds DEF Answer, IInv, TypeOK
<1>4. CASE UNCHANGED vars
  BY <1>2, <1>4 DEF vars
<1>5. ASSUME NEW r \in Requests,
             TakeThread(r) \/ Connect(r) \/ PoolTimeout(r) \/ Close(r)
      PROVE  PagesInv'
  BY <1>2, <1>3, <1>5 DEF TakeThread, Connect, PoolTimeout, Close
<1>6. ASSUME NEW r \in Requests, StatementFails(r)
      PROVE  PagesInv'
  BY <1>2, <1>3, <1>6 DEF StatementFails
<1>7. ASSUME NEW r \in Requests, Serve(r)
      PROVE  PagesInv'
  <2>1. CASE Authenticate(r)
    BY <1>1, <2>1, AuthenticatePages
  <2>2. CASE ListProjects(r)
    BY <1>1, <2>2, ListProjectsPages
  <2>3. CASE Register(r)
    BY <1>2, <1>3, <2>3 DEF Register
  <2>4. CASE Lookup(r)
    BY <1>2, <1>3, <2>4 DEF Lookup
  <2>5. CASE IssueSession(r)
    <3>1. r \notin Pages
      BY <2>5, Apart, Kinds DEF IssueSession
    <3> QED BY <1>2, <1>3, <2>5, <3>1 DEF IssueSession
  <2>6. CASE NoCredentials(r)
    BY <1>2, <1>3, <2>6 DEF NoCredentials
  <2>7. CASE CreateProject(r)
    BY <1>2, <1>3, <2>7 DEF CreateProject
  <2>8. CASE Refresh(r)
    BY <1>2, <1>3, <2>8 DEF Refresh
  <2>9. CASE ReadProject(r)
    <3>1. r \notin Pages
      BY <2>9, Apart DEF ReadProject
    <3> QED BY <1>2, <1>3, <2>9, <3>1 DEF ReadProject
  <2> QED BY <1>7, <2>1, <2>2, <2>3, <2>4, <2>5, <2>6, <2>7, <2>8, <2>9 DEF Serve
<1> QED BY <1>4, <1>5, <1>6, <1>7 DEF Next, Progress

\* For any projects, page size and clients that follow their pages, a walk that
\* ends with a page that is not full has listed every project that the client
\* had when it began.
THEOREM PagesComplete == Spec => []PagesMissNothing
<1>1. Spec => []PagesInv
  BY InitPagesInv, NextPagesInv, PTL DEF Spec
<1> QED BY <1>1, NothingMissed, PTL

\* For any clients, a row stays as it was inserted, an answer is given once,
\* and a request is sent only when the answers that its client waits for came.
THEOREM RowsAndAnswersStay == Spec => [][Orderly]_vars
<1>1. IInv /\ [Next]_vars => [Orderly]_vars
  BY StepOrderly
<1> QED BY <1>1, Invariant, PTL DEF Spec

-----------------------------------------------------------------------------
(* The two facts that EveryRequestEnds rests on, the fairness apart: a     *)
(* request that has begun can not be stuck, and no step leads back.        *)

\* The guards of the actions of a request that Progress consists of.
MayTakeThread(r) ==
  /\ Using(InThread) < Threads
  /\ \/ pc[r] \in {"ready", "returned"}
     \/ /\ pc[r] = "new"
        /\ \A q \in After[r] : answer[q] # None /\ pc[q] # "returned"

MayConnect(r) ==
  /\ Using(Connected) < PoolSize
  /\ (pc[r] = "asking" /\ HasToken(r)) \/ pc[r] = "stored"

MayTimeOut(r) ==
  /\ Using(Connected) >= PoolSize
  /\ (pc[r] = "asking" /\ HasToken(r)) \/ pc[r] = "stored"

MayServe(r) ==
  \/ pc[r] = "connected" /\ r \in Registers \cup Logins \cup ProjectRequests
  \/ pc[r] = "verified" /\ r \in Logins /\ \E a \in accounts : Verified(a, r)
  \/ pc[r] = "asking" /\ ~HasToken(r)
  \/ pc[r] = "working" /\ r \in Creates \cup Pages \cup Reads
  \/ pc[r] = "refreshing"

MayGoOn(r) ==
  MayTakeThread(r) \/ MayConnect(r) \/ MayTimeOut(r) \/ MayServe(r)
    \/ pc[r] = "holding"

\* The service is at rest, or a request that has begun can go on, whatever
\* holds the threads and the connections.
NeverStuck ==
  \/ \A r \in Requests : pc[r] \in {"new", "done"}
  \/ \E r \in Requests : pc[r] # "new" /\ MayGoOn(r)

\* A login is verified against a row that is still there.
VerifiedOK == \A l \in Logins : pc[l] = "verified" => \E a \in accounts : Verified(a, l)

Rung(step) ==
  CASE step = "new" -> 0 [] step = "asking" -> 1 [] step = "connected" -> 2
    [] step \in {"verified", "ready"} -> 3 [] step = "working" -> 4
    [] step = "stored" -> 5 [] step = "refreshing" -> 6 [] step = "returned" -> 7
    [] step = "holding" -> 8 [] OTHER -> 9

\* One request goes on, and the others stay where they are.
Advances ==
  \E r \in Requests :
    /\ Rung(pc[r]) < Rung(pc'[r])
    /\ \A q \in Requests \ {r} : pc'[q] = pc[q]

LEMMA GoAdvances ==
  ASSUME IInv, NEW r \in Requests, NEW step, Go(r, step), Rung(pc[r]) < Rung(step)
  PROVE  Advances
BY DEF IInv, TypeOK, Go, Advances

LEMMA StepAdvances ==
  ASSUME IInv, NEW r \in Requests,
         TakeThread(r) \/ Connect(r) \/ PoolTimeout(r) \/ Serve(r) \/ Close(r)
           \/ StatementFails(r)
  PROVE  Advances
<1> SUFFICES \E step : Go(r, step) /\ Rung(pc[r]) < Rung(step)
  BY GoAdvances
<1>1. CASE TakeThread(r)
  BY <1>1 DEF TakeThread, Rung
<1>2. CASE Connect(r)
  BY <1>2 DEF Connect, Rung
<1>3. CASE PoolTimeout(r)
  BY <1>3 DEF PoolTimeout, Answer, Rung
<1>4. CASE Close(r)
  BY <1>4 DEF Close, Rung
<1>5. CASE StatementFails(r)
  BY <1>5 DEF StatementFails, Answer, Rung
<1>6. CASE Register(r) \/ Lookup(r) \/ IssueSession(r)
  BY <1>6 DEF Register, Lookup, IssueSession, Answer, Rung
<1>7. CASE NoCredentials(r) \/ Authenticate(r)
  BY <1>7 DEF NoCredentials, Authenticate, Answer, Rung
<1>8. CASE CreateProject(r) \/ Refresh(r)
  BY <1>8 DEF CreateProject, Refresh, Answer, Rung
<1>9. CASE ListProjects(r) \/ ReadProject(r)
  BY <1>9 DEF ListProjects, ReadProject, Answer, Rung
<1> QED BY <1>1, <1>2, <1>3, <1>4, <1>5, <1>6, <1>7, <1>8, <1>9 DEF Serve

LEMMA NextVerifiedOK ==
  ASSUME IInv, VerifiedOK, [Next]_vars
  PROVE  VerifiedOK'
<1>1. accounts \subseteq accounts'
  BY StepOrderly DEF Orderly, Grows
<1> SUFFICES ASSUME NEW l \in Logins, pc'[l] = "verified"
             PROVE  \E a \in accounts : Verified(a, l)
  BY <1>1 DEF VerifiedOK, Verified, SameEmail
<1>2. CASE pc[l] = "verified"
  BY <1>2 DEF VerifiedOK
<1>3. CASE pc[l] # "verified"
  <2>1. l \in Requests /\ pc \in [Requests -> Steps] /\ pc' # pc
    BY <1>3, Kinds DEF IInv, TypeOK
  <2>2. CASE \E r \in Requests : StatementFails(r)
    BY <1>3, <2>1, <2>2 DEF StatementFails, Answer, Go
  <2>3. CASE Progress
    <3>1. PICK q \in Requests :
            TakeThread(q) \/ Connect(q) \/ PoolTimeout(q) \/ Serve(q) \/ Close(q)
      BY <2>3 DEF Progress
    <3>2. PICK step : Go(q, step) /\ (step = "verified" => Lookup(q))
      <4>1. CASE TakeThread(q) \/ Connect(q) \/ PoolTimeout(q) \/ Close(q)
        BY <4>1 DEF TakeThread, Connect, PoolTimeout, Close, Answer
      <4>2. CASE Serve(q)
        BY <4>2 DEF Serve, Register, Lookup, IssueSession, NoCredentials, Authenticate,
             CreateProject, Refresh, ListProjects, ReadProject, Answer
      <4> QED BY <3>1, <4>1, <4>2
    <3>3. q = l /\ Lookup(l)
      BY <1>3, <2>1, <3>2 DEF Go
    <3> QED BY <1>3, <2>1, <3>3 DEF Lookup, Answer, Go
  <2> QED BY <2>1, <2>2, <2>3 DEF Next, vars
<1> QED BY <1>2, <1>3

LEMMA SomeoneGoesOn ==
  ASSUME IInv, VerifiedOK
  PROVE  NeverStuck
<1>1. ASSUME NEW r \in Requests, pc[r] \in Steps \ {"new", "done", "ready", "returned"}
      PROVE  MayGoOn(r)
  <2>1. CASE pc[r] \in {"asking", "stored"}
    <3>1. Using(Connected) \in Nat /\ PoolSize \in Nat
      BY RequestsAssumption, SizesAssumption, FS_Subset, FS_CardinalityType DEF Using
    <3> QED BY <2>1, <3>1 DEF MayGoOn, MayConnect, MayTimeOut, MayServe
  <2>2. CASE pc[r] = "connected"
    BY <2>2 DEF Requests, MayGoOn, MayServe
  <2>3. CASE pc[r] = "verified"
    <3>1. r \in Logins
      BY <2>3 DEF IInv, RequestOK, RegisterOK, ProjectOK, Requests, Answered
    <3> QED BY <2>3, <3>1 DEF VerifiedOK, MayGoOn, MayServe
  <2>4. CASE pc[r] = "working"
    <3>1. r \in ProjectRequests
      BY <2>4 DEF IInv, RequestOK, RegisterOK, LoginOK, Requests, Answered
    <3> QED BY <2>4, <3>1 DEF ProjectRequests, MayGoOn, MayServe
  <2>5. CASE pc[r] \in {"refreshing", "holding"}
    BY <2>5 DEF MayGoOn, MayServe
  <2> QED BY <1>1, <2>1, <2>2, <2>3, <2>4, <2>5 DEF Steps, InThread, Connected
<1> SUFFICES ASSUME NEW r \in Requests, pc[r] \notin {"new", "done"}
             PROVE  NeverStuck
  BY DEF NeverStuck
<1>2. CASE pc[r] \notin {"ready", "returned"}
  BY <1>1, <1>2 DEF IInv, TypeOK, NeverStuck
<1>3. CASE pc[r] \in {"ready", "returned"} /\ Using(InThread) < Threads
  BY <1>3 DEF NeverStuck, MayGoOn, MayTakeThread
<1>4. CASE pc[r] \in {"ready", "returned"} /\ ~(Using(InThread) < Threads)
  <2>1. Using(InThread) # 0
    BY <1>4, SizesAssumption
  <2>2. PICK q \in Requests : pc[q] \in InThread
    BY <2>1, FS_EmptySet DEF Using
  <2>3. pc[q] \in Steps \ {"new", "done", "ready", "returned"}
    BY <2>2 DEF Steps, InThread
  <2> QED BY <1>1, <2>3 DEF NeverStuck
<1> QED BY <1>2, <1>3, <1>4

\* For any clients and any number of threads and connections, requests that
\* hold connections and wait for threads, and requests in threads that wait
\* for connections, never leave the service with nothing that it could do.
THEOREM NoDeadlock == Spec => []NeverStuck
<1>1. Init => VerifiedOK
  BY Kinds DEF Init, VerifiedOK
<1>2. Spec => []VerifiedOK
  BY <1>1, NextVerifiedOK, Invariant, PTL DEF Spec
<1> QED BY <1>2, SomeoneGoesOn, Invariant, PTL

\* For any clients, every step takes one request nearer to its end: a request
\* is never taken back to wait again for what it had, so that all of them end
\* after a bounded number of steps.
THEOREM StepsAdvance == Spec => [][Advances]_vars
<1>1. IInv /\ [Next]_vars => [Advances]_vars
  BY StepAdvances DEF Next, Progress
<1> QED BY <1>1, Invariant, PTL DEF Spec
=============================================================================
