----------------------------- MODULE ProjectsApi -----------------------------
(***************************************************************************)
(* The service of examples/production-api: registration, login and bearer  *)
(* sessions (app/identity), projects of an owner (app/projects), and the   *)
(* resources that every request goes through.                              *)
(*                                                                         *)
(* Endpoints and dependencies are plain functions, so the framework runs   *)
(* each of them in a thread of its pool, and what the endpoint returns is  *)
(* validated in such a thread once more.  The thread is free again between *)
(* these.  The SQLAlchemy session of a request checks a connection out     *)
(* with its first statement, and returns it when it commits, rolls back or *)
(* is closed.  A request that has been authenticated therefore holds a     *)
(* connection while it waits for a thread, and a request in a thread may   *)
(* wait for a connection.  (A validation that holds no connection keeps    *)
(* nobody waiting and is left out.)                                        *)
(*                                                                         *)
(* A row is named by the request that inserted it.                         *)
(***************************************************************************)
EXTENDS Integers, Sequences, FiniteSets

CONSTANTS
  Registers, Logins, Creates, Pages, Reads,  \* the requests, by route
  EmailOf,     \* the address that a registration or login carries
  Lower,       \* str.lower on addresses
  PasswordOf,  \* the password that a registration or login carries
  LoginOf,     \* the login whose token a project request carries
  NameOf,      \* the name of the project to create
  OffsetOf,    \* the offset of a page; pages have Limit rows
  Limit,
  TargetOf,    \* the project that is read by its id
  After,       \* the requests whose answers the client waits for first
  Threads,     \* size of the thread pool
  PoolSize,    \* pool_size + max_overflow
  MaxFaults,   \* bound on failing statements and expiring sessions
  None

ProjectRequests == Creates \cup Pages \cup Reads
Requests == Registers \cup Logins \cup ProjectRequests

ASSUME RequestsAssumption ==
  /\ IsFiniteSet(Requests)
  /\ Registers \cap (Logins \cup ProjectRequests) = {}
  /\ Logins \cap ProjectRequests = {}
  /\ Creates \cap (Pages \cup Reads) = {} /\ Pages \cap Reads = {}
  /\ LoginOf \in [ProjectRequests -> Logins]
  /\ TargetOf \in [Reads -> Creates]
  /\ None \notin Requests \cup Nat

ASSUME SizesAssumption ==
  /\ OffsetOf \in [Pages -> Nat] /\ Limit \in Nat \ {0}
  /\ Threads \in Nat \ {0} /\ PoolSize \in Nat \ {0} /\ MaxFaults \in Nat

VARIABLES
  accounts,   \* the rows of users
  session,    \* the user_id of a login's row of sessions
  expired,    \* the logins whose expires_at was seen to have passed
  owner,      \* the owner_id of a create's row of projects
  began,      \* the creates in the order of created_at
  pc,         \* how far a request is
  caller,     \* the user that get_current_user returned
  answer,     \* the status code of the response that is, or will be, sent
  page,       \* the projects that a page lists
  visible,    \* history: the caller's projects when a page was read
  faults

rows == <<accounts, session, owner>>
vars == <<accounts, session, expired, owner, began, pc, caller, answer, page,
          visible, faults>>

-----------------------------------------------------------------------------
(* "new", "ready" and "returned" wait for a thread, "asking" and "stored"  *)
(* for a connection, and "holding" has not yet closed its session.         *)
InThread == {"asking", "connected", "verified", "working", "stored", "refreshing"}
Connected == {"connected", "verified", "ready", "working", "refreshing",
              "returned", "holding"}
Steps == {"new", "done"} \cup InThread \cup Connected

Using(steps) == Cardinality({r \in Requests : pc[r] \in steps})

Init ==
  /\ accounts = {}
  /\ session = [l \in Logins |-> None]
  /\ expired = {}
  /\ owner = [c \in Creates |-> None]
  /\ began = <<>>
  /\ pc = [r \in Requests |-> "new"]
  /\ caller = [r \in ProjectRequests |-> None]
  /\ answer = [r \in Requests |-> None]
  /\ page = [q \in Pages |-> {}]
  /\ visible = [q \in Pages |-> {}]
  /\ faults = 0

Go(r, step) == pc' = [pc EXCEPT ![r] = step]

\* The endpoint or a dependency ends with this status code.  The session
\* that is closed next still has its connection, or has none.
Answer(r, status, step) ==
  /\ answer' = [answer EXCEPT ![r] = status]
  /\ Go(r, step)

-----------------------------------------------------------------------------
(* Threads and connections.                                                *)

\* The client has the answers and sends the request, the session of a request
\* is ready, or its response is validated, which takes a thread and gives it
\* back: nothing in it waits.
TakeThread(r) ==
  /\ Using(InThread) < Threads
  /\ \/ /\ pc[r] = "new"
        /\ \A q \in After[r] : answer[q] # None /\ pc[q] # "returned"
        /\ Go(r, "asking")
     \/ pc[r] = "ready" /\ Go(r, "working")
     \/ pc[r] = "returned" /\ Go(r, "holding")
  /\ UNCHANGED <<rows, expired, began, caller, answer, page, visible, faults>>

\* A project request without a bearer token is refused before any statement.
HasToken(r) == r \in ProjectRequests => answer[LoginOf[r]] = 200

\* (mutant) The last connection is lent twice.
ConnectOver(r) ==
  /\ Using(Connected) <= PoolSize
  /\ pc[r] = "asking" /\ HasToken(r) /\ Go(r, "connected")
  /\ UNCHANGED <<rows, expired, began, caller, answer, page, visible, faults>>

Connect(r) ==
  /\ Using(Connected) < PoolSize
  /\ \/ pc[r] = "asking" /\ HasToken(r) /\ Go(r, "connected")
     \/ pc[r] = "stored" /\ Go(r, "refreshing")
  /\ UNCHANGED <<rows, expired, began, caller, answer, page, visible, faults>>

\* (mutant) A request waits for a connection as long as it takes.
PoolWait(r) ==
  /\ FALSE
  /\ UNCHANGED vars

\* pool_timeout is over: nothing catches sqlalchemy.exc.TimeoutError.
PoolTimeout(r) ==
  /\ Using(Connected) >= PoolSize
  /\ \/ pc[r] = "asking" /\ HasToken(r)
     \/ pc[r] = "stored"
  /\ Answer(r, 500, "done")
  /\ UNCHANGED <<rows, expired, began, caller, page, visible, faults>>

\* get_session leaves its with statement.
Close(r) ==
  /\ pc[r] = "holding"
  /\ Go(r, "done")
  /\ UNCHANGED <<rows, expired, began, caller, answer, page, visible, faults>>

-----------------------------------------------------------------------------
(* Identity.                                                               *)

SameEmail(r, q) == Lower[EmailOf[r]] = Lower[EmailOf[q]]

\* (mutant) The address is compared as it was typed.
EmailFreeAsTyped(r) == \A a \in accounts : EmailOf[a] # EmailOf[r]

\* The unique constraint on users.email lets the row in.
EmailFree(r) == \A a \in accounts : ~SameEmail(a, r)

\* The INSERT and the COMMIT, or the rollback after an IntegrityError.
Register(r) ==
  /\ r \in Registers /\ pc[r] = "connected"
  /\ IF EmailFree(r)
       THEN accounts' = accounts \cup {r} /\ Answer(r, 201, "done")
       ELSE Answer(r, 409, "done") /\ UNCHANGED accounts
  /\ UNCHANGED <<session, owner, expired, began, caller, page, visible, faults>>

Verified(a, l) == SameEmail(a, l) /\ PasswordOf[a] = PasswordOf[l]

\* The user is selected by the address and the password is verified.
Lookup(l) ==
  /\ l \in Logins /\ pc[l] = "connected"
  /\ IF \E a \in accounts : Verified(a, l)
       THEN Go(l, "verified") /\ UNCHANGED answer
       ELSE Answer(l, 401, "holding")
  /\ UNCHANGED <<rows, expired, began, caller, page, visible, faults>>

\* issue_session: INSERT and COMMIT.
IssueSession(l) ==
  /\ l \in Logins /\ pc[l] = "verified"
  /\ \E a \in accounts :
       Verified(a, l) /\ session' = [session EXCEPT ![l] = a]
  /\ Answer(l, 200, "done")
  /\ UNCHANGED <<accounts, owner, expired, began, caller, page, visible, faults>>

\* get_current_user raises: nobody asked the database.
NoCredentials(r) ==
  /\ pc[r] = "asking" /\ ~HasToken(r)
  /\ Answer(r, 401, "done")
  /\ UNCHANGED <<rows, expired, began, caller, page, visible, faults>>

\* get_current_user: the token's session is live, or 401; it may have expired
\* since it was last used.  The SELECT begins the transaction that a create
\* commits, and now() is when it began.
Authenticate(r) ==
  /\ r \in ProjectRequests /\ pc[r] = "connected"
  /\ \/ UNCHANGED <<expired, faults>>
     \/ /\ faults < MaxFaults /\ faults' = faults + 1
        /\ expired' = expired \cup {LoginOf[r]}
  /\ IF session[LoginOf[r]] # None /\ LoginOf[r] \notin expired'
       THEN /\ caller' = [caller EXCEPT ![r] = session[LoginOf[r]]]
            /\ Go(r, "ready")
            /\ UNCHANGED answer
       ELSE Answer(r, 401, "holding") /\ UNCHANGED caller
  /\ began' = IF r \in Creates THEN Append(began, r) ELSE began
  /\ UNCHANGED <<rows, page, visible>>

-----------------------------------------------------------------------------
(* Projects.                                                               *)

\* uq_projects_owner_name lets the row in.
NameFree(r) ==
  \A c \in Creates : owner[c] = caller[r] => NameOf[c] # NameOf[r]

\* create_project up to the commit, which returns the connection.
CreateProject(r) ==
  /\ r \in Creates /\ pc[r] = "working"
  /\ IF NameFree(r)
       THEN /\ owner' = [owner EXCEPT ![r] = caller[r]]
            /\ Go(r, "stored")
            /\ UNCHANGED answer
       ELSE Answer(r, 409, "done") /\ UNCHANGED owner
  /\ UNCHANGED <<accounts, session, expired, began, caller, page, visible, faults>>

\* session.refresh begins another transaction.
Refresh(r) ==
  /\ pc[r] = "refreshing"
  /\ Answer(r, 201, "returned")
  /\ UNCHANGED <<rows, expired, began, caller, page, visible, faults>>

\* (mutant) The owner is not part of the condition.
OwnedByAnyone(u) == {c \in Creates : owner[c] # None}

Owned(u) == {c \in Creates : owner[c] = u}

Position(c) == CHOOSE i \in DOMAIN began : began[i] = c

\* (mutant) The rows are counted from one, the offset from zero.
RankFromOne(c, S) == Cardinality({d \in S : Position(d) <= Position(c)})

\* How many of the projects in S come before c in ORDER BY created_at, id.
Rank(c, S) == Cardinality({d \in S : Position(d) < Position(c)})

ListProjects(q) ==
  /\ q \in Pages /\ pc[q] = "working"
  /\ LET mine == Owned(caller[q])
     IN /\ visible' = [visible EXCEPT ![q] = mine]
        /\ page' = [page EXCEPT ![q] = {c \in mine :
                      Rank(c, mine) \in OffsetOf[q]..(OffsetOf[q] + Limit - 1)}]
  /\ Answer(q, 200, "returned")
  /\ UNCHANGED <<rows, expired, began, caller, faults>>

\* get_owned_project.
ReadProject(r) ==
  /\ r \in Reads /\ pc[r] = "working"
  /\ IF TargetOf[r] \in Owned(caller[r])
       THEN Answer(r, 200, "returned")
       ELSE Answer(r, 404, "holding")
  /\ UNCHANGED <<rows, expired, began, caller, page, visible, faults>>

-----------------------------------------------------------------------------
(* A statement fails, or the answer to a COMMIT is lost: 500, and the row  *)
(* may be there.                                                           *)
StatementFails(r) ==
  /\ faults < MaxFaults
  /\ faults' = faults + 1
  /\ pc[r] \in {"connected", "verified", "working", "refreshing"}
  /\ Answer(r, 500, "holding")
  /\ \/ UNCHANGED rows
     \/ /\ r \in Registers /\ pc[r] = "connected" /\ EmailFree(r)
        /\ accounts' = accounts \cup {r}
        /\ UNCHANGED <<session, owner>>
     \/ /\ r \in Logins /\ pc[r] = "verified"
        /\ \E a \in accounts :
             Verified(a, r) /\ session' = [session EXCEPT ![r] = a]
        /\ UNCHANGED <<accounts, owner>>
     \/ /\ r \in Creates /\ pc[r] = "working" /\ NameFree(r)
        /\ owner' = [owner EXCEPT ![r] = caller[r]]
        /\ UNCHANGED <<accounts, session>>
  /\ UNCHANGED <<expired, began, caller, page, visible>>

Serve(r) ==
  \/ Register(r) \/ Lookup(r) \/ IssueSession(r) \/ NoCredentials(r)
  \/ Authenticate(r) \/ CreateProject(r) \/ Refresh(r) \/ ListProjects(r)
  \/ ReadProject(r)

Progress ==
  \E r \in Requests :
    TakeThread(r) \/ Connect(r) \/ PoolTimeout(r) \/ Serve(r) \/ Close(r)

Next == Progress \/ \E r \in Requests : StatementFails(r)

Spec == Init /\ [][Next]_vars

\* Threads are scheduled, the database answers and timers fire; which request
\* goes on is not assumed.
Fairness == WF_vars(Progress)

FairSpec == Spec /\ Fairness

-----------------------------------------------------------------------------
(* Properties.                                                             *)

TypeOK ==
  /\ accounts \subseteq Registers
  /\ session \in [Logins -> Registers \cup {None}]
  /\ expired \subseteq Logins
  /\ owner \in [Creates -> Registers \cup {None}]
  /\ began \in Seq(Creates)
  /\ pc \in [Requests -> Steps]
  /\ caller \in [ProjectRequests -> Registers \cup {None}]
  /\ answer \in [Requests -> {None, 200, 201, 401, 404, 409, 500}]
  /\ page \in [Pages -> SUBSET Creates]
  /\ visible \in [Pages -> SUBSET Creates]
  /\ faults \in 0..MaxFaults
  /\ Using(InThread) <= Threads
  /\ Using(Connected) <= PoolSize

\* However registrations race and statements fail, an address has one
\* account, an owner one project of a name, and an answer tells the truth
\* about the row that its request inserted or found.  A row whose request
\* was answered with 500 may exist.
AnswersAgree ==
  /\ \A a, b \in accounts : SameEmail(a, b) => a = b
  /\ \A r \in Registers :
       /\ answer[r] = 201 => r \in accounts
       /\ answer[r] = 409 => \E a \in accounts \ {r} : SameEmail(a, r)
       /\ r \in accounts => answer[r] \in {201, 500}
  /\ \A l \in Logins :
       /\ answer[l] = 200 => session[l] # None
       /\ session[l] # None => session[l] \in accounts /\ Verified(session[l], l)
  /\ \A c, d \in Creates :
       owner[c] # None /\ owner[c] = owner[d] /\ NameOf[c] = NameOf[d] => c = d
  /\ \A c \in Creates :
       /\ answer[c] = 201 => owner[c] # None
       /\ answer[c] = 409 => \E d \in Creates \ {c} :
                               owner[d] = caller[c] /\ NameOf[d] = NameOf[c]
       /\ owner[c] # None => answer[c] \in {None, 201, 500}

\* A project belongs to, and is listed or read by, nobody but the account
\* that the request's token was issued for.
OwnRowsOnly ==
  /\ \A c \in Creates : owner[c] # None => owner[c] = session[LoginOf[c]]
  /\ \A q \in Pages : \A c \in page[q] : owner[c] = session[LoginOf[q]]
  /\ \A r \in Reads :
       answer[r] = 200 => /\ session[LoginOf[r]] # None
                          /\ owner[TargetOf[r]] = session[LoginOf[r]]

\* A client follows the pages: they begin with one first page, and it asks for
\* a further one when an earlier one that reaches up to it was answered.
Walk(last) ==
  {q \in Pages : LoginOf[q] = LoginOf[last] /\ OffsetOf[q] <= OffsetOf[last]}

Follows(last) ==
  /\ \A p, q \in Walk(last) : OffsetOf[p] = 0 /\ OffsetOf[q] = 0 => p = q
  /\ \A p \in Walk(last) :
       OffsetOf[p] > 0 =>
         \E q \in Walk(last) \cap After[p] :
           OffsetOf[q] < OffsetOf[p] /\ OffsetOf[p] <= OffsetOf[q] + Limit

\* A client that follows the pages up to one that is not full has been shown
\* every project that was there when it read the first page, although
\* projects that are created meanwhile may sort before those.
PagesMissNothing ==
  \A last \in Pages :
    /\ Follows(last)
    /\ \A q \in Walk(last) : answer[q] = 200
    /\ Cardinality(page[last]) < Limit
    => \A q \in Walk(last) : OffsetOf[q] = 0 =>
         visible[q] \subseteq UNION {page[p] : p \in Walk(last)}

\* Requests that hold a connection and wait for a thread, and requests in
\* all the threads that wait for a connection, do not block each other for
\* ever: the service comes to rest, every request answered and every thread
\* and connection returned.
EveryRequestEnds == []<>(\A r \in Requests : pc[r] \in {"new", "done"})
=============================================================================
