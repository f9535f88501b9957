-------------------------- MODULE IdempotentCreate --------------------------
(***************************************************************************)
(* What an endpoint with an Idempotency-Key header promises its clients:   *)
(* a key is bound once, to the thing that one request created; a request   *)
(* is told of that thing if its payload is the one the key was bound with, *)
(* and is refused otherwise.  An endpoint may also refuse a request that   *)
(* raced with another one for its key, and may fail without an answer that *)
(* says whether the thing was created.                                     *)
(***************************************************************************)
CONSTANTS
  Requests,   \* the calls that clients make, repeats included
  Keys,       \* idempotency keys
  Payloads,   \* what a call asks for
  KeyOf,      \* [Requests -> Keys]
  PayloadOf,  \* [Requests -> Payloads]
  None        \* no thing to tell of

VARIABLES
  owners,     \* [Keys -> SUBSET Requests], the request whose thing has the key
  answer      \* what each request was answered

Kinds == {"pending", "ok", "mismatch", "conflict", "error"}

Pending == [kind |-> "pending", job |-> None]

Init ==
  /\ owners = [k \in Keys |-> {}]
  /\ answer = [r \in Requests |-> Pending]

Answered(r, kind, job) ==
  /\ answer[r] = Pending
  /\ answer' = [answer EXCEPT ![r] = [kind |-> kind, job |-> job]]
  /\ UNCHANGED owners

Bind(r) ==
  /\ answer[r] = Pending
  /\ owners[KeyOf[r]] = {}
  /\ owners' = [owners EXCEPT ![KeyOf[r]] = {r}]
  /\ UNCHANGED answer

Tell(r) ==
  \E o \in owners[KeyOf[r]] :
    PayloadOf[o] = PayloadOf[r] /\ Answered(r, "ok", o)

RefuseOther(r) ==
  \E o \in owners[KeyOf[r]] :
    PayloadOf[o] # PayloadOf[r] /\ Answered(r, "mismatch", None)

RefuseRace(r) == owners[KeyOf[r]] # {} /\ Answered(r, "conflict", None)

GiveUp(r) == Answered(r, "error", None)

Next ==
  \E r \in Requests :
    Bind(r) \/ Tell(r) \/ RefuseOther(r) \/ RefuseRace(r) \/ GiveUp(r)

Spec == Init /\ [][Next]_<<owners, answer>>
=============================================================================
