------------------------------ MODULE SseStream ------------------------------
(***************************************************************************)
(* The streaming endpoint of examples/ai-api: stream_generation (app/      *)
(* api.py) admits a request through an asyncio.Semaphore, and generate_sse *)
(* (app/sse.py) relays the provider's events to the client until a         *)
(* terminal event, a disconnect or the provider timeout.                   *)
(*                                                                         *)
(* The frameworks are modelled from how the code uses them.  Starlette's   *)
(* StreamingResponse runs two tasks, one that iterates the generator and   *)
(* sends what it yields and one that waits for http.disconnect and cancels *)
(* the first, and then the background task.  A generator is therefore      *)
(* suspended in one of its own awaits, where an exception enters its try   *)
(* statement, or at a yield while the chunk is being sent, where an        *)
(* exception ends the task that iterates and abandons the generator: the   *)
(* interpreter closes it once the response object is gone.                 *)
(* asyncio.timeout cancels the task, wherever that task is suspended.      *)
(*                                                                         *)
(* Steps between two suspension points are atomic: there is one loop.      *)
(***************************************************************************)
EXTENDS Integers, Sequences, FiniteSets

CONSTANTS
  Streams,     \* the requests to POST /v1/generations:stream
  Capacity,    \* settings.stream_concurrency
  MaxChars,    \* settings.max_stream_output_chars
  DeltaSizes   \* lengths of the provider's deltas

ASSUME SettingsAssumption ==
  /\ Capacity \in Nat \ {0}
  /\ MaxChars \in Nat
  /\ DeltaSizes \subseteq Nat

VARIABLES
  permits,   \* Semaphore._value
  arrivals,  \* the requests that had to wait, in order of arrival
  request,   \* how far the endpoint and the response are
  lease,     \* StreamLease: "held" until its released flag is set
  gen,       \* where generate_sse is suspended
  after,     \* what follows the closing of the provider's iterator
  upstream,  \* TRUE while the provider's stream is open
  emitted,   \* emitted_chars
  client,    \* TRUE while the client is connected
  wire       \* the events that the client has received

semaphore == <<permits, arrivals>>
vars == <<permits, arrivals, request, lease, gen, after, upstream, emitted,
          client, wire>>

-----------------------------------------------------------------------------
(* A request waits for the semaphore, has been given a permit that its     *)
(* task has not picked up yet, streams, runs the background task, or is    *)
(* over.                                                                   *)
Requests == {"new", "waiting", "granted", "streaming", "background",
             "answered", "refused"}

\* Suspended at a yield: "start", "delta", "complete" and "error" name the
\* event that is being sent.
Sending == {"start", "delta", "complete", "error"}

\* Suspended in an await: of the first is_disconnected, of the provider's
\* next event, of the close of the provider's response while a timeout is
\* being raised, of the iterator's aclose, of is_disconnected in a handler.
Awaiting == {"enter", "next", "unwinding", "close", "handler"}

Gens == {"none", "created", "abandoned", "ended"} \cup Sending \cup Awaiting

Wire == [start : Nat, chars : Nat, complete : Nat, error : Nat]

Init ==
  /\ permits = Capacity
  /\ arrivals = <<>>
  /\ request = [s \in Streams |-> "new"]
  /\ lease = [s \in Streams |-> "none"]
  /\ gen = [s \in Streams |-> "none"]
  /\ after = [s \in Streams |-> "return"]
  /\ upstream = [s \in Streams |-> FALSE]
  /\ emitted = [s \in Streams |-> 0]
  /\ client = [s \in Streams |-> TRUE]
  /\ wire = [s \in Streams |-> [start |-> 0, chars |-> 0, complete |-> 0, error |-> 0]]

-----------------------------------------------------------------------------
(* asyncio.Semaphore.  A permit that is given to a waiter leaves _value at *)
(* once; the waiter's task picks it up later, and stays in _waiters until  *)
(* then: _waiters holds the arrivals that are waiting or granted.          *)

InFrontOf(s, t) ==
  \E i, j \in DOMAIN arrivals : i < j /\ arrivals[i] = s /\ arrivals[j] = t

\* Give at most n of the free permits to those that have waited longest.
GrantUpTo(n, free, status) ==
  LET undone == {s \in Streams : status[s] = "waiting"}
  IN \E given \in SUBSET undone :
       /\ \A s \in given, t \in undone \ given : InFrontOf(s, t)
       /\ Cardinality(given) <= n /\ Cardinality(given) <= free
       /\ given = undone \/ Cardinality(given) \in {n, free}
       /\ permits' = free - Cardinality(given)
       /\ request' = [s \in Streams |-> IF s \in given THEN "granted" ELSE status[s]]
       /\ UNCHANGED arrivals

\* The end of acquire() wakes as many as there are permits for.
LeaveQueue(free, status) == GrantUpTo(free, free, status)

\* (mutant) The released flag is not looked at.
ReleaseAgain(s, status) ==
  /\ lease' = [lease EXCEPT ![s] = "released"]
  /\ GrantUpTo(1, permits + 1, status)

\* (mutant) A permit that comes back wakes nobody.
ReleaseQuietly(s, status) ==
  /\ lease' = [lease EXCEPT ![s] = "released"]
  /\ permits' = IF lease[s] = "held" THEN permits + 1 ELSE permits
  /\ request' = status
  /\ UNCHANGED arrivals

\* StreamLease.release, with the request's status after this step: the
\* permit goes back once, to the first waiter if there is one.
Release(s, status) ==
  IF lease[s] = "held"
    THEN /\ lease' = [lease EXCEPT ![s] = "released"]
         /\ GrantUpTo(1, permits + 1, status)
    ELSE /\ request' = status
         /\ UNCHANGED <<lease, semaphore>>

Becomes(s, r) == [request EXCEPT ![s] = r]

-----------------------------------------------------------------------------
(* stream_generation.                                                      *)

\* The payload exceeds a limit: 413 or 422 before anything is acquired.
Reject(s) ==
  /\ request[s] = "new"
  /\ request' = Becomes(s, "refused")
  /\ UNCHANGED <<semaphore, lease, gen, after, upstream, emitted, client, wire>>

\* What follows a successful acquire, up to the return of the response.
Admitted(s) ==
  /\ lease' = [lease EXCEPT ![s] = "held"]
  /\ gen' = [gen EXCEPT ![s] = "created"]

\* acquire() succeeds at once unless a waiter is queued or no permit is free.
Arrive(s) ==
  /\ request[s] = "new"
  /\ IF permits > 0 /\ \A t \in Streams : request[t] \notin {"waiting", "granted"}
       THEN /\ permits' = permits - 1
            /\ request' = Becomes(s, "streaming")
            /\ Admitted(s)
            /\ UNCHANGED arrivals
       ELSE /\ arrivals' = Append(arrivals, s)
            /\ request' = Becomes(s, "waiting")
            /\ UNCHANGED <<permits, lease, gen>>
  /\ UNCHANGED <<after, upstream, emitted, client, wire>>

Admit(s) ==
  /\ request[s] = "granted"
  /\ LeaveQueue(permits, Becomes(s, "streaming"))
  /\ Admitted(s)
  /\ UNCHANGED <<after, upstream, emitted, client, wire>>

\* stream_admission_timeout_seconds are over: 503.  A permit that arrived
\* together with the timeout is put back.
AdmissionTimeout(s) ==
  /\ request[s] \in {"waiting", "granted"}
  /\ LeaveQueue(IF request[s] = "granted" THEN permits + 1 ELSE permits,
                Becomes(s, "refused"))
  /\ UNCHANGED <<lease, gen, after, upstream, emitted, client, wire>>

-----------------------------------------------------------------------------
(* generate_sse.                                                           *)

\* The response has sent its headers and asks for the first chunk.
Begin(s) ==
  /\ gen[s] = "created"
  /\ gen' = [gen EXCEPT ![s] = "enter"]
  /\ UNCHANGED <<semaphore, request, lease, after, upstream, emitted, client, wire>>

\* The generator runs to its end, its finally clause included, and the
\* response goes on to its background task.
End(s) ==
  /\ gen' = [gen EXCEPT ![s] = "ended"]
  /\ Release(s, Becomes(s, "background"))

\* is_disconnected is true: nothing more is yielded.
FindGone(s) ==
  /\ gen[s] \in {"enter", "handler"}
  /\ ~client[s]
  /\ End(s)
  /\ UNCHANGED <<after, upstream, emitted, client, wire>>

Yield(s, event) ==
  /\ gen' = [gen EXCEPT ![s] = event]
  /\ UNCHANGED <<semaphore, request, lease, after, upstream, emitted, client, wire>>

FindHere(s) ==
  /\ client[s]
  /\ \/ gen[s] = "enter" /\ Yield(s, "start")
     \/ gen[s] = "handler" /\ Yield(s, "error")

\* What a client that had received w has received with this event.
Extended(w, event, chars) ==
  [start    |-> IF event = "start" THEN w.start + 1 ELSE w.start,
   chars    |-> IF event = "delta" THEN chars ELSE w.chars,
   complete |-> IF event = "complete" THEN w.complete + 1 ELSE w.complete,
   error    |-> IF event = "error" THEN w.error + 1 ELSE w.error]

\* The chunk is sent.  uvicorn drops what is sent to a client that is gone.
Received(s) ==
  IF client[s]
    THEN wire' = [wire EXCEPT ![s] = Extended(@, gen[s], emitted[s])]
    ELSE UNCHANGED wire

\* (mutant) The generator goes on after "complete".
SentNoReturn(s) ==
  /\ gen[s] \in Sending
  /\ Received(s)
  /\ \/ /\ gen[s] \in Sending \ {"error"}
        /\ gen' = [gen EXCEPT ![s] = "next"]
        /\ upstream' = [upstream EXCEPT ![s] = TRUE]
        /\ UNCHANGED <<semaphore, request, lease, after>>
     \/ /\ gen[s] = "error"
        /\ End(s)
        /\ UNCHANGED <<after, upstream>>
  /\ UNCHANGED <<emitted, client>>

\* After "start" the timeout is set and the provider's stream is iterated;
\* after "complete" the generator returns through aclosing.
Sent(s) ==
  /\ gen[s] \in Sending
  /\ Received(s)
  /\ \/ /\ gen[s] \in {"start", "delta"}
        /\ gen' = [gen EXCEPT ![s] = "next"]
        /\ upstream' = [upstream EXCEPT ![s] = TRUE]
        /\ UNCHANGED <<semaphore, request, lease, after>>
     \/ /\ gen[s] = "complete"
        /\ gen' = [gen EXCEPT ![s] = "close"]
        /\ after' = [after EXCEPT ![s] = "return"]
        /\ UNCHANGED <<semaphore, request, lease, upstream>>
     \/ /\ gen[s] = "error"
        /\ End(s)
        /\ UNCHANGED <<after, upstream>>
  /\ UNCHANGED <<emitted, client>>

CloseThen(s, what) ==
  /\ gen' = [gen EXCEPT ![s] = "close"]
  /\ after' = [after EXCEPT ![s] = what]

\* The provider has an event, but the client is found disconnected.
EventForNobody(s) ==
  /\ gen[s] = "next"
  /\ ~client[s]
  /\ CloseThen(s, "return")
  /\ UNCHANGED <<semaphore, request, lease, upstream, emitted, client, wire>>

\* (mutant) The limit is compared before the delta is added.
DeltaLate(s, size) ==
  /\ gen[s] = "next"
  /\ client[s]
  /\ emitted' = [emitted EXCEPT ![s] = @ + size]
  /\ IF emitted[s] > MaxChars
       THEN CloseThen(s, "handler")
       ELSE gen' = [gen EXCEPT ![s] = "delta"] /\ UNCHANGED after
  /\ UNCHANGED <<semaphore, request, lease, upstream, client, wire>>

\* A TextDelta or RefusalDelta is relayed unless it exceeds the limit.
Delta(s, size) ==
  /\ gen[s] = "next"
  /\ client[s]
  /\ emitted' = [emitted EXCEPT ![s] = @ + size]
  /\ IF emitted[s] + size > MaxChars
       THEN CloseThen(s, "handler")
       ELSE gen' = [gen EXCEPT ![s] = "delta"] /\ UNCHANGED after
  /\ UNCHANGED <<semaphore, request, lease, upstream, client, wire>>

Completed(s) ==
  /\ gen[s] = "next"
  /\ client[s]
  /\ Yield(s, "complete")

\* The provider's stream raises, or ends without a terminal event.
StreamFails(s) ==
  /\ gen[s] = "next"
  /\ gen' = [gen EXCEPT ![s] = "handler"]
  /\ upstream' = [upstream EXCEPT ![s] = FALSE]
  /\ UNCHANGED <<semaphore, request, lease, after, emitted, client, wire>>

\* aclosing has closed the provider's iterator: return, or handle the error
\* that is being raised.
Closed(s) ==
  /\ gen[s] = "close"
  /\ upstream' = [upstream EXCEPT ![s] = FALSE]
  /\ IF after[s] = "return"
       THEN End(s)
       ELSE /\ gen' = [gen EXCEPT ![s] = "handler"]
            /\ UNCHANGED <<semaphore, request, lease>>
  /\ UNCHANGED <<after, emitted, client, wire>>

\* Closing raises: whatever was going on, the handlers see the exception.
CloseFails(s) ==
  /\ gen[s] = "close"
  /\ upstream' = [upstream EXCEPT ![s] = FALSE]
  /\ gen' = [gen EXCEPT ![s] = "handler"]
  /\ UNCHANGED <<semaphore, request, lease, after, emitted, client, wire>>

-----------------------------------------------------------------------------
(* Timeout, disconnect and cancellation.                                   *)

\* The task that iterates the generator ends in a send: the generator is
\* left suspended at its yield.
Abandon(s) ==
  /\ gen' = [gen EXCEPT ![s] = "abandoned"]
  /\ request' = Becomes(s, "background")
  /\ UNCHANGED <<semaphore, lease, upstream>>

\* provider_timeout_seconds are over, inside the scope of asyncio.timeout.
\* In an await of the generator the CancelledError becomes a TimeoutError,
\* at the provider's next event once the adapter has closed its response; in
\* a send it is not caught by anything that answers the client.
ProviderTimeout(s) ==
  /\ \/ /\ gen[s] = "next"
        /\ gen' = [gen EXCEPT ![s] = "unwinding"]
        /\ UNCHANGED <<semaphore, request, lease, upstream>>
     \/ /\ gen[s] = "close"
        /\ gen' = [gen EXCEPT ![s] = "handler"]
        /\ upstream' = [upstream EXCEPT ![s] = FALSE]
        /\ UNCHANGED <<semaphore, request, lease>>
     \/ /\ gen[s] \in {"delta", "complete"}
        /\ Abandon(s)
  /\ UNCHANGED <<after, emitted, client, wire>>

\* The adapter's close, which no timer bounds any more, returns or raises:
\* either way a handler of generate_sse follows.
Unwound(s) ==
  /\ gen[s] = "unwinding"
  /\ gen' = [gen EXCEPT ![s] = "handler"]
  /\ upstream' = [upstream EXCEPT ![s] = FALSE]
  /\ UNCHANGED <<semaphore, request, lease, after, emitted, client, wire>>

Disconnect(s) ==
  /\ client[s]
  /\ client' = [client EXCEPT ![s] = FALSE]
  /\ UNCHANGED <<semaphore, request, lease, gen, after, upstream, emitted, wire>>

\* The response's other task has seen the disconnect and cancels.  A
\* generator that never ran has no finally clause to run.  The cancellation
\* is repeated at every await, so a close that it starts ends at once.
Cancel(s) ==
  /\ request[s] = "streaming"
  /\ ~client[s]
  /\ \/ /\ gen[s] = "created"
        /\ gen' = [gen EXCEPT ![s] = "ended"]
        /\ request' = Becomes(s, "background")
        /\ UNCHANGED <<semaphore, lease, upstream>>
     \/ /\ gen[s] \in Awaiting
        /\ upstream' = [upstream EXCEPT ![s] = FALSE]
        /\ End(s)
     \/ /\ gen[s] \in Sending
        /\ Abandon(s)
  /\ UNCHANGED <<after, emitted, client, wire>>

\* (mutant) The response has no background task.
BackgroundNothing(s) ==
  /\ request[s] = "background"
  /\ request' = Becomes(s, "answered")
  /\ UNCHANGED <<semaphore, lease, gen, after, upstream, emitted, client, wire>>

\* BackgroundTask(lease.release).
Background(s) ==
  /\ request[s] = "background"
  /\ Release(s, Becomes(s, "answered"))
  /\ UNCHANGED <<gen, after, upstream, emitted, client, wire>>

\* The response is gone, and the abandoned generator is closed: GeneratorExit
\* leaves through aclosing and the finally clause.
Finalize(s) ==
  /\ gen[s] = "abandoned"
  /\ request[s] = "answered"
  /\ gen' = [gen EXCEPT ![s] = "ended"]
  /\ upstream' = [upstream EXCEPT ![s] = FALSE]
  /\ Release(s, request)
  /\ UNCHANGED <<after, emitted, client, wire>>

-----------------------------------------------------------------------------
Next ==
  \E s \in Streams :
    \/ Reject(s) \/ Arrive(s) \/ Admit(s) \/ AdmissionTimeout(s)
    \/ Begin(s) \/ FindGone(s) \/ FindHere(s) \/ Sent(s) \/ EventForNobody(s)
    \/ \E size \in DeltaSizes : Delta(s, size)
    \/ Completed(s) \/ StreamFails(s) \/ Closed(s) \/ CloseFails(s)
    \/ ProviderTimeout(s) \/ Unwound(s) \/ Disconnect(s) \/ Cancel(s)
    \/ Background(s) \/ Finalize(s)

Spec == Init /\ [][Next]_vars

\* The loop runs what is ready and fires its timers, and a client reads what
\* it is sent or disconnects.  Nothing is assumed of the provider but that
\* closing its response comes to an end.
Fairness ==
  \A s \in Streams :
    /\ WF_vars(Admit(s))
    /\ WF_vars(AdmissionTimeout(s))
    /\ WF_vars(Begin(s) \/ FindGone(s) \/ FindHere(s) \/ Background(s))
    /\ WF_vars(Sent(s))
    /\ WF_vars(ProviderTimeout(s))
    /\ WF_vars(Unwound(s))
    /\ WF_vars(Cancel(s))

FairSpec == Spec /\ Fairness

-----------------------------------------------------------------------------
(* Properties.                                                             *)

TypeOK ==
  /\ permits \in 0..Capacity
  /\ arrivals \in Seq(Streams)
  /\ request \in [Streams -> Requests]
  /\ lease \in [Streams -> {"none", "held", "released"}]
  /\ gen \in [Streams -> Gens]
  /\ after \in [Streams -> {"return", "handler"}]
  /\ upstream \in [Streams -> BOOLEAN]
  /\ emitted \in [Streams -> Nat]
  /\ client \in [Streams -> BOOLEAN]
  /\ wire \in [Streams -> Wire]

With(f, v) == {s \in Streams : f[s] = v}

\* Every permit is free, on its way to a waiter, or held by one lease:
\* however finally clause, background task, finalizer, admission timeout and
\* cancellation follow each other, none is returned twice or forgotten.  Nor
\* does one lie idle while requests wait: either none is free, or a request
\* that was woken is about to wake the next.
PermitsAccounted ==
  /\ permits + Cardinality(With(request, "granted"))
             + Cardinality(With(lease, "held")) = Capacity
  /\ With(request, "waiting") # {} => permits = 0 \/ With(request, "granted") # {}

\* A generator that may still yield runs under a lease that is held, and an
\* open provider stream belongs to such a generator or to an abandoned one.
WorkIsLeased ==
  \A s \in Streams :
    /\ gen[s] \in {"created"} \cup Sending \cup Awaiting => lease[s] = "held"
    /\ upstream[s] => gen[s] = "abandoned" \/ lease[s] = "held"
    /\ request[s] = "answered" => lease[s] = "released"

\* The client receives a prefix of a conversation: text only after "start",
\* never more of it than the limit, and no event twice.
OutputIsBounded ==
  \A s \in Streams :
    /\ wire[s].chars <= MaxChars
    /\ wire[s].chars + wire[s].complete > 0 => wire[s].start = 1
    /\ wire[s].complete <= 1 /\ wire[s].error <= 1

\* Nothing follows an "error", and no text follows a "complete".
ErrorIsLast ==
  [][\A s \in Streams :
       /\ wire[s].error > 0 => wire'[s] = wire[s]
       /\ wire[s].complete > 0 => wire'[s].chars = wire[s].chars]_vars

\* A client is answered in the end, unless it never asked, and the permit
\* that it was given comes back, whatever the provider sends or withholds.
EveryRequestAnswered ==
  \A s \in Streams :
    /\ request[s] = "waiting" ~> request[s] \in {"answered", "refused"}
    /\ lease[s] = "held" ~> lease[s] = "released"

\* README.md: a connected client receives exactly one terminal event.
ExactlyOneTerminal ==
  \A s \in Streams :
    /\ wire[s].complete + wire[s].error <= 1
    /\ request[s] = "answered" /\ client[s]
         => wire[s].complete + wire[s].error = 1
=============================================================================
