-------------------------- MODULE ProviderAdapters --------------------------
(***************************************************************************)
(* The model provider adapters of examples/ai-api (app/providers): stream  *)
(* and generate of OpenAIResponsesProvider and of FakeProvider, as their   *)
(* caller (app/sse.py, app/worker.py) and the provider's SDK drive them.   *)
(*                                                                         *)
(* stream is an asynchronous generator.  It runs while its caller awaits   *)
(* an event; it is suspended at a yield between two of them, where the     *)
(* caller may close it instead; and whatever it awaits may be cancelled.   *)
(* Of the SDK, the response stream, its events and its exceptions are      *)
(* modelled as openai.py uses them.  Unknown events change nothing.        *)
(***************************************************************************)
EXTENDS Naturals

CONSTANTS
  Streams, Generates,  \* calls of stream and of generate
  Fakes,               \* the calls that FakeProvider serves
  Chunks,              \* how many chunks FakeProvider's text has
  FailAfter,           \* fail_after_chunks
  SdkErrors,           \* the exceptions that the SDK raises
  ResponseCodes,       \* the error codes of a failed or incomplete response
  MaxTexts,            \* bound on the text events of a response
  None

Calls == Streams \cup Generates
Sdk == Calls \ Fakes

\* The exception classes of the SDK that openai.py tells apart.
SdkClasses == {"APITimeoutError", "APIConnectionError", "RateLimitError",
               "APIStatusError", "OpenAIError"}

ASSUME AdaptersAssumption ==
  /\ Streams \cap Generates = {} /\ Fakes \subseteq Calls
  /\ Chunks \in Nat \ {0} /\ FailAfter \in Nat \cup {None} /\ MaxTexts \in Nat
  /\ None \notin Nat
  /\ \A e \in SdkErrors : /\ DOMAIN e = {"class", "status", "code"}
                          /\ e.class \in SdkClasses
                          /\ e.status \in Nat
                          /\ e.class = "RateLimitError" <=> e.status = 429
                          /\ e.class = "APIStatusError" => e.status >= 400
                          /\ e.class \notin {"RateLimitError", "APIStatusError"}
                             => e.status = 0

VARIABLES
  calls,       \* the frame of each call
  failPrompts  \* the fake calls whose prompt is in fail_prompts

vars == <<calls, failPrompts>>

-----------------------------------------------------------------------------
(* Outcomes.  An exception that is no OpenAIError passes untranslated.     *)

Outcomes == {"pending", "returned", "failed", "retriable", "given up"}

Raised(retriable) == IF retriable THEN "retriable" ELSE "failed"

NonRetryableLimitCodes == {"billing_hard_limit_reached", "insufficient_quota"}
RetryableResponseCodes == {"rate_limit_exceeded", "server_error"}

\* (mutant) Every limit is taken for a rate limit.
SdkErrorAnyLimit(e) ==
  Raised(\/ e.class \in {"APITimeoutError", "APIConnectionError", "RateLimitError"}
         \/ e.class = "APIStatusError" /\ (e.status \in {408, 409} \/ e.status >= 500))

\* _sdk_error: a limit is permanent if its code says so, other statuses are
\* judged by their number.
SdkError(e) ==
  Raised(\/ e.class \in {"APITimeoutError", "APIConnectionError"}
         \/ e.class = "RateLimitError" /\ e.code \notin NonRetryableLimitCodes
         \/ /\ e.class = "APIStatusError"
            /\ e.status \in {408, 409, 429} \/ e.status >= 500)

ResponseError(code) == Raised(code \in RetryableResponseCodes)

-----------------------------------------------------------------------------
Steps == {"idle", "creating", "reading", "yielded", "closing", "over"}

\* cause is history: the exception of the SDK that the outcome translates.
Call == [pc : Steps, sent : Nat, completions : Nat,
         upstream : {"none", "open", "closed", "broken"},
         outcome : Outcomes, cause : SdkErrors \cup {None}]

Init ==
  /\ calls = [c \in Calls |-> [pc |-> "idle", sent |-> 0, completions |-> 0,
                upstream |-> "none", outcome |-> "pending", cause |-> None]]
  /\ failPrompts \in SUBSET Fakes

At(c, steps) == calls[c].pc \in steps

Becomes(c, frame) ==
  /\ calls' = [calls EXCEPT ![c] = frame]
  /\ UNCHANGED failPrompts

Go(c, step) == Becomes(c, [calls[c] EXCEPT !.pc = step])

\* The call ends in this way.  If the response stream is open, the finally
\* clause closes it first.
End(c, outcome, cause) ==
  Becomes(c, [calls[c] EXCEPT
    !.pc = IF calls[c].upstream = "open" THEN "closing" ELSE "over",
    !.outcome = outcome, !.cause = cause])

-----------------------------------------------------------------------------
(* The caller.                                                             *)

Begin(c) ==
  /\ At(c, {"idle"})
  /\ Go(c, IF c \in Streams \cap Fakes THEN "reading" ELSE "creating")

\* The caller asks for another event: the generator goes on after its yield.
Resume(c) ==
  /\ At(c, {"yielded"})
  /\ IF calls[c].completions > 0 THEN End(c, "returned", None) ELSE Go(c, "reading")

\* aclose: GeneratorExit is raised at the yield, and a generator that never
\* began does not run.
Drop(c) ==
  /\ c \in Streams /\ At(c, {"idle", "yielded"})
  /\ End(c, "given up", None)

\* The stream is over although it could not be closed.
EndBroken(c, outcome, cause) ==
  /\ At(c, {"closing"})
  /\ Becomes(c, [calls[c] EXCEPT !.pc = "over", !.upstream = "broken",
                                 !.outcome = outcome, !.cause = cause])

\* The caller's task is cancelled or its timeout expires.
Cancel(c) ==
  \/ At(c, {"creating", "reading"}) /\ End(c, "given up", None)
  \/ EndBroken(c, "given up", None)

-----------------------------------------------------------------------------
(* OpenAIResponsesProvider.                                                *)

\* responses.create returns a response stream.
Created(c) ==
  /\ c \in Sdk \cap Streams /\ At(c, {"creating"})
  /\ Becomes(c, [calls[c] EXCEPT !.pc = "reading", !.upstream = "open"])

\* responses.create returns a completed response.
Answered(c) ==
  /\ c \in Sdk \cap Generates /\ At(c, {"creating"})
  /\ End(c, "returned", None)

Deliver(c) == Becomes(c, [calls[c] EXCEPT !.pc = "yielded", !.sent = @ + 1])

\* response.output_text.delta and response.refusal.delta.
Delta(c) ==
  /\ c \in Sdk /\ At(c, {"reading"}) /\ calls[c].sent < MaxTexts
  /\ Deliver(c)

Complete(c) == Becomes(c, [calls[c] EXCEPT !.pc = "yielded", !.completions = @ + 1])

\* response.completed.
Completed(c) == c \in Sdk /\ At(c, {"reading"}) /\ Complete(c)

\* response.failed and response.incomplete, or a response of generate whose
\* status is not completed.
ResponseFails(c) ==
  /\ c \in Sdk
  /\ IF c \in Streams THEN At(c, {"reading"}) ELSE At(c, {"creating"})
  /\ \E code \in ResponseCodes : End(c, ResponseError(code), None)

\* An error event.
StreamFails(c) ==
  /\ c \in Sdk /\ At(c, {"reading"})
  /\ End(c, Raised(FALSE), None)

\* (mutant) The end of the response is the end of the events.
StreamEndsQuietly(c) ==
  /\ c \in Sdk /\ At(c, {"reading"})
  /\ End(c, "returned", None)

\* The response ends without a terminal event.
StreamEnds(c) ==
  /\ c \in Sdk /\ At(c, {"reading"})
  /\ End(c, Raised(FALSE), None)

\* The SDK raises while it is awaited.
SdkRaises(c) ==
  /\ c \in Sdk /\ At(c, {"creating", "reading"})
  /\ \/ \E e \in SdkErrors : End(c, SdkError(e), e)
     \/ End(c, Raised(FALSE), None)

Closed(c) ==
  /\ At(c, {"closing"})
  /\ Becomes(c, [calls[c] EXCEPT !.pc = "over", !.upstream = "closed"])

\* stream.close raises, and what the generator was about to do is forgotten.
CloseFails(c) ==
  \/ \E e \in SdkErrors : EndBroken(c, SdkError(e), e)
  \/ EndBroken(c, Raised(FALSE), None)

-----------------------------------------------------------------------------
(* FakeProvider.                                                           *)

\* stream checks before its first chunk and, with fail_after_chunks, before
\* every chunk and before the completion; generate whenever the prompt fails.
Fails(c) ==
  /\ c \in failPrompts
  /\ c \in Generates \/ FailAfter \in {None, calls[c].sent}

FakeFails(c) ==
  /\ c \in Fakes /\ At(c, {"creating", "reading"}) /\ Fails(c)
  /\ \E outcome \in {"failed", "retriable"} : End(c, outcome, None)

FakeAnswers(c) ==
  /\ c \in Fakes /\ At(c, {"creating"}) /\ ~Fails(c)
  /\ End(c, "returned", None)

FakeDelta(c) ==
  /\ c \in Fakes /\ At(c, {"reading"}) /\ ~Fails(c)
  /\ calls[c].sent < Chunks
  /\ Deliver(c)

FakeCompletes(c) ==
  /\ c \in Fakes /\ At(c, {"reading"}) /\ ~Fails(c)
  /\ calls[c].sent = Chunks
  /\ Complete(c)

-----------------------------------------------------------------------------
Caller(c) == Begin(c) \/ Resume(c) \/ Drop(c) \/ Cancel(c)

OpenAI(c) ==
  \/ Created(c) \/ Answered(c) \/ Delta(c) \/ Completed(c) \/ ResponseFails(c)
  \/ StreamFails(c) \/ StreamEnds(c) \/ SdkRaises(c) \/ Closed(c) \/ CloseFails(c)

Fake(c) == FakeFails(c) \/ FakeAnswers(c) \/ FakeDelta(c) \/ FakeCompletes(c)

Next == \E c \in Calls : Caller(c) \/ OpenAI(c) \/ Fake(c)

Spec == Init /\ [][Next]_vars

-----------------------------------------------------------------------------
(* Properties.                                                             *)

TypeOK ==
  /\ calls \in [Calls -> Call]
  /\ failPrompts \subseteq Fakes

\* When a call is over its response stream is not left open: it is closed
\* unless closing it failed or was cancelled, and only then can a call raise
\* that has delivered its completion.  A failure that repeating the request
\* cannot mend (a rejected request, a used-up quota) is not called retriable,
\* and every other failure that the SDK reports is.
Hopeless(e) ==
  \/ e.class = "OpenAIError"
  \/ e.status \in (400..499) \ {408, 409, 429}
  \/ e.status = 429 /\ e.code \in NonRetryableLimitCodes

EndedCallsAreClean ==
  \A c \in Calls : At(c, {"over"}) =>
    LET call == calls[c]
    IN /\ call.upstream # "open"
       /\ call.outcome = "returned" => call.upstream # "broken"
       /\ call.completions > 0 /\ call.outcome \in {"failed", "retriable"}
          => call.upstream = "broken"
       /\ call.cause # None => (call.outcome = "retriable" <=> ~Hopeless(call.cause))

\* Both adapters keep what the application relies on.
Phase(f) ==
  CASE f.pc = "over" -> IF f.outcome = "retriable" THEN "failed" ELSE f.outcome
    [] f.pc # "over" /\ f.completions > 0 -> "completed"
    [] OTHER -> "open"

Contract == INSTANCE ProviderContract WITH
  phase <- [c \in Calls |-> Phase(calls[c])],
  texts <- [c \in Calls |-> calls[c].sent]

ImplementsContract == Contract!CSpec
=============================================================================
