-------------------------- MODULE ProviderContract --------------------------
(***************************************************************************)
(* What the application relies on when it calls an LLMProvider: a stream   *)
(* delivers text, then at most one completion, and returns only after it;  *)
(* a call of generate delivers its result at once.  Either may raise, also *)
(* after the completion, or be given up by its caller.                     *)
(***************************************************************************)
EXTENDS Naturals

CONSTANTS Streams, Generates

Calls == Streams \cup Generates

VARIABLES
  phase,  \* how far a call is
  texts   \* how many pieces of text it delivered

cvars == <<phase, texts>>

CInit ==
  /\ phase = [c \in Calls |-> "open"]
  /\ texts = [c \in Calls |-> 0]

Moves(c, from, to) ==
  /\ phase[c] \in from
  /\ phase' = [phase EXCEPT ![c] = to]
  /\ UNCHANGED texts

Deliver(c) ==
  /\ c \in Streams /\ phase[c] = "open"
  /\ texts' = [texts EXCEPT ![c] = @ + 1]
  /\ UNCHANGED phase

Complete(c) == c \in Streams /\ Moves(c, {"open"}, "completed")
Return(c) == Moves(c, IF c \in Streams THEN {"completed"} ELSE {"open"}, "returned")
Fail(c) == Moves(c, {"open", "completed"}, "failed")
GiveUp(c) == Moves(c, {"open", "completed"}, "given up")

CNext == \E c \in Calls : Deliver(c) \/ Complete(c) \/ Return(c) \/ Fail(c) \/ GiveUp(c)

CSpec == CInit /\ [][CNext]_cvars
=============================================================================
