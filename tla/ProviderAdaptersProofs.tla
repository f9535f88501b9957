----------------------- MODULE ProviderAdaptersProofs -----------------------
(***************************************************************************)
(* Proofs about ProviderAdapters for any calls, SDK errors and chunks.     *)
(*                                                                         *)
(* Every property follows from an invariant on the frame of one call, and  *)
(* an action changes one frame: OneMoves reduces the preservation of the   *)
(* invariant to the new frame of the call that moves.                      *)
(***************************************************************************)
EXTENDS ProviderAdapters, TLAPS

\* What a frame looks like at each step of its call.
Frame(c, f) ==
  /\ f.pc \in {"idle", "creating", "reading", "yielded"} =>
       f.outcome = "pending" /\ f.cause = None
  /\ f.pc \in {"closing", "over"} => f.outcome # "pending"
  /\ f.pc \in {"idle", "creating"} => f.upstream = "none"
  /\ f.pc = "creating" => c \notin Streams \cap Fakes
  /\ f.pc \in {"reading", "yielded", "closing"} => c \in Streams
  /\ f.pc \in {"idle", "creating", "reading"} => f.completions = 0 /\ (c \notin Streams => f.sent = 0)
  /\ c \notin Streams => f.completions = 0 /\ f.sent = 0
  /\ f.pc \in {"reading", "yielded"} => f.upstream \in {"none", "open"}
  /\ f.pc = "closing" => f.upstream = "open"
  /\ f.pc = "over" => f.upstream # "open"
  /\ f.outcome = "returned" => f.upstream # "broken"
  /\ f.outcome = "returned" /\ c \in Streams => f.completions > 0
  /\ f.completions > 0 /\ f.outcome \in {"failed", "retriable"} => f.upstream = "broken"
  /\ f.cause # None => (f.outcome = "retriable" <=> ~Hopeless(f.cause))

IInv == TypeOK /\ \A c \in Calls : Frame(c, calls[c])

Good(c, f) == f \in Call /\ Frame(c, f)

\* The invariant holds again when the new frame of the moving call is good.
LEMMA OneMoves ==
  ASSUME IInv, NEW c \in Calls, NEW f, Good(c, f), Becomes(c, f)
  PROVE  IInv'
<1>1. calls' = [calls EXCEPT ![c] = f] /\ failPrompts' = failPrompts
  BY DEF Becomes
<1>2. calls \in [Calls -> Call] /\ failPrompts \subseteq Fakes
  BY DEF IInv, TypeOK
<1>3. TypeOK'
  BY <1>1, <1>2 DEF TypeOK, Good
<1>4. ASSUME NEW d \in Calls PROVE Frame(d, calls'[d])
  <2>1. CASE d = c
    BY <1>1, <1>2, <2>1 DEF Good
  <2>2. CASE d # c
    <3>1. calls'[d] = calls[d]
      BY <1>1, <1>2, <2>2
    <3> QED BY <3>1 DEF IInv
  <2> QED BY <2>1, <2>2
<1> QED BY <1>3, <1>4 DEF IInv

\* The classification by class and status says what cannot be mended.
LEMMA Classified ==
  ASSUME NEW e \in SdkErrors
  PROVE  /\ SdkError(e) \in {"failed", "retriable"}
         /\ SdkError(e) = "retriable" <=> ~Hopeless(e)
<1>1. /\ e.class \in SdkClasses
      /\ e.status \in Nat
      /\ e.class = "RateLimitError" <=> e.status = 429
      /\ e.class = "APIStatusError" => e.status >= 400
      /\ e.class \notin {"RateLimitError", "APIStatusError"} => e.status = 0
  BY AdaptersAssumption
<1> QED BY <1>1 DEF SdkError, Raised, Hopeless, SdkClasses

\* Ending a call that has not ended: with a good outcome the frame is good,
\* whether the response stream is still to be closed or not.
LEMMA Ends ==
  ASSUME IInv, NEW c \in Calls, At(c, {"idle", "creating", "reading", "yielded"}),
         NEW outcome \in Outcomes \ {"pending"}, NEW cause \in SdkErrors \cup {None},
         outcome = "returned" /\ c \in Streams => calls[c].completions > 0,
         outcome \in {"failed", "retriable"} => calls[c].completions = 0,
         cause # None => (outcome = "retriable" <=> ~Hopeless(cause)),
         End(c, outcome, cause)
  PROVE  IInv'
<1> DEFINE k == calls[c]
           f == [k EXCEPT !.pc = IF k.upstream = "open" THEN "closing" ELSE "over",
                          !.outcome = outcome, !.cause = cause]
<1>1. k \in Call /\ Frame(c, k)
  BY DEF IInv, TypeOK
<1>2. /\ f \in Call
      /\ f.pc = IF k.upstream = "open" THEN "closing" ELSE "over"
      /\ f.outcome = outcome /\ f.cause = cause /\ f.sent = k.sent
      /\ f.completions = k.completions /\ f.upstream = k.upstream
  BY <1>1 DEF Call, Steps, Outcomes
<1>3. /\ k.pc \in {"idle", "creating", "reading", "yielded"}
      /\ k.upstream \in {"none", "open"}
      /\ k.upstream = "open" => c \in Streams
  BY <1>1 DEF At, Frame
<1>4. Frame(c, f)
  <2> HIDE DEF f
  <2>1. f.pc \in {"closing", "over"}
    BY <1>2
  <2>2. f.pc = "closing" => k.upstream = "open"
    BY <1>2
  <2>3. f.pc = "over" => k.upstream # "open"
    BY <1>2
  <2>4. c \notin Streams => k.completions = 0 /\ k.sent = 0
    BY <1>1 DEF Frame
  <2>5. k.completions \in Nat
    BY <1>1 DEF Call
  <2>6. k.upstream # "broken"
    BY <1>3
  <2>7. outcome = "returned" /\ c \in Streams => k.completions > 0
    OBVIOUS
  <2>8. k.completions > 0 => outcome \notin {"failed", "retriable"}
    BY <2>5
  <2> HIDE DEF k
  <2> QED BY <1>2, <1>3, <2>1, <2>2, <2>3, <2>4, <2>5, <2>6, <2>7, <2>8 DEF Frame
<1>5. Becomes(c, f)
  BY DEF End
<1> HIDE DEF f
<1> QED BY <1>2, <1>4, <1>5, OneMoves DEF Good

\* Ending a call whose response stream could not be closed.
LEMMA EndsBroken ==
  ASSUME IInv, NEW c \in Calls,
         NEW outcome \in {"failed", "retriable", "given up"},
         NEW cause \in SdkErrors \cup {None},
         cause # None => (outcome = "retriable" <=> ~Hopeless(cause)),
         EndBroken(c, outcome, cause)
  PROVE  IInv'
<1> DEFINE k == calls[c]
           f == [k EXCEPT !.pc = "over", !.upstream = "broken",
                          !.outcome = outcome, !.cause = cause]
<1>1. k \in Call /\ Frame(c, k) /\ k.pc = "closing"
  BY DEF IInv, TypeOK, EndBroken, At
<1>2. /\ f \in Call /\ f.pc = "over" /\ f.upstream = "broken"
      /\ f.outcome = outcome /\ f.cause = cause /\ f.sent = k.sent
      /\ f.completions = k.completions
  BY <1>1 DEF Call, Steps, Outcomes
<1>3. Frame(c, f)
  <2>1. c \in Streams
    BY <1>1 DEF Frame
  <2> HIDE DEF f
  <2> QED BY <1>2, <2>1 DEF Frame
<1>4. Becomes(c, f)
  BY DEF EndBroken
<1> HIDE DEF f
<1> QED BY <1>2, <1>3, <1>4, OneMoves DEF Good

\* A frame that only goes on to another step before the end.
LEMMA GoesOn ==
  ASSUME IInv, NEW c \in Calls,
         NEW f, Becomes(c, f), f \in Call,
         f.outcome = calls[c].outcome, f.cause = calls[c].cause,
         At(c, {"idle", "creating", "reading", "yielded"}),
         f.pc \in {"creating", "reading", "yielded"},
         f.pc = "creating" => f.upstream = "none" /\ c \notin Streams \cap Fakes,
         f.pc \in {"reading", "yielded"} =>
           c \in Streams /\ f.upstream \in {"none", "open"},
         f.pc \in {"creating", "reading"} => f.completions = 0,
         f.pc = "creating" => f.sent = 0
  PROVE  IInv'
<1>1. f.outcome = "pending" /\ f.cause = None
  BY DEF IInv, Frame, At
<1>2. Frame(c, f)
  BY <1>1 DEF Frame
<1> QED BY <1>2, OneMoves DEF Good

-----------------------------------------------------------------------------
LEMMA InitIInv == Init => IInv
<1> SUFFICES ASSUME Init PROVE IInv
  OBVIOUS
<1>1. ASSUME NEW c \in Calls
      PROVE  calls[c] \in Call /\ Frame(c, calls[c])
  BY <1>1 DEF Init, Call, Steps, Outcomes, Frame
<1> QED BY <1>1 DEF Init, IInv, TypeOK

LEMMA CallerIInv ==
  ASSUME IInv, NEW c \in Calls, Caller(c)
  PROVE  IInv'
<1> DEFINE k == calls[c]
<1>1. k \in Call /\ Frame(c, k)
  BY DEF IInv, TypeOK
<1>2. CASE Begin(c)
  <2> DEFINE f == [k EXCEPT !.pc = IF c \in Streams \cap Fakes
                                     THEN "reading" ELSE "creating"]
  <2>1. /\ f \in Call /\ f.pc \in {"creating", "reading"}
        /\ f.pc = "reading" => c \in Streams
        /\ f.pc = "creating" => c \notin Streams \cap Fakes
        /\ f.outcome = k.outcome /\ f.cause = k.cause /\ f.sent = k.sent
        /\ f.completions = k.completions /\ f.upstream = k.upstream
    BY <1>1 DEF Call, Steps
  <2>2. k.upstream = "none" /\ k.completions = 0 /\ k.pc = "idle"
    BY <1>1, <1>2 DEF Begin, At, Frame
  <2>3. Becomes(c, f)
    BY <1>2 DEF Begin, Go
  <2>4. Frame(c, f)
    <3>1. k.outcome = "pending" /\ k.cause = None
      BY <1>1, <2>2 DEF Frame
    <3>2. c \notin Streams => k.sent = 0
      BY <1>1 DEF Frame
    <3> HIDE DEF f, k
    <3> QED BY <2>1, <2>2, <3>1, <3>2 DEF Frame
  <2> HIDE DEF f
  <2> QED BY <2>1, <2>3, <2>4, OneMoves DEF Good
<1>3. CASE Resume(c)
  <2>1. k.pc = "yielded" /\ c \in Streams /\ k.upstream \in {"none", "open"}
    BY <1>1, <1>3 DEF Resume, At, Frame
  <2>2. CASE k.completions > 0
    <3>1. End(c, "returned", None)
      BY <1>3, <2>2 DEF Resume
    <3> QED BY <2>1, <2>2, <3>1, Ends DEF At, Outcomes
  <2>3. CASE ~(k.completions > 0)
    <3> DEFINE f == [k EXCEPT !.pc = "reading"]
    <3>1. /\ f \in Call /\ f.pc = "reading"
          /\ f.outcome = k.outcome /\ f.cause = k.cause
          /\ f.completions = k.completions /\ f.upstream = k.upstream
      BY <1>1 DEF Call, Steps
    <3>2. k.completions = 0
      BY <1>1, <2>3 DEF Call
    <3>3. Becomes(c, f)
      BY <1>3, <2>3 DEF Resume, Go
    <3>4. At(c, {"idle", "creating", "reading", "yielded"})
      BY <2>1 DEF At
    <3> HIDE DEF f
    <3> QED BY <2>1, <3>1, <3>2, <3>3, <3>4, GoesOn
  <2> QED BY <2>2, <2>3
<1>4. CASE Drop(c)
  BY <1>4, Ends DEF Drop, At, Outcomes
<1>5. CASE Cancel(c)
  <2>1. CASE At(c, {"creating", "reading"}) /\ End(c, "given up", None)
    BY <2>1, Ends DEF At, Outcomes
  <2>2. CASE EndBroken(c, "given up", None)
    BY <2>2, EndsBroken
  <2> QED BY <1>5, <2>1, <2>2 DEF Cancel
<1> QED BY <1>2, <1>3, <1>4, <1>5 DEF Caller

\* The events that deliver something, of either adapter.
LEMMA DeliversIInv ==
  ASSUME IInv, NEW c \in Calls, At(c, {"reading"}), Deliver(c) \/ Complete(c)
  PROVE  IInv'
<1> DEFINE k == calls[c]
<1>1. k \in Call /\ Frame(c, k) /\ k.pc = "reading"
  BY DEF IInv, TypeOK, At
<1>2. c \in Streams /\ k.upstream \in {"none", "open"} /\ k.completions = 0
  BY <1>1 DEF Frame
<1>3. At(c, {"idle", "creating", "reading", "yielded"})
  BY <1>1 DEF At
<1>4. CASE Deliver(c)
  <2> DEFINE f == [k EXCEPT !.pc = "yielded", !.sent = k.sent + 1]
  <2>1. /\ f \in Call /\ f.pc = "yielded" /\ f.outcome = k.outcome
        /\ f.cause = k.cause /\ f.upstream = k.upstream
    <3>1. k.sent + 1 \in Nat
      BY <1>1 DEF Call
    <3> QED BY <1>1, <3>1 DEF Call, Steps
  <2>2. Becomes(c, f)
    BY <1>1, <1>4 DEF Deliver, Call
  <2> HIDE DEF f
  <2> QED BY <1>2, <1>3, <2>1, <2>2, GoesOn
<1>5. CASE Complete(c)
  <2> DEFINE f == [k EXCEPT !.pc = "yielded", !.completions = k.completions + 1]
  <2>1. /\ f \in Call /\ f.pc = "yielded" /\ f.outcome = k.outcome
        /\ f.cause = k.cause /\ f.upstream = k.upstream
    <3>1. k.completions + 1 \in Nat
      BY <1>1 DEF Call
    <3> QED BY <1>1, <3>1 DEF Call, Steps
  <2>2. Becomes(c, f)
    BY <1>1, <1>5 DEF Complete, Call
  <2> HIDE DEF f
  <2> QED BY <1>2, <1>3, <2>1, <2>2, GoesOn
<1> QED BY <1>4, <1>5

LEMMA OpenAIIInv ==
  ASSUME IInv, NEW c \in Calls, OpenAI(c)
  PROVE  IInv'
<1> DEFINE k == calls[c]
<1>1. k \in Call /\ Frame(c, k)
  BY DEF IInv, TypeOK
<1>2. k.pc \in {"creating", "reading"} => k.completions = 0
  BY <1>1 DEF Frame
<1>3. ASSUME NEW outcome \in {"failed", "retriable"}, At(c, {"creating", "reading"}),
             End(c, outcome, None)
      PROVE  IInv'
  BY <1>2, <1>3, Ends DEF At, Outcomes
<1>4. CASE Created(c)
  <2> DEFINE f == [k EXCEPT !.pc = "reading", !.upstream = "open"]
  <2>1. /\ f \in Call /\ f.pc = "reading" /\ f.upstream = "open"
        /\ f.outcome = k.outcome /\ f.cause = k.cause
        /\ f.completions = k.completions
    BY <1>1 DEF Call, Steps
  <2>2. Becomes(c, f) /\ c \in Streams /\ k.completions = 0
        /\ At(c, {"idle", "creating", "reading", "yielded"})
    BY <1>2, <1>4 DEF Created, At
  <2> HIDE DEF f
  <2> QED BY <2>1, <2>2, GoesOn
<1>5. CASE Answered(c)
  <2>1. c \notin Streams
    BY <1>5, AdaptersAssumption DEF Answered
  <2> QED BY <1>5, <2>1, Ends DEF Answered, At, Outcomes
<1>6. CASE Delta(c)
  BY <1>6, DeliversIInv DEF Delta
<1>7. CASE Completed(c)
  BY <1>7, DeliversIInv DEF Completed
<1>8. CASE ResponseFails(c)
  <2>1. PICK code \in ResponseCodes : End(c, ResponseError(code), None)
    BY <1>8 DEF ResponseFails
  <2>2. ResponseError(code) \in {"failed", "retriable"}
    BY DEF ResponseError, Raised
  <2>3. At(c, {"creating", "reading"})
    BY <1>8 DEF ResponseFails, At
  <2> QED BY <1>3, <2>1, <2>2, <2>3
<1>9. CASE StreamFails(c)
  BY <1>3, <1>9 DEF StreamFails, Raised, At
<1>10. CASE StreamEnds(c)
  BY <1>3, <1>10 DEF StreamEnds, Raised, At
<1>11. CASE SdkRaises(c)
  <2>1. At(c, {"creating", "reading"})
    BY <1>11 DEF SdkRaises
  <2>2. ASSUME NEW e \in SdkErrors, End(c, SdkError(e), e) PROVE IInv'
    <3>1. /\ SdkError(e) \in {"failed", "retriable"}
          /\ SdkError(e) = "retriable" <=> ~Hopeless(e)
      BY Classified
    <3> QED BY <1>2, <2>1, <2>2, <3>1, Ends DEF At, Outcomes
  <2>3. CASE End(c, Raised(FALSE), None)
    BY <1>3, <2>1, <2>3 DEF Raised
  <2> QED BY <1>11, <2>2, <2>3 DEF SdkRaises
<1>12. CASE Closed(c)
  <2> DEFINE f == [k EXCEPT !.pc = "over", !.upstream = "closed"]
  <2>1. /\ f \in Call /\ f.pc = "over" /\ f.upstream = "closed"
        /\ f.outcome = k.outcome /\ f.cause = k.cause /\ f.sent = k.sent
        /\ f.completions = k.completions
    BY <1>1 DEF Call, Steps
  <2>2. k.pc = "closing" /\ Becomes(c, f)
    BY <1>12 DEF Closed, At
  <2>3. Frame(c, f)
    <3>1. /\ c \in Streams /\ k.upstream = "open" /\ k.outcome # "pending"
          /\ k.outcome = "returned" => k.completions > 0
          /\ ~(k.completions > 0 /\ k.outcome \in {"failed", "retriable"})
          /\ k.cause # None => (k.outcome = "retriable" <=> ~Hopeless(k.cause))
      BY <1>1, <2>2 DEF Frame
    <3> HIDE DEF f, k
    <3> QED BY <2>1, <3>1 DEF Frame
  <2> HIDE DEF f
  <2> QED BY <2>1, <2>2, <2>3, OneMoves DEF Good
<1>13. CASE CloseFails(c)
  <2>1. ASSUME NEW e \in SdkErrors, EndBroken(c, SdkError(e), e) PROVE IInv'
    <3>1. /\ SdkError(e) \in {"failed", "retriable"}
          /\ SdkError(e) = "retriable" <=> ~Hopeless(e)
      BY Classified
    <3> QED BY <2>1, <3>1, EndsBroken
  <2>2. CASE EndBroken(c, Raised(FALSE), None)
    BY <2>2, EndsBroken DEF Raised
  <2> QED BY <1>13, <2>1, <2>2 DEF CloseFails
<1> QED BY <1>4, <1>5, <1>6, <1>7, <1>8, <1>9, <1>10, <1>11, <1>12, <1>13 DEF OpenAI

LEMMA FakeIInv ==
  ASSUME IInv, NEW c \in Calls, Fake(c)
  PROVE  IInv'
<1>1. calls[c] \in Call /\ Frame(c, calls[c])
  BY DEF IInv, TypeOK
<1>2. CASE FakeFails(c)
  <2>1. PICK outcome \in {"failed", "retriable"} : End(c, outcome, None)
    BY <1>2 DEF FakeFails
  <2>2. calls[c].completions = 0 /\ At(c, {"creating", "reading"})
    BY <1>1, <1>2 DEF FakeFails, At, Frame
  <2> QED BY <2>1, <2>2, Ends DEF At, Outcomes
<1>3. CASE FakeAnswers(c)
  <2>1. c \notin Streams
    BY <1>1, <1>3 DEF FakeAnswers, At, Frame
  <2> QED BY <1>3, <2>1, Ends DEF FakeAnswers, At, Outcomes
<1>4. CASE FakeDelta(c)
  BY <1>4, DeliversIInv DEF FakeDelta
<1>5. CASE FakeCompletes(c)
  BY <1>5, DeliversIInv DEF FakeCompletes
<1> QED BY <1>2, <1>3, <1>4, <1>5 DEF Fake

LEMMA NextIInv == IInv /\ [Next]_vars => IInv'
<1> SUFFICES ASSUME IInv, [Next]_vars PROVE IInv'
  OBVIOUS
<1>1. CASE UNCHANGED vars
  BY <1>1 DEF vars, IInv, TypeOK
<1>2. ASSUME NEW c \in Calls, Caller(c) \/ OpenAI(c) \/ Fake(c) PROVE IInv'
  BY <1>2, CallerIInv, OpenAIIInv, FakeIInv
<1> QED BY <1>1, <1>2 DEF Next

\* The frames of all calls are as Frame says, always.
THEOREM Invariant == Spec => []IInv
BY InitIInv, NextIInv, PTL DEF Spec

\* The frames keep their types.
THEOREM TypeCorrect == Spec => []TypeOK
<1>1. IInv => TypeOK
  BY DEF IInv
<1> QED BY <1>1, Invariant, PTL

\* A call that is over has left no response stream open, and what it raises
\* says whether the request is worth repeating.
THEOREM CleanEnds == Spec => []EndedCallsAreClean
<1>1. IInv => EndedCallsAreClean
  BY DEF IInv, EndedCallsAreClean, Frame, At
<1> QED BY <1>1, Invariant, PTL

-----------------------------------------------------------------------------
(* The refinement.                                                         *)

\* How one frame may change if the contract is kept.
Keeps(c, k, f) ==
  \/ f.sent = k.sent /\ Phase(f) = Phase(k)
  \/ /\ c \in Streams /\ Phase(k) = "open" /\ Phase(f) = "open"
     /\ f.sent = k.sent + 1
  \/ /\ f.sent = k.sent
     /\ \/ c \in Streams /\ Phase(k) = "open" /\ Phase(f) = "completed"
        \/ /\ Phase(k) = IF c \in Streams THEN "completed" ELSE "open"
           /\ Phase(f) = "returned"
        \/ Phase(k) \in {"open", "completed"} /\ Phase(f) \in {"failed", "given up"}

\* Such a change is a step of the contract.
LEMMA Maps ==
  ASSUME IInv, NEW c \in Calls, NEW f, Becomes(c, f), Keeps(c, calls[c], f)
  PROVE  [Contract!CNext]_(Contract!cvars)
<1> DEFINE k == calls[c]
           ph == [d \in Calls |-> Phase(calls[d])]
           tx == [d \in Calls |-> calls[d].sent]
           ph2 == [d \in Calls |-> Phase(calls'[d])]
           tx2 == [d \in Calls |-> calls'[d].sent]
<1>1. calls' = [calls EXCEPT ![c] = f] /\ calls \in [Calls -> Call]
  BY DEF Becomes, IInv, TypeOK
<1>2. calls'[c] = f /\ \A d \in Calls \ {c} : calls'[d] = calls[d]
  BY <1>1
<1>3. ph2 = [ph EXCEPT ![c] = Phase(f)]
  BY <1>2
<1>4. tx2 = [tx EXCEPT ![c] = f.sent]
  BY <1>2
<1>5. ph[c] = Phase(k) /\ tx[c] = k.sent
  OBVIOUS
<1>6. c \in Contract!Calls
  BY DEF Calls, Contract!Calls
<1>7. CASE f.sent = k.sent /\ Phase(f) = Phase(k)
  <2>1. ph2 = ph /\ tx2 = tx
    BY <1>2, <1>7
  <2> QED BY <2>1 DEF Contract!cvars
<1>8. CASE /\ c \in Streams /\ Phase(k) = "open" /\ Phase(f) = "open"
           /\ f.sent = k.sent + 1
  <2>1. ph2 = ph
    BY <1>2, <1>8
  <2>2. tx2 = [tx EXCEPT ![c] = @ + 1]
    BY <1>4, <1>5, <1>8
  <2>3. Contract!Deliver(c)
    BY <1>5, <1>8, <2>1, <2>2 DEF Contract!Deliver
  <2> QED BY <1>6, <2>3 DEF Contract!CNext
<1>9. CASE f.sent = k.sent /\ Phase(f) # Phase(k)
  <2>1. tx2 = tx
    BY <1>2, <1>9
  <2>2. CASE c \in Streams /\ Phase(k) = "open" /\ Phase(f) = "completed"
    <3>1. Contract!Complete(c)
      BY <1>3, <1>5, <2>1, <2>2 DEF Contract!Complete, Contract!Moves
    <3> QED BY <1>6, <3>1 DEF Contract!CNext
  <2>3. CASE /\ Phase(k) = IF c \in Streams THEN "completed" ELSE "open"
             /\ Phase(f) = "returned"
    <3>1. Contract!Return(c)
      BY <1>3, <1>5, <2>1, <2>3 DEF Contract!Return, Contract!Moves
    <3> QED BY <1>6, <3>1 DEF Contract!CNext
  <2>4. CASE Phase(k) \in {"open", "completed"} /\ Phase(f) = "failed"
    <3>1. Contract!Fail(c)
      BY <1>3, <1>5, <2>1, <2>4 DEF Contract!Fail, Contract!Moves
    <3> QED BY <1>6, <3>1 DEF Contract!CNext
  <2>5. CASE Phase(k) \in {"open", "completed"} /\ Phase(f) = "given up"
    <3>1. Contract!GiveUp(c)
      BY <1>3, <1>5, <2>1, <2>5 DEF Contract!GiveUp, Contract!Moves
    <3> QED BY <1>6, <3>1 DEF Contract!CNext
  <2>6. k.sent # k.sent + 1
    <3>1. k.sent \in Nat
      BY <1>1 DEF Call
    <3> QED BY <3>1
  <2> QED BY <1>9, <2>2, <2>3, <2>4, <2>5, <2>6 DEF Keeps
<1> QED BY <1>7, <1>8, <1>9 DEF Keeps

LEMMA EndKeeps ==
  ASSUME IInv, NEW c \in Calls, At(c, {"idle", "creating", "reading", "yielded"}),
         NEW outcome \in Outcomes \ {"pending"}, NEW cause,
         outcome = "returned" =>
           (c \in Streams <=> calls[c].completions > 0),
         End(c, outcome, cause)
  PROVE  [Contract!CNext]_(Contract!cvars)
<1> DEFINE k == calls[c]
           f == [k EXCEPT !.pc = IF k.upstream = "open" THEN "closing" ELSE "over",
                          !.outcome = outcome, !.cause = cause]
<1>1. k \in Call /\ k.pc \in {"idle", "creating", "reading", "yielded"}
  BY DEF IInv, TypeOK, At
<1>2. /\ f.pc \in {"closing", "over"} /\ f.outcome = outcome
      /\ f.sent = k.sent /\ f.completions = k.completions
  BY <1>1 DEF Call
<1>3. Becomes(c, f)
  BY DEF End
<1>4. Keeps(c, k, f)
  <2> HIDE DEF f, k
  <2>1. Phase(k) = IF k.completions > 0 THEN "completed" ELSE "open"
    BY <1>1 DEF Phase
  <2>2. CASE f.pc = "closing"
    BY <1>2, <2>1, <2>2 DEF Keeps, Phase
  <2>3. CASE f.pc = "over"
    <3>1. Phase(f) = IF outcome = "retriable" THEN "failed" ELSE outcome
      BY <1>2, <2>3 DEF Phase
    <3>2. CASE outcome = "returned"
      <4>1. c \in Streams <=> k.completions > 0
        BY <3>2 DEF k
      <4> QED BY <1>2, <2>1, <3>1, <3>2, <4>1 DEF Keeps
    <3>3. CASE outcome # "returned"
      BY <1>2, <2>1, <3>1, <3>3 DEF Keeps, Outcomes
    <3> QED BY <3>2, <3>3
  <2> QED BY <1>2, <2>2, <2>3
<1> HIDE DEF f
<1> QED BY <1>3, <1>4, Maps

LEMMA EndBrokenKeeps ==
  ASSUME IInv, NEW c \in Calls, NEW outcome \in {"failed", "retriable", "given up"},
         NEW cause, EndBroken(c, outcome, cause)
  PROVE  [Contract!CNext]_(Contract!cvars)
<1> DEFINE k == calls[c]
           f == [k EXCEPT !.pc = "over", !.upstream = "broken",
                          !.outcome = outcome, !.cause = cause]
<1>1. k \in Call /\ k.pc = "closing"
  BY DEF IInv, TypeOK, EndBroken, At
<1>2. f.pc = "over" /\ f.outcome = outcome /\ f.sent = k.sent
  BY <1>1 DEF Call
<1>3. Becomes(c, f)
  BY DEF EndBroken
<1>4. Keeps(c, k, f)
  <2> HIDE DEF f, k
  <2> QED BY <1>1, <1>2 DEF Keeps, Phase
<1> HIDE DEF f
<1> QED BY <1>3, <1>4, Maps

LEMMA CallerKeeps ==
  ASSUME IInv, NEW c \in Calls, Caller(c)
  PROVE  [Contract!CNext]_(Contract!cvars)
<1> DEFINE k == calls[c]
<1>1. k \in Call /\ Frame(c, k)
  BY DEF IInv, TypeOK
<1>2. ASSUME NEW step \in {"creating", "reading"}, k.pc # "over", Go(c, step)
      PROVE  [Contract!CNext]_(Contract!cvars)
  <2> DEFINE f == [k EXCEPT !.pc = step]
  <2>1. f.pc = step /\ f.sent = k.sent /\ f.completions = k.completions
    BY <1>1 DEF Call
  <2>2. Becomes(c, f)
    BY <1>2 DEF Go
  <2>3. Keeps(c, k, f)
    <3> HIDE DEF f, k
    <3> QED BY <1>2, <2>1 DEF Keeps, Phase
  <2> HIDE DEF f
  <2> QED BY <2>2, <2>3, Maps
<1>3. CASE Begin(c)
  BY <1>2, <1>3 DEF Begin, At
<1>4. CASE Resume(c)
  <2>1. k.pc = "yielded" /\ c \in Streams
    BY <1>1, <1>4 DEF Resume, At, Frame
  <2>2. CASE k.completions > 0
    <3>1. End(c, "returned", None)
      BY <1>4, <2>2 DEF Resume
    <3> QED BY <2>1, <2>2, <3>1, EndKeeps DEF At, Outcomes
  <2>3. CASE ~(k.completions > 0)
    BY <1>2, <1>4, <2>1, <2>3 DEF Resume
  <2> QED BY <2>2, <2>3
<1>5. CASE Drop(c)
  BY <1>5, EndKeeps DEF Drop, At, Outcomes
<1>6. CASE Cancel(c)
  <2>1. CASE At(c, {"creating", "reading"}) /\ End(c, "given up", None)
    BY <2>1, EndKeeps DEF At, Outcomes
  <2>2. CASE EndBroken(c, "given up", None)
    BY <2>2, EndBrokenKeeps
  <2> QED BY <1>6, <2>1, <2>2 DEF Cancel
<1> QED BY <1>3, <1>4, <1>5, <1>6 DEF Caller

LEMMA DeliversKeeps ==
  ASSUME IInv, NEW c \in Calls, At(c, {"reading"}), Deliver(c) \/ Complete(c)
  PROVE  [Contract!CNext]_(Contract!cvars)
<1> DEFINE k == calls[c]
<1>1. k \in Call /\ k.pc = "reading" /\ c \in Streams /\ k.completions = 0
  BY DEF IInv, TypeOK, At, Frame
<1>2. Phase(k) = "open"
  BY <1>1 DEF Phase
<1>3. CASE Deliver(c)
  <2> DEFINE f == [k EXCEPT !.pc = "yielded", !.sent = k.sent + 1]
  <2>1. /\ f.pc = "yielded" /\ f.sent = k.sent + 1 /\ f.completions = 0
    BY <1>1 DEF Call
  <2>2. Becomes(c, f)
    BY <1>1, <1>3 DEF Deliver, Call
  <2>3. Keeps(c, k, f)
    <3> HIDE DEF f, k
    <3> QED BY <1>1, <1>2, <2>1 DEF Keeps, Phase
  <2> HIDE DEF f
  <2> QED BY <2>2, <2>3, Maps
<1>4. CASE Complete(c)
  <2> DEFINE f == [k EXCEPT !.pc = "yielded", !.completions = k.completions + 1]
  <2>1. /\ f.pc = "yielded" /\ f.sent = k.sent /\ f.completions = 1
    BY <1>1 DEF Call
  <2>2. Becomes(c, f)
    BY <1>1, <1>4 DEF Complete, Call
  <2>3. Keeps(c, k, f)
    <3> HIDE DEF f, k
    <3> QED BY <1>1, <1>2, <2>1 DEF Keeps, Phase
  <2> HIDE DEF f
  <2> QED BY <2>2, <2>3, Maps
<1> QED BY <1>3, <1>4

LEMMA OpenAIKeeps ==
  ASSUME IInv, NEW c \in Calls, OpenAI(c)
  PROVE  [Contract!CNext]_(Contract!cvars)
<1> DEFINE k == calls[c]
<1>1. k \in Call /\ Frame(c, k)
  BY DEF IInv, TypeOK
<1>2. ASSUME NEW outcome \in {"failed", "retriable"}, NEW cause,
             At(c, {"creating", "reading"}), End(c, outcome, cause)
      PROVE  [Contract!CNext]_(Contract!cvars)
  BY <1>2, EndKeeps DEF At, Outcomes
<1>3. CASE Created(c)
  <2> DEFINE f == [k EXCEPT !.pc = "reading", !.upstream = "open"]
  <2>1. /\ f.pc = "reading" /\ f.sent = k.sent /\ f.completions = k.completions
        /\ k.pc = "creating"
    BY <1>1, <1>3 DEF Call, Created, At
  <2>2. Becomes(c, f)
    BY <1>3 DEF Created
  <2>3. Keeps(c, k, f)
    <3> HIDE DEF f, k
    <3> QED BY <2>1 DEF Keeps, Phase
  <2> HIDE DEF f
  <2> QED BY <2>2, <2>3, Maps
<1>4. CASE Answered(c)
  <2>1. c \notin Streams /\ k.completions = 0
    BY <1>1, <1>4, AdaptersAssumption DEF Answered, Frame
  <2>2. c \in Streams <=> calls[c].completions > 0
    BY <2>1
  <2>3. /\ At(c, {"idle", "creating", "reading", "yielded"})
        /\ End(c, "returned", None) /\ "returned" \in Outcomes \ {"pending"}
    BY <1>4 DEF Answered, At, Outcomes
  <2> HIDE DEF k
  <2> QED BY <2>2, <2>3, EndKeeps
<1>5. CASE Delta(c)
  BY <1>5, DeliversKeeps DEF Delta
<1>6. CASE Completed(c)
  BY <1>6, DeliversKeeps DEF Completed
<1>7. CASE ResponseFails(c)
  <2>1. PICK code \in ResponseCodes : End(c, ResponseError(code), None)
    BY <1>7 DEF ResponseFails
  <2>2. ResponseError(code) \in {"failed", "retriable"}
    BY DEF ResponseError, Raised
  <2>3. At(c, {"creating", "reading"})
    BY <1>7 DEF ResponseFails, At
  <2> QED BY <1>2, <2>1, <2>2, <2>3
<1>8. CASE StreamFails(c)
  BY <1>2, <1>8 DEF StreamFails, Raised, At
<1>9. CASE StreamEnds(c)
  BY <1>2, <1>9 DEF StreamEnds, Raised, At
<1>10. CASE SdkRaises(c)
  <2>1. At(c, {"creating", "reading"})
    BY <1>10 DEF SdkRaises
  <2>2. ASSUME NEW e \in SdkErrors, End(c, SdkError(e), e)
        PROVE  [Contract!CNext]_(Contract!cvars)
    BY <1>2, <2>1, <2>2, Classified
  <2>3. CASE End(c, Raised(FALSE), None)
    BY <1>2, <2>1, <2>3 DEF Raised
  <2> QED BY <1>10, <2>2, <2>3 DEF SdkRaises
<1>11. CASE Closed(c)
  <2> DEFINE f == [k EXCEPT !.pc = "over", !.upstream = "closed"]
  <2>1. /\ f.pc = "over" /\ f.sent = k.sent /\ f.outcome = k.outcome
        /\ k.pc = "closing"
    BY <1>1, <1>11 DEF Call, Closed, At
  <2>2. Becomes(c, f)
    BY <1>11 DEF Closed
  <2>3. Keeps(c, k, f)
    <3>1. /\ c \in Streams /\ k.outcome \in Outcomes \ {"pending"}
          /\ k.outcome = "returned" => k.completions > 0
      BY <1>1, <2>1 DEF Frame, Call
    <3> HIDE DEF f, k
    <3> QED BY <2>1, <3>1 DEF Keeps, Phase, Outcomes
  <2> HIDE DEF f
  <2> QED BY <2>2, <2>3, Maps
<1>12. CASE CloseFails(c)
  <2>1. ASSUME NEW e \in SdkErrors, EndBroken(c, SdkError(e), e)
        PROVE  [Contract!CNext]_(Contract!cvars)
    BY <2>1, Classified, EndBrokenKeeps
  <2>2. CASE EndBroken(c, Raised(FALSE), None)
    BY <2>2, EndBrokenKeeps DEF Raised
  <2> QED BY <1>12, <2>1, <2>2 DEF CloseFails
<1> QED BY <1>3, <1>4, <1>5, <1>6, <1>7, <1>8, <1>9, <1>10, <1>11, <1>12 DEF OpenAI

LEMMA FakeKeeps ==
  ASSUME IInv, NEW c \in Calls, Fake(c)
  PROVE  [Contract!CNext]_(Contract!cvars)
<1>1. Frame(c, calls[c])
  BY DEF IInv
<1>2. CASE FakeFails(c)
  <2>1. PICK outcome \in {"failed", "retriable"} : End(c, outcome, None)
    BY <1>2 DEF FakeFails
  <2> QED BY <1>2, <2>1, EndKeeps DEF FakeFails, At, Outcomes
<1>3. CASE FakeAnswers(c)
  <2>1. c \notin Streams /\ calls[c].completions = 0
    BY <1>1, <1>3 DEF FakeAnswers, At, Frame
  <2>2. c \in Streams <=> calls[c].completions > 0
    BY <2>1
  <2>3. /\ At(c, {"idle", "creating", "reading", "yielded"})
        /\ End(c, "returned", None) /\ "returned" \in Outcomes \ {"pending"}
    BY <1>3 DEF FakeAnswers, At, Outcomes
  <2> QED BY <2>2, <2>3, EndKeeps
<1>4. CASE FakeDelta(c)
  BY <1>4, DeliversKeeps DEF FakeDelta
<1>5. CASE FakeCompletes(c)
  BY <1>5, DeliversKeeps DEF FakeCompletes
<1> QED BY <1>2, <1>3, <1>4, <1>5 DEF Fake

\* Both adapters implement the contract that their callers rely on.
THEOREM ContractKept == Spec => ImplementsContract
<1>1. Init => Contract!CInit
  BY DEF Init, Contract!CInit, Phase, Calls, Contract!Calls
<1>2. IInv /\ [Next]_vars => [Contract!CNext]_(Contract!cvars)
  <2> SUFFICES ASSUME IInv, [Next]_vars
               PROVE  [Contract!CNext]_(Contract!cvars)
    OBVIOUS
  <2>1. CASE UNCHANGED vars
    BY <2>1 DEF vars, Contract!cvars
  <2>2. ASSUME NEW c \in Calls, Caller(c) \/ OpenAI(c) \/ Fake(c)
        PROVE  [Contract!CNext]_(Contract!cvars)
    BY <2>2, CallerKeeps, OpenAIKeeps, FakeKeeps
  <2> QED BY <2>1, <2>2 DEF Next
<1> QED BY <1>1, <1>2, Invariant, PTL DEF Spec, ImplementsContract, Contract!CSpec
=============================================================================
