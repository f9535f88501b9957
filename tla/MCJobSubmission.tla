-------------------------- MODULE MCJobSubmission --------------------------
(* An instance of JobSubmission for TLC: a rolling deployment.  The first   *)
(* release is replaced by one with another model, and that one by one with  *)
(* another secret and lower limits.                                         *)
EXTENDS JobSubmission

CONSTANTS a1, a2, a3, a4, a5, a6, k, p1, p2, old, new, rotated, s1, s2, m1, m2

\* a1 and a2 are one request sent twice, which a3 and a4 repeat to newer
\* releases.  a5 uses the key for a payload that its release does not admit,
\* and a6 sends no key.
MCKeyOf == [r \in Requests |-> IF r = a6 THEN NoKey ELSE k]

MCPayloadOf == [r \in Requests |-> IF r = a5 THEN p2 ELSE p1]

MCServedBy == [r \in Requests |->
  CASE r = a3 -> new [] r \in {a4, a5} -> rotated [] OTHER -> old]

MCSecretOf == [x \in Releases |-> IF x = rotated THEN s2 ELSE s1]

MCProfileOf == [x \in Releases |-> IF x = old THEN m1 ELSE m2]

MCWithinLimits == [x \in Releases |-> IF x = rotated THEN {p1} ELSE Payloads]
=============================================================================
