---------------------------- MODULE MCProjectsApi ----------------------------
(* An instance of ProjectsApi for TLC. *)
EXTENDS ProjectsApi, TLC

CONSTANTS g1, g2, g3, l1, l3, c1, c2, c3, q1, q2, q3, d1

\* g1 and g2 register one address in two spellings and with two passwords.
MCEmailOf == [r \in Registers \cup Logins |->
  CASE r = g2 -> "Ann" [] r \in {g3, l3} -> "bob" [] OTHER -> "ann"]
MCLower == [e \in {"ann", "Ann", "bob"} |-> IF e = "Ann" THEN "ann" ELSE e]
MCPasswordOf == [r \in Registers \cup Logins |-> IF r = g2 THEN 2 ELSE 1]

\* Ann creates projects and follows three pages; Bob reads one by its id.
MCLoginOf == [r \in ProjectRequests |-> IF r = d1 THEN l3 ELSE l1]
MCNameOf == [c \in Creates |-> IF c = c2 THEN c1 ELSE c]
MCOffsetOf == [q \in Pages |-> CASE q = q1 -> 0 [] q = q2 -> 1 [] q = q3 -> 2]
MCTargetOf == [r \in Reads |-> c1]

\* Ann registers twice at once, creates three projects at once, two of them
\* of one name, and follows the pages while the third is created.
MCAfter == [r \in Requests |->
  CASE r = g3 -> {} [] r = l3 -> {g3} [] r \in {g1, g2} -> {l3}
    [] r = l1 -> {g1, g2} [] r \in Creates -> {l1} [] r = q1 -> {c1, c2}
    [] r = q2 -> {q1} [] r = q3 -> {q2} [] r = d1 -> {c3, q3}]
=============================================================================
