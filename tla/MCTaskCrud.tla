----------------------------- MODULE MCTaskCrud -----------------------------
(* An instance of TaskCrud for TLC. *)
EXTENDS TaskCrud, TLC

CONSTANTS c1, c2, p1, p2, n1, d1, d2

\* Everybody is after the first id.  p1 and p2 patch different fields, n1
\* sends a null.
MCTargetOf == [r \in Patches \cup Deletes |-> 1]
MCFields == [p \in Patches |-> IF p = p1 THEN {"title"} ELSE {"completed"}]
MCTitleOf == [r \in Creates \cup Patches |-> IF r \in Creates THEN "old" ELSE "new"]
MCDoneOf == [p \in Patches |-> "yes"]

MCSymmetry == Permutations(Creates) \cup Permutations(Deletes)
=============================================================================
