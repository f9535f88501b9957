---------------------------- MODULE MCExportJobs ----------------------------
(* Instances of ExportJobs for TLC. *)
EXTENDS ExportJobs, TLC

CONSTANTS r1, r2, r3, r4, k1, k2, p1, p2

\* r1 and r2 are one request sent twice, r3 reuses their key for another
\* payload, and r4 has a key of its own.
MCKeyOf == [r \in Requests |-> IF r = r4 THEN k2 ELSE k1]

MCPayloadOf == [r \in Requests |-> IF r \in {r1, r2} THEN p1 ELSE p2]

\* Dispatchers are alike, and so are workers.
MCSymmetry == Permutations(Dispatchers) \cup Permutations(Workers)
=============================================================================
